-------------------------- MODULE ReplicationProofs --------------------------
(***************************************************************************)
(* Replication, for any number of backups, entries and connections, under  *)
(* every interleaving of the two loops, the handlers and the backups, with *)
(* connections that break at any time: a backup whose connection stands is *)
(* in the set of writers, its log copies the primary's entries in order,   *)
(* and its connection has no gaps.                                         *)
(***************************************************************************)
EXTENDS Replication, Integers, SequenceTheorems, WellFoundedInduction, TLAPS

Message == Entry \cup {Ack, HB}

LoopType == [pc : {"waiting", "running", "suspended", "dead"},
             msg : Entry \cup {HB}, members : SUBSET Conn,
             todo : SUBSET Conn, at : SUBSET Conn, dead : SUBSET Conn]

ConnType == [link : {"open", "leaked", "lost"},
             handler : {"hello", "open", "ended"},
             inbox : Seq(Message), since : 0..MaxEntries]

BackupType == [pc : {"connecting", "handshake", "streaming"},
               conn : 0..MaxConns, from : Nat, log : Seq(Entry)]

\* The entries taken from the queue: the last one is being sent, or was.
Taken == logged - Len(queue)

Broadcasting == loop["broadcast"].pc \in {"running", "suspended"}

Reading(b) == backup[b].pc # "connecting"

\* Every reader has a connection of its own, which the primary has made.
ReadersFit ==
  /\ \A b \in Backup : Reading(b) =>
       /\ backup[b].conn \in DOMAIN conn
       /\ conn[backup[b].conn].link # "leaked"
  /\ \A b \in Backup : backup[b].from <= Len(backup[b].log)
  /\ \A b, c \in Backup :
       Reading(b) /\ Reading(c) /\ backup[b].conn = backup[c].conn => b = c

\* The loops go over connections that were made, and give up only lost ones.
LoopsFit ==
  \A l \in Loop :
    /\ loop[l].members \subseteq DOMAIN conn
    /\ loop[l].todo \subseteq loop[l].members
    /\ loop[l].at \subseteq DOMAIN conn
    /\ \A n \in loop[l].dead : n \in DOMAIN conn /\ Lost(n)

\* The queue holds the entries behind the one that is being sent.
QueueFits ==
  /\ Len(queue) <= logged
  /\ \A i \in 1..Len(queue) : queue[i] = Taken + i
  /\ Broadcasting => loop["broadcast"].msg = Taken
  /\ loop["heartbeat"].msg = HB

PlacesFit ==
  /\ ReplicationTypeOK
  /\ ReadersFit /\ LoopsFit /\ QueueFits
  /\ LiveBackupIsServed

-----------------------------------------------------------------------------
(* Types, taken apart. *)

LEMMA Types ==
  ASSUME ReplicationTypeOK
  PROVE  /\ logged \in Nat /\ logged <= MaxEntries
         /\ queue \in Seq(Entry) /\ Len(queue) \in Nat
         /\ conn \in Seq(ConnType)
         /\ DOMAIN conn = 1..Len(conn) /\ Len(conn) \in Nat
         /\ Len(conn) <= MaxConns
         /\ \A n \in DOMAIN conn : n \in Conn /\ conn[n] \in ConnType
         /\ \A l \in Loop : loop[l] \in LoopType
         /\ \A b \in Backup : backup[b] \in BackupType
<1>1. conn \in Seq(ConnType) /\ queue \in Seq(Entry)
  BY DEF ReplicationTypeOK, ConnType, Message
<1>2. DOMAIN conn = 1..Len(conn) /\ Len(conn) \in Nat /\ Len(queue) \in Nat
  BY <1>1, LenProperties
<1>3. Len(conn) <= MaxConns /\ MaxConns \in Nat /\ MaxEntries \in Nat
  BY ReplicationAssumption DEF ReplicationTypeOK
<1>4. \A n \in DOMAIN conn : n \in Conn
  BY <1>2, <1>3 DEF Conn
<1>5. \A n \in DOMAIN conn : conn[n] \in ConnType
  BY <1>1, <1>2, ElementOfSeq
<1>6. \A l \in Loop : loop[l] \in LoopType
  BY DEF ReplicationTypeOK, LoopType
<1>7. \A b \in Backup : backup[b] \in BackupType
  BY DEF ReplicationTypeOK, BackupType
<1>8. logged \in Nat /\ logged <= MaxEntries
  BY <1>3 DEF ReplicationTypeOK
<1>9. QED
  BY <1>1, <1>2, <1>3, <1>4, <1>5, <1>6, <1>7, <1>8

\* What is read of a connection, a loop or a backup has a type.
LEMMA ConnFields ==
  ASSUME NEW c \in ConnType
  PROVE  /\ c.link \in {"open", "leaked", "lost"}
         /\ c.handler \in {"hello", "open", "ended"}
         /\ c.inbox \in Seq(Message)
         /\ c.since \in 0..MaxEntries
BY DEF ConnType

LEMMA MessageKinds ==
  /\ \A m \in Message : m \in Entry \/ m = Ack \/ m = HB
  /\ Ack \notin Entry /\ HB \notin Entry /\ Ack # HB
  /\ \A m \in Message : m \in Raising => m \in Entry
  /\ Entry \subseteq Message /\ Ack \in Message /\ HB \in Message
  /\ \A e \in Entry : e \in Nat /\ 1 <= e /\ e <= MaxEntries
BY ReplicationAssumption DEF Message, Entry

-----------------------------------------------------------------------------
(* What can happen to a connection: one of the following, to one of them.  *)

\* c and d agree, the inbox aside.
SameButInbox(c, d) ==
  /\ d.link = c.link /\ d.handler = c.handler /\ d.since = c.since

OthersStay(n) ==
  /\ n \in DOMAIN conn /\ DOMAIN conn' = DOMAIN conn /\ Len(conn') = Len(conn)
  /\ \A m \in DOMAIN conn : m # n => conn'[m] = conn[m]

LEMMA ConnUpdate ==
  ASSUME conn \in Seq(ConnType), NEW n \in DOMAIN conn, NEW r \in ConnType,
         conn' = [conn EXCEPT ![n] = r]
  PROVE  conn' \in Seq(ConnType) /\ OthersStay(n) /\ conn'[n] = r
<1>1. n \in 1..Len(conn) /\ DOMAIN conn = 1..Len(conn)
  BY LenProperties
<1>2. /\ conn' \in Seq(ConnType) /\ Len(conn') = Len(conn)
      /\ \A j \in 1..Len(conn) : conn'[j] = IF j = n THEN r ELSE conn[j]
  BY <1>1, ExceptSeq
<1>3. DOMAIN conn' = 1..Len(conn')
  BY <1>2, LenProperties
<1>4. QED
  BY <1>1, <1>2, <1>3 DEF OthersStay

LEMMA ReceivedType ==
  ASSUME NEW c \in ConnType, NEW m \in Message
  PROVE  Received(c, m) \in Seq(Message)
<1>1. c.inbox \in Seq(Message)
  BY DEF ConnType
<1>2. Append(c.inbox, m) \in Seq(Message)
  BY <1>1, AppendProperties
<1>3. QED
  BY <1>1, <1>2 DEF Received

LEMMA SentMeaning ==
  ASSUME NEW c \in ConnType, NEW m \in Message
  PROVE  /\ Sent(c, m) \in ConnType
         /\ SameButInbox(c, Sent(c, m))
         /\ Sent(c, m).inbox = IF c.link = "open" THEN Received(c, m) ELSE c.inbox
<1> DEFINE q == Received(c, m)
<1>1. q \in Seq(Message)
  BY ReceivedType
<1>2. Sent(c, m) = IF c.link = "open" THEN [c EXCEPT !.inbox = q] ELSE c
  BY DEF Sent
<1> HIDE DEF q
<1>3. [c EXCEPT !.inbox = q] =
        [link |-> c.link, handler |-> c.handler, inbox |-> q, since |-> c.since]
  BY DEF ConnType
<1>4. QED
  BY <1>1, <1>2, <1>3 DEF ConnType, SameButInbox, q

\* A connection is a record of its four fields.
LEMMA ConnRecord ==
  ASSUME NEW c \in ConnType
  PROVE  c = [link |-> c.link, handler |-> c.handler, inbox |-> c.inbox,
              since |-> c.since]
BY DEF ConnType

LEMMA ConnExcept ==
  ASSUME NEW c \in ConnType, NEW link, NEW inbox
  PROVE  [c EXCEPT !.link = link, !.inbox = inbox, !.since = 0] =
              [link |-> link, handler |-> c.handler, inbox |-> inbox, since |-> 0]
<1> DEFINE r == [c EXCEPT !.link = link, !.inbox = inbox, !.since = 0]
<1>1. r \in [link : {link}, handler : {"hello", "open", "ended"},
             inbox : {inbox}, since : {0}]
  BY DEF ConnType
<1>2. r.handler = c.handler
  BY DEF ConnType
<1> HIDE DEF r
<1>3. r = [link |-> link, handler |-> c.handler, inbox |-> inbox, since |-> 0]
  BY <1>1, <1>2
<1>4. QED
  BY <1>3 DEF r

LEMMA ConnExceptInbox ==
  ASSUME NEW c \in ConnType, NEW inbox
  PROVE  [c EXCEPT !.inbox = inbox] =
              [link |-> c.link, handler |-> c.handler, inbox |-> inbox, since |-> c.since]
BY DEF ConnType

\* After the step connection n is as said, and the others are as they were.
Becomes(n, link, handler, inbox, since) ==
  /\ conn' \in Seq(ConnType) /\ OthersStay(n)
  /\ conn'[n].link = link /\ conn'[n].handler = handler
  /\ conn'[n].inbox = inbox /\ conn'[n].since = since

LEMMA RecordBecomes ==
  ASSUME conn \in Seq(ConnType), NEW n \in DOMAIN conn,
         NEW link \in {"open", "leaked", "lost"},
         NEW handler \in {"hello", "open", "ended"},
         NEW inbox \in Seq(Message), NEW since \in 0..MaxEntries,
         NEW r, r = [link |-> link, handler |-> handler, inbox |-> inbox,
                     since |-> since],
         conn' = [conn EXCEPT ![n] = r]
  PROVE  Becomes(n, link, handler, inbox, since)
<1>1. r \in ConnType /\ r.link = link /\ r.handler = handler
      /\ r.inbox = inbox /\ r.since = since
  BY DEF ConnType
<1>2. conn' \in Seq(ConnType) /\ OthersStay(n) /\ conn'[n] = r
  BY <1>1, ConnUpdate
<1>3. QED
  BY <1>1, <1>2 DEF Becomes

\* The inbox of n once m was written to it.
InboxAfter(n, m) ==
  IF conn[n].link = "open" THEN Received(conn[n], m) ELSE conn[n].inbox

LEMMA WriteBecomes ==
  ASSUME ReplicationTypeOK, NEW n \in DOMAIN conn, NEW m \in Message,
         conn' = [conn EXCEPT ![n] = Sent(@, m)]
  PROVE  Becomes(n, conn[n].link, conn[n].handler, InboxAfter(n, m), conn[n].since)
<1> DEFINE r == Sent(conn[n], m)
<1>1. conn \in Seq(ConnType) /\ conn[n] \in ConnType
  BY Types
<1>2. /\ r \in ConnType
      /\ SameButInbox(conn[n], r)
      /\ r.inbox = InboxAfter(n, m)
  BY <1>1, SentMeaning DEF InboxAfter
<1>3. conn' = [conn EXCEPT ![n] = r]
  OBVIOUS
<1> HIDE DEF r
<1>4. conn' \in Seq(ConnType) /\ OthersStay(n) /\ conn'[n] = r
  BY <1>1, <1>2, <1>3, ConnUpdate
<1>5. QED
  BY <1>2, <1>4 DEF Becomes, SameButInbox

LEMMA AcknowledgeBecomes ==
  ASSUME ReplicationTypeOK, NEW n \in DOMAIN conn, Acknowledge(n)
  PROVE  Becomes(n, conn[n].link, "open", InboxAfter(n, Ack), conn[n].since)
<1> DEFINE c == Sent(conn[n], Ack)
           r == [c EXCEPT !.handler = "open"]
<1>1. conn \in Seq(ConnType) /\ conn[n] \in ConnType
  BY Types
<1>2. /\ c \in ConnType
      /\ SameButInbox(conn[n], c)
      /\ c.inbox = InboxAfter(n, Ack)
  BY <1>1, SentMeaning, MessageKinds DEF InboxAfter
<1>3. conn' = [conn EXCEPT ![n] = r]
  BY DEF Acknowledge
<1> HIDE DEF c
<1>4. r = [link |-> c.link, handler |-> "open", inbox |-> c.inbox, since |-> c.since]
  BY <1>2 DEF ConnType
<1>5. /\ c.link \in {"open", "leaked", "lost"}
      /\ c.inbox \in Seq(Message) /\ c.since \in 0..MaxEntries
  BY <1>2, ConnFields
<1> HIDE DEF r
<1>6. Becomes(n, c.link, "open", c.inbox, c.since)
  BY <1>1, <1>3, <1>4, <1>5, RecordBecomes
<1>7. QED
  BY <1>2, <1>6 DEF SameButInbox

LEMMA HandlerFailsBecomes ==
  ASSUME ReplicationTypeOK, NEW n \in DOMAIN conn, HandlerFails(n)
  PROVE  Becomes(n, "lost", "ended", conn[n].inbox, conn[n].since)
<1> DEFINE c == conn[n]
           r == [c EXCEPT !.handler = "ended"]
<1>1. conn \in Seq(ConnType) /\ c \in ConnType
  BY Types
<1>2. conn' = [conn EXCEPT ![n] = r] /\ c.link = "lost"
  BY DEF HandlerFails, Lost
<1> HIDE DEF c
<1>3. r = [link |-> "lost", handler |-> "ended", inbox |-> c.inbox, since |-> c.since]
  <2>1. c = [link |-> c.link, handler |-> c.handler, inbox |-> c.inbox,
             since |-> c.since]
    BY <1>1, ConnRecord
  <2>2. c.link = "lost"
    BY <1>2
  <2>3. QED
    BY <2>1, <2>2
<1>4. c.inbox \in Seq(Message) /\ c.since \in 0..MaxEntries
  BY <1>1, ConnFields
<1> HIDE DEF r
<1>5. Becomes(n, "lost", "ended", c.inbox, c.since)
  BY <1>1, <1>2, <1>3, <1>4, RecordBecomes
<1>6. QED
  BY <1>5 DEF c

LEMMA PrefixOfInbox ==
  ASSUME NEW q \in Seq(Message), NEW k \in 0..Len(q)
  PROVE  /\ SubSeq(q, 1, k) \in Seq(Message)
         /\ Len(SubSeq(q, 1, k)) = k
         /\ \A i \in 1..k : SubSeq(q, 1, k)[i] = q[i]
<1>1. Len(q) \in Nat
  BY LenProperties
<1>2. \A i \in 1..k : q[i] \in Message
  BY <1>1, ElementOfSeq
<1>3. QED
  BY <1>1, <1>2, SubSeqProperties

LEMMA LoseBecomes ==
  ASSUME ReplicationTypeOK, NEW n \in DOMAIN conn, Lose(n)
  PROVE  \E k \in 0..Len(conn[n].inbox) :
           Becomes(n, "lost", conn[n].handler, SubSeq(conn[n].inbox, 1, k), 0)
<1> DEFINE c == conn[n]
<1>1. conn \in Seq(ConnType) /\ c \in ConnType
  BY Types
<1>2. PICK k \in 0..Len(c.inbox) :
        conn' = [conn EXCEPT ![n].link = "lost", ![n].inbox = SubSeq(@, 1, k),
                             ![n].since = 0]
  BY DEF Lose
<1> DEFINE q == SubSeq(c.inbox, 1, k)
           r == [c EXCEPT !.link = "lost", !.inbox = q, !.since = 0]
<1>3. conn' = [conn EXCEPT ![n] = r]
  BY <1>1, <1>2
<1>4. c.handler \in {"hello", "open", "ended"} /\ q \in Seq(Message)
  BY <1>1, ConnFields, PrefixOfInbox
<1> HIDE DEF c, q
<1>5. r = [link |-> "lost", handler |-> c.handler, inbox |-> q, since |-> 0]
  BY <1>1, ConnExcept, ConnExceptInbox
<1>6. 0 \in 0..MaxEntries
  BY ReplicationAssumption
<1> HIDE DEF r
<1>7. Becomes(n, "lost", c.handler, q, 0)
  BY <1>1, <1>3, <1>4, <1>5, <1>6, RecordBecomes
<1>8. QED
  BY <1>2, <1>7 DEF c, q

LEMMA TakeBecomes ==
  ASSUME ReplicationTypeOK, NEW b, NEW n \in DOMAIN conn, n = backup[b].conn,
         Inbox(b) # <<>>, Take(b)
  PROVE  Becomes(n, conn[n].link, conn[n].handler, Tail(conn[n].inbox),
                 conn[n].since)
<1> DEFINE c == conn[n]
           r == [c EXCEPT !.inbox = Tail(c.inbox)]
<1>1. conn \in Seq(ConnType) /\ c \in ConnType /\ c.inbox # <<>>
  BY Types DEF Inbox
<1>2. conn' = [conn EXCEPT ![n] = r]
  BY <1>1 DEF Take
<1>3. /\ c.link \in {"open", "leaked", "lost"}
      /\ c.handler \in {"hello", "open", "ended"}
      /\ c.inbox \in Seq(Message) /\ c.since \in 0..MaxEntries
  BY <1>1, ConnFields
<1>4. Tail(c.inbox) \in Seq(Message)
  BY <1>1, <1>3, HeadTailProperties
<1> HIDE DEF c
<1>5. r = [link |-> c.link, handler |-> c.handler, inbox |-> Tail(c.inbox),
           since |-> c.since]
  BY <1>1, ConnExcept, ConnExceptInbox
<1> HIDE DEF r
<1>6. Becomes(n, c.link, c.handler, Tail(c.inbox), c.since)
  BY <1>1, <1>2, <1>3, <1>4, <1>5, RecordBecomes
<1>7. QED
  BY <1>6 DEF c

LEMMA LeftBecomes ==
  ASSUME ReplicationTypeOK, NEW b, NEW n \in DOMAIN conn, n = backup[b].conn,
         NEW link \in {"leaked", "lost"}, Left(b, link)
  PROVE  Becomes(n, link, conn[n].handler, <<>>, 0)
<1> DEFINE c == conn[n]
           r == [c EXCEPT !.link = link, !.inbox = <<>>, !.since = 0]
<1>1. conn \in Seq(ConnType) /\ c \in ConnType
  BY Types
<1>2. conn' = [conn EXCEPT ![n] = r]
  BY DEF Left
<1>3. c.handler \in {"hello", "open", "ended"}
  BY <1>1, ConnFields
<1> HIDE DEF c
<1>4. r = [link |-> link, handler |-> c.handler, inbox |-> <<>>, since |-> 0]
  BY <1>1, ConnExcept, ConnExceptInbox
<1>5. 0 \in 0..MaxEntries /\ <<>> \in Seq(Message)
  BY ReplicationAssumption, EmptySeq
<1> HIDE DEF r
<1>6. Becomes(n, link, c.handler, <<>>, 0)
  BY <1>1, <1>2, <1>3, <1>4, <1>5, RecordBecomes
<1>7. QED
  BY <1>6 DEF c

\* A new connection goes behind the others.
LEMMA ConnectMeaning ==
  ASSUME ReplicationTypeOK, Taken \in Nat, NEW b \in Backup, Connect(b)
  PROVE  LET n == Len(conn) + 1 IN
         /\ conn' \in Seq(ConnType)
         /\ n \in Conn /\ n \notin DOMAIN conn
         /\ DOMAIN conn' = DOMAIN conn \cup {n} /\ Len(conn') <= MaxConns
         /\ \A m \in DOMAIN conn : conn'[m] = conn[m]
         /\ conn'[n].link = "open" /\ conn'[n].handler = "hello"
         /\ conn'[n].inbox = <<>> /\ conn'[n].since = Taken
<1> DEFINE n == Len(conn) + 1
           r == [link |-> "open", handler |-> "hello", inbox |-> <<>>,
                 since |-> Taken]
<1>1. /\ conn \in Seq(ConnType) /\ DOMAIN conn = 1..Len(conn)
      /\ Len(conn) \in Nat /\ Len(conn) < MaxConns
      /\ conn' = Append(conn, r)
  BY Types DEF Connect, Taken
<1>2. Taken \in 0..MaxEntries
  BY Types, ReplicationAssumption DEF Taken
<1>3. r \in ConnType /\ r.link = "open" /\ r.handler = "hello"
      /\ r.inbox = <<>> /\ r.since = Taken
  BY <1>2, EmptySeq DEF ConnType
<1> HIDE DEF r
<1>4. /\ conn' \in Seq(ConnType) /\ Len(conn') = Len(conn) + 1
      /\ \A m \in 1..Len(conn) : conn'[m] = conn[m]
      /\ conn'[Len(conn) + 1] = r
  BY <1>1, <1>3, AppendProperties
<1>5. DOMAIN conn' = 1..Len(conn')
  BY <1>4, LenProperties
<1>6. MaxConns \in Nat
  BY ReplicationAssumption
<1>7. /\ n \in Conn /\ n \notin DOMAIN conn /\ Len(conn') <= MaxConns
      /\ DOMAIN conn' = DOMAIN conn \cup {n}
  BY <1>1, <1>4, <1>5, <1>6 DEF Conn
<1>8. QED
  BY <1>1, <1>3, <1>4, <1>7

-----------------------------------------------------------------------------
(* What can happen to a loop. *)

\* After the step loop l is as said, and the other one as it was.
LoopBecomes(l, pc, msg, members, todo, at, dead) ==
  /\ loop' \in [Loop -> LoopType]
  /\ \A k \in Loop : k # l => loop'[k] = loop[k]
  /\ loop'[l].pc = pc /\ loop'[l].msg = msg /\ loop'[l].members = members
  /\ loop'[l].todo = todo /\ loop'[l].at = at /\ loop'[l].dead = dead

LEMMA LoopFields ==
  ASSUME NEW r \in LoopType
  PROVE  /\ r.pc \in {"waiting", "running", "suspended", "dead"}
         /\ r.msg \in Entry \cup {HB} /\ r.members \in SUBSET Conn
         /\ r.todo \in SUBSET Conn /\ r.at \in SUBSET Conn
         /\ r.dead \in SUBSET Conn
BY DEF LoopType

LEMMA LoopUpdate ==
  ASSUME loop \in [Loop -> LoopType], NEW l \in Loop, NEW r \in LoopType,
         loop' = [loop EXCEPT ![l] = r]
  PROVE  LoopBecomes(l, r.pc, r.msg, r.members, r.todo, r.at, r.dead)
BY DEF LoopBecomes

LEMMA WaitingType ==
  /\ Waiting \in LoopType
  /\ Waiting.pc = "waiting" /\ Waiting.msg = HB /\ Waiting.members = {}
  /\ Waiting.todo = {} /\ Waiting.at = {} /\ Waiting.dead = {}
BY DEF Waiting, LoopType

LEMMA RoundBecomes ==
  ASSUME loop \in [Loop -> LoopType], NEW l \in Loop,
         NEW m \in Entry \cup {HB}, writers \in SUBSET Conn, Round(l, m)
  PROVE  LoopBecomes(l, "running", m, writers, writers, {}, {})
<1> DEFINE r == [Waiting EXCEPT !.pc = "running", !.msg = m,
                                !.members = writers, !.todo = writers]
<1>1. loop' = [loop EXCEPT ![l] = r]
  BY DEF Round
<1>2. r \in [pc : {"running"}, msg : {m}, members : {writers}, todo : {writers},
             at : {{}}, dead : {{}}]
  BY DEF Waiting
<1> HIDE DEF r
<1>3. r \in LoopType
  BY <1>2 DEF LoopType
<1>4. LoopBecomes(l, r.pc, r.msg, r.members, r.todo, r.at, r.dead)
  BY <1>1, <1>3, LoopUpdate
<1>5. /\ r.pc = "running" /\ r.msg = m /\ r.members = writers
      /\ r.todo = writers /\ r.at = {} /\ r.dead = {}
  BY <1>2
<1>6. QED
  BY <1>4, <1>5

LEMMA WaitsAgain ==
  ASSUME loop \in [Loop -> LoopType], NEW l \in Loop,
         loop' = [loop EXCEPT ![l] = Waiting]
  PROVE  LoopBecomes(l, "waiting", HB, {}, {}, {}, {})
BY WaitingType, LoopUpdate

LEMMA DieBecomes ==
  ASSUME loop \in [Loop -> LoopType], NEW l \in Loop, Die(l)
  PROVE  LoopBecomes(l, "dead", HB, {}, {}, {}, {})
<1> DEFINE r == [Waiting EXCEPT !.pc = "dead"]
<1>1. loop' = [loop EXCEPT ![l] = r]
  BY DEF Die
<1>2. r = [pc |-> "dead", msg |-> HB, members |-> {}, todo |-> {},
           at |-> {}, dead |-> {}]
  BY DEF Waiting
<1> HIDE DEF r
<1>3. r \in LoopType
  BY <1>2 DEF LoopType
<1>4. QED
  BY <1>1, <1>2, <1>3, LoopUpdate

\* The writer that is done with, and whether it failed.
LEMMA PassesBecomes ==
  ASSUME loop \in [Loop -> LoopType], NEW l \in Loop, NEW n,
         loop' = [loop EXCEPT ![l].todo = @ \ {n}]
  PROVE  LoopBecomes(l, loop[l].pc, loop[l].msg, loop[l].members,
                     loop[l].todo \ {n}, loop[l].at, loop[l].dead)
<1> DEFINE c == loop[l]
           r == [c EXCEPT !.todo = c.todo \ {n}]
<1>1. c \in LoopType /\ loop' = [loop EXCEPT ![l] = r]
  OBVIOUS
<1> HIDE DEF c
<1>2. /\ r \in LoopType
      /\ r.pc = c.pc /\ r.msg = c.msg /\ r.members = c.members
      /\ r.todo = c.todo \ {n} /\ r.at = c.at /\ r.dead = c.dead
  BY <1>1 DEF LoopType
<1> HIDE DEF r
<1>3. QED
  BY <1>1, <1>2, LoopUpdate DEF c

LEMMA FailsBecomes ==
  ASSUME loop \in [Loop -> LoopType], NEW l \in Loop, NEW n \in Conn,
         loop' = [loop EXCEPT ![l].todo = @ \ {n}, ![l].dead = @ \cup {n}]
  PROVE  LoopBecomes(l, loop[l].pc, loop[l].msg, loop[l].members,
                     loop[l].todo \ {n}, loop[l].at, loop[l].dead \cup {n})
<1> DEFINE c == loop[l]
           r == [c EXCEPT !.todo = c.todo \ {n}, !.dead = c.dead \cup {n}]
<1>1. c \in LoopType /\ loop' = [loop EXCEPT ![l] = r]
  OBVIOUS
<1> HIDE DEF c
<1>2. /\ r \in LoopType
      /\ r.pc = c.pc /\ r.msg = c.msg /\ r.members = c.members
      /\ r.todo = c.todo \ {n} /\ r.at = c.at /\ r.dead = c.dead \cup {n}
  BY <1>1 DEF LoopType
<1> HIDE DEF r
<1>3. LoopBecomes(l, c.pc, c.msg, c.members, c.todo \ {n}, c.at, c.dead \cup {n})
  <2>1. LoopBecomes(l, r.pc, r.msg, r.members, r.todo, r.at, r.dead)
    BY <1>1, <1>2, LoopUpdate
  <2>2. QED
    BY <1>2, <2>1 DEF LoopBecomes
<1>4. QED
  BY <1>3 DEF c

LEMMA WaitsBecomes ==
  ASSUME loop \in [Loop -> LoopType], NEW l \in Loop, NEW n \in Conn,
         loop' = [loop EXCEPT ![l].pc = "suspended", ![l].at = {n},
                              ![l].todo = @ \ {n}]
  PROVE  LoopBecomes(l, "suspended", loop[l].msg, loop[l].members,
                     loop[l].todo \ {n}, {n}, loop[l].dead)
<1> DEFINE c == loop[l]
           r == [c EXCEPT !.pc = "suspended", !.at = {n}, !.todo = c.todo \ {n}]
<1>1. c \in LoopType /\ loop' = [loop EXCEPT ![l] = r]
  OBVIOUS
<1> HIDE DEF c
<1>2. /\ r \in LoopType
      /\ r.pc = "suspended" /\ r.msg = c.msg /\ r.members = c.members
      /\ r.todo = c.todo \ {n} /\ r.at = {n} /\ r.dead = c.dead
  BY <1>1 DEF LoopType
<1> HIDE DEF r
<1>3. LoopBecomes(l, "suspended", c.msg, c.members, c.todo \ {n}, {n}, c.dead)
  <2>1. LoopBecomes(l, r.pc, r.msg, r.members, r.todo, r.at, r.dead)
    BY <1>1, <1>2, LoopUpdate
  <2>2. QED
    BY <1>2, <2>1 DEF LoopBecomes
<1>4. QED
  BY <1>3 DEF c

LEMMA ResumeBecomes ==
  ASSUME loop \in [Loop -> LoopType], writers \in SUBSET Conn,
         NEW l \in Loop, Resume(l)
  PROVE  \E new \in SUBSET (writers \ loop[l].members),
            failed \in SUBSET {n \in loop[l].at : Lost(n)} :
           LoopBecomes(l, "running", loop[l].msg, writers,
                       (loop[l].todo \cap writers) \cup new, {},
                       loop[l].dead \cup failed)
<1> DEFINE c == loop[l]
<1>1. PICK new \in SUBSET (writers \ c.members),
           failed \in SUBSET {n \in c.at : Lost(n)} :
        loop' = [loop EXCEPT ![l].pc = "running", ![l].at = {},
                             ![l].members = writers,
                             ![l].todo = (@ \cap writers) \cup new,
                             ![l].dead = @ \cup failed]
  BY DEF Resume
<1> DEFINE todo == (c.todo \cap writers) \cup new
           dead == c.dead \cup failed
           r == [c EXCEPT !.pc = "running", !.at = {}, !.members = writers,
                          !.todo = todo, !.dead = dead]
<1>2. c \in LoopType /\ loop' = [loop EXCEPT ![l] = r]
  BY <1>1
<1>3. todo \in SUBSET Conn /\ dead \in SUBSET Conn
  BY <1>2, LoopFields
<1> HIDE DEF c, todo, dead
<1>4. /\ r \in LoopType
      /\ r.pc = "running" /\ r.msg = c.msg /\ r.members = writers
      /\ r.todo = todo /\ r.at = {} /\ r.dead = dead
  BY <1>2, <1>3 DEF LoopType
<1> HIDE DEF r
<1>5. LoopBecomes(l, "running", c.msg, writers, todo, {}, dead)
  BY <1>2, <1>4, LoopUpdate
<1>6. QED
  BY <1>1, <1>5 DEF c, todo, dead

-----------------------------------------------------------------------------
(* What can happen to a backup. *)

\* After the step backup b is as said, and the others are as they were.
BackupBecomes(b, pc, n, from, log) ==
  /\ backup' \in [Backup -> BackupType]
  /\ \A a \in Backup : a # b => backup'[a] = backup[a]
  /\ backup'[b].pc = pc /\ backup'[b].conn = n
  /\ backup'[b].from = from /\ backup'[b].log = log

LEMMA BackupFields ==
  ASSUME NEW r \in BackupType
  PROVE  /\ r.pc \in {"connecting", "handshake", "streaming"}
         /\ r.conn \in 0..MaxConns /\ r.from \in Nat
         /\ r.log \in Seq(Entry) /\ Len(r.log) \in Nat
<1>1. r.log \in Seq(Entry)
  BY DEF BackupType
<1>2. Len(r.log) \in Nat
  BY <1>1, LenProperties
<1>3. QED
  BY <1>1, <1>2 DEF BackupType

LEMMA BackupUpdate ==
  ASSUME backup \in [Backup -> BackupType], NEW b \in Backup,
         NEW r \in BackupType, backup' = [backup EXCEPT ![b] = r]
  PROVE  BackupBecomes(b, r.pc, r.conn, r.from, r.log)
BY DEF BackupBecomes

LEMMA ConnectsBecomes ==
  ASSUME backup \in [Backup -> BackupType], NEW b \in Backup, NEW n \in Conn,
         backup' = [backup EXCEPT ![b].pc = "handshake", ![b].conn = n]
  PROVE  BackupBecomes(b, "handshake", n, backup[b].from, backup[b].log)
<1> DEFINE c == backup[b]
           r == [c EXCEPT !.pc = "handshake", !.conn = n]
<1>1. c \in BackupType /\ backup' = [backup EXCEPT ![b] = r]
  OBVIOUS
<1>2. n \in 0..MaxConns
  BY ReplicationAssumption DEF Conn
<1> HIDE DEF c
<1>3. /\ r \in BackupType
      /\ r.pc = "handshake" /\ r.conn = n /\ r.from = c.from /\ r.log = c.log
  BY <1>1, <1>2 DEF BackupType
<1> HIDE DEF r
<1>4. BackupBecomes(b, r.pc, r.conn, r.from, r.log)
  BY <1>1, <1>3, BackupUpdate
<1>5. BackupBecomes(b, "handshake", n, c.from, c.log)
  BY <1>3, <1>4 DEF BackupBecomes
<1>6. QED
  BY <1>5 DEF c

LEMMA ReadAckBecomes ==
  ASSUME backup \in [Backup -> BackupType], NEW b \in Backup, ReadAck(b)
  PROVE  BackupBecomes(b, "streaming", backup[b].conn, Len(backup[b].log),
                       backup[b].log)
<1> DEFINE c == backup[b]
           from == Len(c.log)
           r == [c EXCEPT !.pc = "streaming", !.from = from]
<1>1. c \in BackupType /\ backup' = [backup EXCEPT ![b] = r]
  BY DEF ReadAck
<1>2. from \in Nat
  BY <1>1, BackupFields
<1> HIDE DEF c, from
<1>3. /\ r \in BackupType
      /\ r.pc = "streaming" /\ r.conn = c.conn /\ r.from = from /\ r.log = c.log
  BY <1>1, <1>2 DEF BackupType
<1> HIDE DEF r
<1>4. BackupBecomes(b, "streaming", c.conn, from, c.log)
  BY <1>1, <1>3, BackupUpdate
<1>5. QED
  BY <1>4 DEF c, from

LEMMA AloneMeaning ==
  ASSUME NEW c \in BackupType
  PROVE  /\ Alone(c) \in BackupType
         /\ Alone(c).pc = "connecting" /\ Alone(c).conn = 0
         /\ Alone(c).from = 0 /\ Alone(c).log = c.log
<1> DEFINE r == Alone(c)
<1>1. r \in [pc : {"connecting"}, conn : {0}, from : {0}, log : Seq(Entry)]
  BY DEF BackupType, Alone
<1>2. r.log = c.log
  BY DEF BackupType, Alone
<1>3. 0 \in 0..MaxConns
  BY ReplicationAssumption
<1> HIDE DEF r
<1>4. r \in BackupType
  BY <1>1, <1>3 DEF BackupType
<1>5. QED
  BY <1>1, <1>2, <1>4 DEF r

LEMMA GivesUpBecomes ==
  ASSUME backup \in [Backup -> BackupType], NEW b \in Backup,
         backup' = [backup EXCEPT ![b] = Alone(@)]
  PROVE  BackupBecomes(b, "connecting", 0, 0, backup[b].log)
<1> DEFINE c == backup[b]
           r == Alone(c)
<1>1. c \in BackupType /\ backup' = [backup EXCEPT ![b] = r]
  OBVIOUS
<1>2. /\ r \in BackupType
      /\ r.pc = "connecting" /\ r.conn = 0 /\ r.from = 0 /\ r.log = c.log
  BY <1>1, AloneMeaning
<1> HIDE DEF c, r
<1>3. BackupBecomes(b, "connecting", 0, 0, c.log)
  BY <1>1, <1>2, BackupUpdate
<1>4. QED
  BY <1>3 DEF c

LEMMA AppendsBecomes ==
  ASSUME backup \in [Backup -> BackupType], NEW b \in Backup, NEW e \in Entry,
         backup' = [backup EXCEPT ![b].log = Append(@, e)]
  PROVE  BackupBecomes(b, backup[b].pc, backup[b].conn, backup[b].from,
                       Append(backup[b].log, e))
<1> DEFINE c == backup[b]
           log == Append(c.log, e)
           r == [c EXCEPT !.log = log]
<1>1. c \in BackupType /\ backup' = [backup EXCEPT ![b] = r]
  OBVIOUS
<1>2. log \in Seq(Entry)
  BY <1>1, BackupFields, AppendProperties
<1> HIDE DEF c, log
<1>3. /\ r \in BackupType
      /\ r.pc = c.pc /\ r.conn = c.conn /\ r.from = c.from /\ r.log = log
  BY <1>1, <1>2 DEF BackupType
<1> HIDE DEF r
<1>4. BackupBecomes(b, c.pc, c.conn, c.from, log)
  BY <1>1, <1>3, BackupUpdate
<1>5. QED
  BY <1>4 DEF c, log

LEMMA RaisesBecomes ==
  ASSUME backup \in [Backup -> BackupType], NEW b \in Backup, NEW e \in Entry,
         backup' = [backup EXCEPT ![b] = [Alone(backup[b]) EXCEPT
                                            !.log = Append(@, e)]]
  PROVE  BackupBecomes(b, "connecting", 0, 0, Append(backup[b].log, e))
<1> DEFINE c == backup[b]
           a == Alone(c)
           log == Append(c.log, e)
           r == [a EXCEPT !.log = Append(@, e)]
<1>1. c \in BackupType
  OBVIOUS
<1>2. /\ a \in BackupType
      /\ a.pc = "connecting" /\ a.conn = 0 /\ a.from = 0 /\ a.log = c.log
  BY <1>1, AloneMeaning
<1>3. log \in Seq(Entry)
  BY <1>1, BackupFields, AppendProperties
<1>4. backup' = [backup EXCEPT ![b] = r]
  OBVIOUS
<1> HIDE DEF c, a
<1>5. /\ r \in BackupType
      /\ r.pc = "connecting" /\ r.conn = 0 /\ r.from = 0 /\ r.log = log
  BY <1>2, <1>3 DEF BackupType
<1> HIDE DEF r
<1>6. BackupBecomes(b, "connecting", 0, 0, log)
  BY <1>4, <1>5, BackupUpdate
<1>7. QED
  BY <1>6 DEF c, log

-----------------------------------------------------------------------------
(* A backup whose connection stands is served. *)

\* The types of the variables, put together.
LEMMA TypesTogether ==
  ReplicationTypeOK <=>
    /\ logged \in 0..MaxEntries
    /\ queue \in Seq(Entry)
    /\ writers \subseteq DOMAIN conn
    /\ loop \in [Loop -> LoopType]
    /\ conn \in Seq(ConnType) /\ Len(conn) <= MaxConns
    /\ backup \in [Backup -> BackupType]
BY DEF ReplicationTypeOK, LoopType, ConnType, BackupType, Message

\* ... after a step.
LEMMA TypesAfter ==
  ASSUME (logged \in 0..MaxEntries)', (queue \in Seq(Entry))',
         (writers \subseteq DOMAIN conn)',
         (loop \in [Loop -> LoopType])',
         (conn \in Seq(ConnType))', (Len(conn) <= MaxConns)',
         (backup \in [Backup -> BackupType])'
  PROVE  ReplicationTypeOK'
BY DEF ReplicationTypeOK, LoopType, ConnType, BackupType, Message

\* No connection goes, and a link at most breaks.
LinksHold ==
  /\ DOMAIN conn' = DOMAIN conn
  /\ \A n \in DOMAIN conn :
       conn'[n].link = conn[n].link \/ conn'[n].link = "lost"

\* No connection goes, and what is lost stays lost.
LostStays ==
  /\ DOMAIN conn \subseteq DOMAIN conn'
  /\ \A n \in DOMAIN conn : Lost(n) => conn'[n].link = "lost"

LEMMA LinksHoldLost == LinksHold => LostStays
BY DEF LinksHold, LostStays, Lost

LEMMA BecomesLinksHold ==
  ASSUME NEW n \in DOMAIN conn, NEW link, NEW handler, NEW inbox, NEW since,
         Becomes(n, link, handler, inbox, since),
         link = conn[n].link \/ link = "lost"
  PROVE  LinksHold
BY DEF Becomes, OthersStay, LinksHold

LEMMA ReadersKept ==
  ASSUME ReadersFit, LinksHold, backup' = backup
  PROVE  ReadersFit'
BY DEF ReadersFit, LinksHold, Reading

LEMMA ServedKept ==
  ASSUME ReadersFit, LiveBackupIsServed, LinksHold, backup' = backup,
         \A n \in writers \ writers' : conn'[n].link = "lost"
  PROVE  LiveBackupIsServed'
<1> SUFFICES ASSUME NEW b \in Backup, Live(b)'
             PROVE  (backup[b].conn \in writers)'
  BY DEF LiveBackupIsServed
<1>1. Reading(b) /\ backup[b].conn \in DOMAIN conn
  BY DEF Live, ReadersFit, Reading
<1>2. conn'[backup[b].conn].link # "lost"
  BY DEF Live, Lost
<1>3. Live(b)
  BY <1>1, <1>2 DEF Live, Reading, LinksHold, Lost
<1>4. QED
  BY <1>2, <1>3 DEF LiveBackupIsServed

LEMMA LoopsKept ==
  ASSUME LoopsFit, LostStays, loop' = loop
  PROVE  LoopsFit'
BY DEF LoopsFit, LostStays, Lost

LEMMA QueueKept ==
  ASSUME QueueFits, UNCHANGED <<logged, queue, loop>>
  PROVE  QueueFits'
BY DEF QueueFits, Taken, Broadcasting

\* Steps that change one connection and leave loops and backups alone.
LEMMA ConnStepKeepsPlaces ==
  ASSUME PlacesFit, NEW n \in DOMAIN conn,
         NEW link, NEW handler, NEW inbox, NEW since,
         Becomes(n, link, handler, inbox, since),
         link = conn[n].link \/ link = "lost",
         writers' = writers \/ (writers' = writers \ {n} /\ link = "lost"),
         UNCHANGED <<logged, queue, loop, backup>>
  PROVE  PlacesFit'
<1>1. ReplicationTypeOK /\ ReadersFit /\ LoopsFit /\ QueueFits /\ LiveBackupIsServed
  BY DEF PlacesFit
<1>2. LinksHold /\ LostStays
  BY BecomesLinksHold, LinksHoldLost
<1>3. ReplicationTypeOK'
  <2>1. conn' \in Seq(ConnType) /\ Len(conn') = Len(conn) /\ DOMAIN conn' = DOMAIN conn
    BY DEF Becomes, OthersStay
  <2>2. writers' \subseteq DOMAIN conn'
    BY <1>1, <2>1, TypesTogether
  <2>3. /\ logged \in 0..MaxEntries /\ queue \in Seq(Entry) /\ Len(conn) <= MaxConns
        /\ loop \in [Loop -> LoopType] /\ backup \in [Backup -> BackupType]
    BY <1>1, TypesTogether
  <2>4. QED
    BY <2>1, <2>2, <2>3, TypesAfter
<1>4. ReadersFit' /\ LoopsFit' /\ QueueFits'
  BY <1>1, <1>2, ReadersKept, LoopsKept, QueueKept
<1>5. \A m \in writers \ writers' : conn'[m].link = "lost"
  BY DEF Becomes
<1>6. LiveBackupIsServed'
  BY <1>1, <1>2, <1>5, ServedKept
<1>7. QED
  BY <1>3, <1>4, <1>6 DEF PlacesFit

LEMMA AcknowledgeKeepsPlaces ==
  ASSUME PlacesFit, NEW n \in DOMAIN conn, Acknowledge(n)
  PROVE  PlacesFit'
<1> DEFINE link == conn[n].link
           inbox == InboxAfter(n, Ack)
           since == conn[n].since
<1>1. Becomes(n, link, "open", inbox, since) /\ link = conn[n].link
  BY AcknowledgeBecomes DEF PlacesFit
<1>2. UNCHANGED <<logged, queue, writers, loop, backup>>
  BY DEF Acknowledge
<1> HIDE DEF link, inbox, since
<1>3. link = conn[n].link \/ link = "lost"
  BY <1>1
<1>4. writers' = writers \/ (writers' = writers \ {n} /\ link = "lost")
  BY <1>2
<1>5. Becomes(n, link, "open", inbox, since)
  BY <1>1
<1>6. QED
  BY <1>2, <1>3, <1>4, <1>5, ConnStepKeepsPlaces

LEMMA HandlerFailsKeepsPlaces ==
  ASSUME PlacesFit, NEW n \in DOMAIN conn, HandlerFails(n)
  PROVE  PlacesFit'
<1>1. Becomes(n, "lost", "ended", conn[n].inbox, conn[n].since)
  BY HandlerFailsBecomes DEF PlacesFit
<1>2. writers' = writers \ {n} /\ UNCHANGED <<logged, queue, loop, backup>>
  BY DEF HandlerFails
<1>3. QED
  BY <1>1, <1>2, ConnStepKeepsPlaces

LEMMA LoseKeepsPlaces ==
  ASSUME PlacesFit, NEW n \in DOMAIN conn, Lose(n)
  PROVE  PlacesFit'
<1>1. PICK k \in 0..Len(conn[n].inbox) :
        Becomes(n, "lost", conn[n].handler, SubSeq(conn[n].inbox, 1, k), 0)
  BY LoseBecomes DEF PlacesFit
<1>2. UNCHANGED <<logged, queue, writers, loop, backup>>
  BY DEF Lose
<1>3. QED
  BY <1>1, <1>2, ConnStepKeepsPlaces

\* What a backup does to its connection: it reads on, or leaves it.
LEMMA BackupStepKeepsPlaces ==
  ASSUME PlacesFit, NEW b \in Backup, NEW n \in DOMAIN conn,
         Reading(b), n = backup[b].conn,
         NEW link, NEW handler, NEW inbox, NEW since,
         Becomes(n, link, handler, inbox, since),
         NEW pc, NEW m, NEW from, NEW log,
         BackupBecomes(b, pc, m, from, log),
         \/ pc = "connecting" /\ (Lost(n) => link = "lost")
         \/ pc # "connecting" /\ m = n /\ link = conn[n].link,
         from <= Len(log),
         UNCHANGED <<logged, queue, writers, loop>>
  PROVE  PlacesFit'
<1>1. ReplicationTypeOK /\ ReadersFit /\ LoopsFit /\ QueueFits /\ LiveBackupIsServed
  BY DEF PlacesFit
<1>2. /\ conn' \in Seq(ConnType) /\ Len(conn') = Len(conn)
      /\ DOMAIN conn' = DOMAIN conn /\ conn'[n].link = link
      /\ \A k \in DOMAIN conn : k # n => conn'[k] = conn[k]
  BY DEF Becomes, OthersStay
<1>3. /\ backup' \in [Backup -> BackupType]
      /\ \A a \in Backup : a # b => backup'[a] = backup[a]
      /\ backup'[b].pc = pc /\ backup'[b].conn = m
      /\ backup'[b].from = from /\ backup'[b].log = log
  BY DEF BackupBecomes
<1>4. LostStays
  BY <1>2 DEF LostStays, Lost
<1>5. ReplicationTypeOK'
  <2>1. /\ logged \in 0..MaxEntries /\ queue \in Seq(Entry) /\ Len(conn) <= MaxConns
        /\ loop \in [Loop -> LoopType] /\ writers \subseteq DOMAIN conn
    BY <1>1, TypesTogether
  <2>2. QED
    BY <2>1, <1>2, <1>3, TypesAfter
<1>6. \A a \in Backup : a # b /\ Reading(a) => backup[a].conn # n
  BY <1>1 DEF ReadersFit
<1>7. ReadersFit'
  <2>1. ASSUME NEW a \in Backup, Reading(a)'
        PROVE  /\ Reading(a) /\ backup'[a].conn = backup[a].conn
               /\ backup'[a].conn \in DOMAIN conn'
               /\ conn'[backup'[a].conn].link # "leaked"
    <3>1. CASE a = b
      BY <3>1, <2>1, <1>1, <1>2, <1>3 DEF Reading, ReadersFit
    <3>2. CASE a # b
      BY <3>2, <2>1, <1>1, <1>2, <1>3, <1>6 DEF Reading, ReadersFit
    <3>3. QED
      BY <3>1, <3>2
  <2>2. \A a \in Backup : backup'[a].from <= Len(backup'[a].log)
    BY <1>1, <1>3 DEF ReadersFit
  <2>3. QED
    BY <2>1, <2>2, <1>1 DEF ReadersFit
<1>8. LoopsFit' /\ QueueFits'
  BY <1>1, <1>4, LoopsKept, QueueKept
<1>9. LiveBackupIsServed'
  <2> SUFFICES ASSUME NEW a \in Backup, Live(a)'
               PROVE  backup'[a].conn \in writers
    BY DEF LiveBackupIsServed
  <2>1. backup'[a].pc # "connecting" /\ conn'[backup'[a].conn].link # "lost"
    BY DEF Live, Lost
  <2>2. CASE a = b
    BY <2>1, <2>2, <1>1, <1>2, <1>3 DEF Live, Lost, LiveBackupIsServed, Reading
  <2>3. CASE a # b
    <3>1. Reading(a) /\ backup[a].conn \in DOMAIN conn /\ backup[a].conn # n
      BY <2>1, <2>3, <1>1, <1>3, <1>6 DEF Reading, ReadersFit
    <3>2. Live(a)
      BY <2>1, <2>3, <3>1, <1>2, <1>3 DEF Live, Lost, Reading
    <3>3. QED
      BY <3>2, <2>3, <1>1, <1>3 DEF LiveBackupIsServed
  <2>4. QED
    BY <2>2, <2>3
<1>10. QED
  BY <1>5, <1>7, <1>8, <1>9 DEF PlacesFit

\* A backup that reads: its connection, and what stands there.
LEMMA ReaderMeaning ==
  ASSUME PlacesFit, NEW b \in Backup, Reading(b)
  PROVE  /\ backup[b].conn \in DOMAIN conn
         /\ conn[backup[b].conn].link \in {"open", "lost"}
         /\ Inbox(b) = conn[backup[b].conn].inbox
         /\ Inbox(b) \in Seq(Message)
         /\ Inbox(b) # <<>> =>
              Head(Inbox(b)) \in Message /\ Tail(Inbox(b)) \in Seq(Message)
         /\ backup[b] \in BackupType
         /\ backup[b].from <= Len(backup[b].log)
<1> DEFINE n == backup[b].conn
<1>1. n \in DOMAIN conn /\ conn[n].link # "leaked" /\ conn[n] \in ConnType
      /\ backup[b] \in BackupType /\ backup[b].from <= Len(backup[b].log)
  BY Types DEF PlacesFit, ReadersFit
<1>2. Inbox(b) = conn[n].inbox
  BY DEF Inbox
<1>3. conn[n].link \in {"open", "lost"} /\ Inbox(b) \in Seq(Message)
  BY <1>1, <1>2, ConnFields
<1>4. Inbox(b) # <<>> =>
        Head(Inbox(b)) \in Message /\ Tail(Inbox(b)) \in Seq(Message)
  BY <1>3, HeadTailProperties
<1>5. QED
  BY <1>1, <1>2, <1>3, <1>4

LEMMA ReadAckKeepsPlaces ==
  ASSUME PlacesFit, NEW b \in Backup, ReadAck(b)
  PROVE  PlacesFit'
<1> DEFINE n == backup[b].conn
           link == conn[n].link
           handler == conn[n].handler
           inbox == Tail(conn[n].inbox)
           since == conn[n].since
           log == backup[b].log
           from == Len(log)
<1>1. Reading(b) /\ n \in DOMAIN conn /\ link = conn[n].link
      /\ link \in {"open", "lost"} /\ from <= Len(log)
  <2>1. Reading(b)
    BY DEF ReadAck, Reading
  <2>2. backup[b] \in BackupType /\ n \in DOMAIN conn /\ link \in {"open", "lost"}
    BY <2>1, ReaderMeaning
  <2>3. from \in Nat
    BY <2>2, BackupFields
  <2>4. QED
    BY <2>1, <2>2, <2>3
<1>2. Becomes(n, link, handler, inbox, since)
  BY <1>1, TakeBecomes DEF ReadAck, PlacesFit
<1>3. BackupBecomes(b, "streaming", n, from, log)
  BY TypesTogether, ReadAckBecomes DEF PlacesFit
<1>4. UNCHANGED <<logged, queue, writers, loop>> /\ n = backup[b].conn
  BY DEF ReadAck
<1> HIDE DEF n, link, handler, inbox, since, log, from
<1>5. QED
  BY <1>1, <1>2, <1>3, <1>4, BackupStepKeepsPlaces

LEMMA ReadEntryKeepsPlaces ==
  ASSUME PlacesFit, NEW b \in Backup, ReadEntry(b)
  PROVE  PlacesFit'
<1> DEFINE n == backup[b].conn
           link == conn[n].link
           handler == conn[n].handler
           inbox == Tail(conn[n].inbox)
           since == conn[n].since
           e == Head(Inbox(b))
           log == Append(backup[b].log, e)
           from == backup[b].from
<1>1. Reading(b) /\ n \in DOMAIN conn /\ link \in {"open", "lost"} /\ e \in Entry
      /\ from <= Len(log)
  <2>1. Reading(b) /\ e \in Entry
    BY DEF ReadEntry, Reading
  <2>2. n \in DOMAIN conn /\ link \in {"open", "lost"} /\ backup[b] \in BackupType
        /\ from <= Len(backup[b].log)
    BY <2>1, ReaderMeaning
  <2>3. /\ backup[b].log \in Seq(Entry) /\ from \in Nat
        /\ Len(backup[b].log) \in Nat
    BY <2>2, BackupFields
  <2>4. Len(log) = Len(backup[b].log) + 1
    BY <2>1, <2>3, AppendProperties
  <2>5. QED
    BY <2>1, <2>2, <2>3, <2>4
<1>2. Becomes(n, link, handler, inbox, since)
  BY <1>1, TakeBecomes DEF ReadEntry, PlacesFit
<1>3. backup[b].pc = "streaming" /\ backup' = [backup EXCEPT ![b].log = Append(@, e)]
  BY DEF ReadEntry
<1>4. UNCHANGED <<logged, queue, writers, loop>> /\ n = backup[b].conn
      /\ link = conn[n].link
  BY DEF ReadEntry
<1>5. backup \in [Backup -> BackupType]
  BY TypesTogether DEF PlacesFit
<1> HIDE DEF e
<1>6. BackupBecomes(b, backup[b].pc, n, from, log)
  BY <1>1, <1>3, <1>5, AppendsBecomes
<1>7. BackupBecomes(b, "streaming", n, from, log)
  BY <1>3, <1>6
<1> HIDE DEF n, link, handler, inbox, since, log, from
<1>8. QED
  BY <1>1, <1>2, <1>4, <1>7, BackupStepKeepsPlaces

LEMMA LeavingKeepsPlaces ==
  ASSUME PlacesFit, NEW b \in Backup, Reading(b),
         NEW link \in {"leaked", "lost"}, Left(b, link),
         Lost(backup[b].conn) => link = "lost",
         NEW log, BackupBecomes(b, "connecting", 0, 0, log),
         UNCHANGED <<logged, queue, writers, loop>>
  PROVE  PlacesFit'
<1> DEFINE n == backup[b].conn
           handler == conn[n].handler
<1>1. n \in DOMAIN conn
  BY ReaderMeaning
<1>2. Becomes(n, link, handler, <<>>, 0) /\ n = backup[b].conn
      /\ (Lost(n) => link = "lost")
  BY <1>1, LeftBecomes DEF PlacesFit
<1>3. 0 <= Len(log)
  <2>1. backup'[b] \in BackupType /\ backup'[b].log = log
    BY DEF BackupBecomes
  <2>2. QED
    BY <2>1, BackupFields
<1> HIDE DEF n, handler
<1>4. QED
  BY <1>1, <1>2, <1>3, BackupStepKeepsPlaces

LEMMA BadAckKeepsPlaces ==
  ASSUME PlacesFit, NEW b \in Backup, BadAck(b)
  PROVE  PlacesFit'
<1> DEFINE link == IF Lost(backup[b].conn) THEN "lost" ELSE "leaked"
           log == backup[b].log
<1>1. Reading(b) /\ Left(b, link) /\ (Lost(backup[b].conn) => link = "lost")
      /\ link \in {"leaked", "lost"}
  BY DEF BadAck, Reading
<1>2. backup' = [backup EXCEPT ![b] = Alone(@)]
      /\ UNCHANGED <<logged, queue, writers, loop>>
  BY DEF BadAck
<1>3. BackupBecomes(b, "connecting", 0, 0, log)
  BY <1>2, TypesTogether, GivesUpBecomes DEF PlacesFit
<1> HIDE DEF link, log
<1>4. QED
  BY <1>1, <1>2, <1>3, LeavingKeepsPlaces

LEMMA NoticeLossKeepsPlaces ==
  ASSUME PlacesFit, NEW b \in Backup, NoticeLoss(b)
  PROVE  PlacesFit'
<1> DEFINE log == backup[b].log
<1>1. Reading(b) /\ Left(b, "lost")
  BY DEF NoticeLoss, Reading
<1>2. backup' = [backup EXCEPT ![b] = Alone(@)]
      /\ UNCHANGED <<logged, queue, writers, loop>>
  BY DEF NoticeLoss
<1>3. BackupBecomes(b, "connecting", 0, 0, log)
  BY <1>2, TypesTogether, GivesUpBecomes DEF PlacesFit
<1> HIDE DEF log
<1>4. QED
  BY <1>1, <1>2, <1>3, LeavingKeepsPlaces

\* The entry that cannot be applied is in the log all the same.
LEMMA RaisingMeaning ==
  ASSUME PlacesFit, NEW b \in Backup, ReadRaisingEntry(b)
  PROVE  /\ Reading(b) /\ Left(b, "lost") /\ Inbox(b) # <<>>
         /\ Head(Inbox(b)) \in Entry
         /\ BackupBecomes(b, "connecting", 0, 0,
                          Append(backup[b].log, Head(Inbox(b))))
<1> DEFINE e == Head(Inbox(b))
<1>1. Reading(b) /\ Left(b, "lost") /\ Inbox(b) # <<>> /\ e \in Raising
  BY DEF ReadRaisingEntry, Reading
<1>2. e \in Entry
  BY <1>1, ReaderMeaning, MessageKinds
<1>3. backup' = [backup EXCEPT ![b] = [Alone(backup[b]) EXCEPT
                                          !.log = Append(@, e)]]
  BY DEF ReadRaisingEntry
<1>4. backup \in [Backup -> BackupType]
  BY TypesTogether DEF PlacesFit
<1> HIDE DEF e
<1>5. BackupBecomes(b, "connecting", 0, 0, Append(backup[b].log, e))
  BY <1>2, <1>3, <1>4, RaisesBecomes
<1>6. QED
  BY <1>1, <1>2, <1>5 DEF e

LEMMA ReadRaisingEntryKeepsPlaces ==
  ASSUME PlacesFit, NEW b \in Backup, ReadRaisingEntry(b)
  PROVE  PlacesFit'
<1> DEFINE log == Append(backup[b].log, Head(Inbox(b)))
<1>1. Reading(b) /\ Left(b, "lost") /\ BackupBecomes(b, "connecting", 0, 0, log)
  BY RaisingMeaning
<1>2. UNCHANGED <<logged, queue, writers, loop>>
  BY DEF ReadRaisingEntry
<1> HIDE DEF log
<1>3. QED
  BY <1>1, <1>2, LeavingKeepsPlaces

LEMMA ConnectKeepsPlaces ==
  ASSUME PlacesFit, NEW b \in Backup, Connect(b)
  PROVE  PlacesFit'
<1> DEFINE n == Len(conn) + 1
<1>1. ReplicationTypeOK /\ ReadersFit /\ LoopsFit /\ QueueFits /\ LiveBackupIsServed
  BY DEF PlacesFit
<1>2. Taken \in Nat
  BY <1>1, Types DEF QueueFits, Taken
<1>3. /\ conn' \in Seq(ConnType) /\ n \in Conn /\ n \notin DOMAIN conn
      /\ DOMAIN conn' = DOMAIN conn \cup {n} /\ Len(conn') <= MaxConns
      /\ \A m \in DOMAIN conn : conn'[m] = conn[m]
      /\ conn'[n].link = "open"
  BY <1>1, <1>2, ConnectMeaning
<1>4. backup' = [backup EXCEPT ![b].pc = "handshake", ![b].conn = n]
      /\ writers' = writers \cup {n} /\ UNCHANGED <<logged, queue, loop>>
      /\ ~Reading(b)
  BY DEF Connect, Reading
<1> HIDE DEF n
<1>5. BackupBecomes(b, "handshake", n, backup[b].from, backup[b].log)
  BY <1>1, <1>3, <1>4, TypesTogether, ConnectsBecomes
<1>6. /\ backup' \in [Backup -> BackupType]
      /\ \A a \in Backup : a # b => backup'[a] = backup[a]
      /\ backup'[b].pc = "handshake" /\ backup'[b].conn = n
      /\ backup'[b].from = backup[b].from /\ backup'[b].log = backup[b].log
  BY <1>5 DEF BackupBecomes
<1>7. ReplicationTypeOK'
  <2>1. /\ logged \in 0..MaxEntries /\ queue \in Seq(Entry)
        /\ loop \in [Loop -> LoopType] /\ writers \subseteq DOMAIN conn
    BY <1>1, TypesTogether
  <2>2. QED
    BY <2>1, <1>3, <1>4, <1>6, TypesAfter
<1>8. LoopsFit' /\ QueueFits'
  <2>1. LostStays
    BY <1>3 DEF LostStays, Lost
  <2>2. QED
    BY <2>1, <1>1, <1>4, LoopsKept, QueueKept
<1>9. \A a \in Backup : a # b /\ Reading(a)' =>
        Reading(a) /\ backup[a].conn \in DOMAIN conn
  BY <1>1, <1>6 DEF Reading, ReadersFit
<1>10. ReadersFit'
  <2>1. ASSUME NEW a \in Backup, Reading(a)'
        PROVE  /\ backup'[a].conn \in DOMAIN conn'
               /\ conn'[backup'[a].conn].link # "leaked"
    <3>1. CASE a = b
      BY <3>1, <1>3, <1>6
    <3>2. CASE a # b
      BY <3>2, <2>1, <1>1, <1>3, <1>6, <1>9 DEF ReadersFit
    <3>3. QED
      BY <3>1, <3>2
  <2>2. ASSUME NEW a \in Backup, NEW c \in Backup, Reading(a)', Reading(c)',
               backup'[a].conn = backup'[c].conn
        PROVE  a = c
    BY <2>2, <1>1, <1>3, <1>6, <1>9 DEF ReadersFit
  <2>3. \A a \in Backup : backup'[a].from <= Len(backup'[a].log)
    BY <1>1, <1>6 DEF ReadersFit
  <2>4. QED
    BY <2>1, <2>2, <2>3 DEF ReadersFit
<1>11. LiveBackupIsServed'
  <2> SUFFICES ASSUME NEW a \in Backup, Live(a)'
               PROVE  backup'[a].conn \in writers'
    BY DEF LiveBackupIsServed
  <2>1. CASE a = b
    BY <2>1, <1>4, <1>6
  <2>2. CASE a # b
    <3>1. Reading(a) /\ backup[a].conn \in DOMAIN conn
      BY <2>2, <1>9 DEF Live, Reading
    <3>2. Live(a)
      BY <2>2, <3>1, <1>3, <1>6 DEF Live, Lost, Reading
    <3>3. QED
      BY <3>2, <2>2, <1>1, <1>4, <1>6 DEF LiveBackupIsServed
  <2>3. QED
    BY <2>1, <2>2
<1>12. QED
  BY <1>7, <1>8, <1>10, <1>11 DEF PlacesFit

\* Steps of a loop.
LEMMA LoopStepKeepsPlaces ==
  ASSUME PlacesFit, NEW l \in Loop, NEW pc, NEW msg,
         NEW members \in SUBSET DOMAIN conn, NEW todo \in SUBSET members,
         NEW at \in SUBSET DOMAIN conn, NEW dead,
         LoopBecomes(l, pc, msg, members, todo, at, dead),
         \A n \in dead : n \in DOMAIN conn /\ Lost(n),
         LinksHold, conn' \in Seq(ConnType), Len(conn') = Len(conn),
         writers' \subseteq writers, \A n \in writers \ writers' : Lost(n),
         backup' = backup,
         logged' \in 0..MaxEntries, queue' \in Seq(Entry), QueueFits'
  PROVE  PlacesFit'
<1>1. ReplicationTypeOK /\ ReadersFit /\ LoopsFit /\ LiveBackupIsServed
  BY DEF PlacesFit
<1>2. /\ loop' \in [Loop -> LoopType]
      /\ \A k \in Loop : k # l => loop'[k] = loop[k]
      /\ loop'[l].members = members
      /\ loop'[l].todo = todo /\ loop'[l].at = at /\ loop'[l].dead = dead
  BY DEF LoopBecomes
<1>3. DOMAIN conn' = DOMAIN conn /\ LostStays
  BY LinksHoldLost DEF LinksHold
<1>4. ReplicationTypeOK'
  <2>1. Len(conn) <= MaxConns /\ writers \subseteq DOMAIN conn
        /\ backup \in [Backup -> BackupType]
    BY <1>1, TypesTogether
  <2>2. QED
    BY <2>1, <1>2, <1>3, TypesAfter
<1>5. LoopsFit'
  <2>1. ASSUME NEW k \in Loop
        PROVE  /\ loop'[k].members \subseteq DOMAIN conn'
               /\ loop'[k].todo \subseteq loop'[k].members
               /\ loop'[k].at \subseteq DOMAIN conn'
               /\ \A n \in loop'[k].dead : n \in DOMAIN conn' /\ Lost(n)'
    <3>1. CASE k = l
      BY <3>1, <1>2, <1>3 DEF LostStays, Lost
    <3>2. CASE k # l
      BY <3>2, <1>1, <1>2, <1>3 DEF LoopsFit, LostStays, Lost
    <3>3. QED
      BY <3>1, <3>2
  <2>2. QED
    BY <2>1 DEF LoopsFit
<1>6. ReadersFit'
  BY <1>1, ReadersKept
<1>7. LiveBackupIsServed'
  <2>1. writers \subseteq DOMAIN conn
    BY <1>1, TypesTogether
  <2>2. \A n \in writers \ writers' : conn'[n].link = "lost"
    BY <2>1, <1>3 DEF LostStays
  <2>3. QED
    BY <2>2, <1>1, ServedKept
<1>8. QED
  BY <1>4, <1>5, <1>6, <1>7 DEF PlacesFit

\* The broadcast loop keeps its entry while it is at it.
LEMMA LoopQueueKept ==
  ASSUME QueueFits, NEW l \in Loop, NEW pc, NEW msg, NEW members, NEW todo,
         NEW at, NEW dead, LoopBecomes(l, pc, msg, members, todo, at, dead),
         l = "heartbeat" => msg = HB,
         \/ l # "broadcast"
         \/ pc \in {"waiting", "dead"}
         \/ msg = loop[l].msg /\ loop[l].pc \in {"running", "suspended"},
         UNCHANGED <<logged, queue>>
  PROVE  QueueFits'
<1>1. /\ \A k \in Loop : k # l => loop'[k] = loop[k]
      /\ loop'[l].pc = pc /\ loop'[l].msg = msg
  BY DEF LoopBecomes
<1>2. Taken' = Taken
  BY DEF Taken
<1>3. (\A i \in 1..Len(queue) : queue[i] = Taken + i)'
  BY <1>2 DEF QueueFits
<1>4. (Len(queue) <= logged)'
  BY DEF QueueFits
<1>5. Broadcasting' => loop'["broadcast"].msg = Taken'
  BY <1>1, <1>2 DEF QueueFits, Broadcasting, Loop
<1>6. loop'["heartbeat"].msg = HB
  BY <1>1 DEF QueueFits, Loop
<1>7. QED
  BY <1>3, <1>4, <1>5, <1>6 DEF QueueFits

\* What a loop is at, and the types around it.
LEMMA LoopMeaning ==
  ASSUME PlacesFit, NEW l \in Loop
  PROVE  /\ loop[l] \in LoopType /\ loop \in [Loop -> LoopType]
         /\ loop[l].msg \in Message
         /\ loop[l].members \subseteq DOMAIN conn
         /\ loop[l].todo \subseteq loop[l].members
         /\ loop[l].at \subseteq DOMAIN conn
         /\ \A n \in loop[l].dead : n \in DOMAIN conn /\ Lost(n)
         /\ writers \subseteq DOMAIN conn /\ writers \in SUBSET Conn
         /\ DOMAIN conn \subseteq Conn
         /\ conn \in Seq(ConnType)
         /\ l = "heartbeat" => loop[l].msg = HB
<1>1. loop[l] \in LoopType /\ loop \in [Loop -> LoopType]
      /\ writers \subseteq DOMAIN conn /\ DOMAIN conn \subseteq Conn
      /\ conn \in Seq(ConnType)
  BY Types, TypesTogether DEF PlacesFit
<1>2. loop[l].msg \in Message
  BY <1>1, LoopFields, MessageKinds DEF Message
<1>3. QED
  BY <1>1, <1>2 DEF PlacesFit, LoopsFit, QueueFits

\* The rest of what a step of a loop leaves as it is.
LEMMA QuietLoopStepKeepsPlaces ==
  ASSUME PlacesFit, NEW l \in Loop, NEW pc, NEW msg,
         NEW members \in SUBSET DOMAIN conn, NEW todo \in SUBSET members,
         NEW at \in SUBSET DOMAIN conn, NEW dead,
         LoopBecomes(l, pc, msg, members, todo, at, dead),
         \A n \in dead : n \in DOMAIN conn /\ Lost(n),
         l = "heartbeat" => msg = HB,
         \/ l # "broadcast"
         \/ pc \in {"waiting", "dead"}
         \/ msg = loop[l].msg /\ loop[l].pc \in {"running", "suspended"},
         UNCHANGED <<logged, queue, backup>>,
         writers' \subseteq writers, \A n \in writers \ writers' : Lost(n),
         LinksHold, conn' \in Seq(ConnType), Len(conn') = Len(conn)
  PROVE  PlacesFit'
<1>1. QueueFits'
  BY LoopQueueKept DEF PlacesFit
<1>2. logged' \in 0..MaxEntries /\ queue' \in Seq(Entry) /\ backup' = backup
  BY TypesTogether DEF PlacesFit
<1>3. QED
  BY <1>1, <1>2, LoopStepKeepsPlaces

LEMMA ConnStands ==
  ASSUME PlacesFit, conn' = conn
  PROVE  LinksHold /\ conn' \in Seq(ConnType) /\ Len(conn') = Len(conn)
BY TypesTogether DEF PlacesFit, LinksHold

\* A write leaves every link as it is.
LEMMA WriteMeaning ==
  ASSUME PlacesFit, NEW l \in Loop, NEW n \in DOMAIN conn,
         conn' = [conn EXCEPT ![n] = Sent(@, loop[l].msg)]
  PROVE  /\ LinksHold /\ conn' \in Seq(ConnType) /\ Len(conn') = Len(conn)
         /\ Becomes(n, conn[n].link, conn[n].handler, InboxAfter(n, loop[l].msg),
                    conn[n].since)
<1> DEFINE m == loop[l].msg
           link == conn[n].link
           handler == conn[n].handler
           inbox == InboxAfter(n, m)
           since == conn[n].since
<1>1. m \in Message /\ ReplicationTypeOK
  BY LoopMeaning DEF PlacesFit
<1>2. conn' = [conn EXCEPT ![n] = Sent(@, m)] /\ link = conn[n].link
  OBVIOUS
<1> HIDE DEF m
<1>3. Becomes(n, link, handler, inbox, since)
  BY <1>1, <1>2, WriteBecomes
<1> HIDE DEF link, handler, inbox, since
<1>4. LinksHold
  BY <1>2, <1>3, BecomesLinksHold
<1>5. conn' \in Seq(ConnType) /\ Len(conn') = Len(conn)
  BY <1>3 DEF Becomes, OthersStay
<1>6. QED
  BY <1>3, <1>4, <1>5 DEF m, link, handler, inbox, since

LEMMA WriteKeepsPlaces ==
  ASSUME PlacesFit, NEW l \in Loop, NEW n \in DOMAIN conn, Write(l, n)
  PROVE  PlacesFit'
<1> DEFINE c == loop[l]
           pc == c.pc
           msg == c.msg
           members == c.members
           todo == c.todo \ {n}
           at == c.at
<1>1. /\ members \in SUBSET DOMAIN conn /\ todo \in SUBSET members
      /\ at \in SUBSET DOMAIN conn
      /\ \A k \in c.dead : k \in DOMAIN conn /\ Lost(k)
      /\ l = "heartbeat" => msg = HB
      /\ n \in Conn /\ loop \in [Loop -> LoopType]
  BY LoopMeaning
<1>2. pc = "running" /\ UNCHANGED <<logged, queue, backup>>
      /\ writers' \subseteq writers /\ (\A k \in writers \ writers' : Lost(k))
      /\ msg = loop[l].msg /\ loop[l].pc \in {"running", "suspended"}
  BY DEF Write
<1>3. CASE /\ conn' = [conn EXCEPT ![n] = Sent(@, loop[l].msg)]
           /\ loop' = [loop EXCEPT ![l].todo = @ \ {n}]
  <2> DEFINE dead == c.dead
  <2>1. LinksHold /\ conn' \in Seq(ConnType) /\ Len(conn') = Len(conn)
    BY <1>3, WriteMeaning
  <2>2. LoopBecomes(l, pc, msg, members, todo, at, dead)
        /\ \A k \in dead : k \in DOMAIN conn /\ Lost(k)
    BY <1>1, <1>3, PassesBecomes
  <2> HIDE DEF c, pc, msg, members, todo, at, dead
  <2>3. QED
    BY <2>1, <2>2, <1>1, <1>2, QuietLoopStepKeepsPlaces
<1>4. CASE /\ Lost(n)
           /\ loop' = [loop EXCEPT ![l].todo = @ \ {n}, ![l].dead = @ \cup {n}]
           /\ UNCHANGED conn
  <2> DEFINE dead == c.dead \cup {n}
  <2>1. LinksHold /\ conn' \in Seq(ConnType) /\ Len(conn') = Len(conn)
    BY <1>4, ConnStands
  <2>2. LoopBecomes(l, pc, msg, members, todo, at, dead)
        /\ \A k \in dead : k \in DOMAIN conn /\ Lost(k)
    BY <1>1, <1>4, FailsBecomes
  <2> HIDE DEF c, pc, msg, members, todo, at, dead
  <2>3. QED
    BY <2>1, <2>2, <1>1, <1>2, QuietLoopStepKeepsPlaces
<1>5. QED
  BY <1>3, <1>4 DEF Write

LEMMA WriteWaitsKeepsPlaces ==
  ASSUME PlacesFit, NEW l \in Loop, NEW n \in DOMAIN conn, WriteWaits(l, n)
  PROVE  PlacesFit'
<1> DEFINE c == loop[l]
           msg == c.msg
           members == c.members
           todo == c.todo \ {n}
           at == {n}
           dead == c.dead
<1>1. /\ members \in SUBSET DOMAIN conn /\ todo \in SUBSET members
      /\ at \in SUBSET DOMAIN conn
      /\ \A k \in dead : k \in DOMAIN conn /\ Lost(k)
      /\ l = "heartbeat" => msg = HB
      /\ n \in Conn /\ loop \in [Loop -> LoopType]
  BY LoopMeaning
<1>2. /\ UNCHANGED <<logged, queue, backup>>
      /\ writers' \subseteq writers /\ (\A k \in writers \ writers' : Lost(k))
      /\ msg = loop[l].msg /\ loop[l].pc \in {"running", "suspended"}
  BY DEF WriteWaits
<1>3. LinksHold /\ conn' \in Seq(ConnType) /\ Len(conn') = Len(conn)
  BY WriteMeaning DEF WriteWaits
<1>4. LoopBecomes(l, "suspended", msg, members, todo, at, dead)
  BY <1>1, WaitsBecomes DEF WriteWaits
<1> HIDE DEF c, msg, members, todo, at, dead
<1>5. QED
  BY <1>1, <1>2, <1>3, <1>4, QuietLoopStepKeepsPlaces

LEMMA ResumeKeepsPlaces ==
  ASSUME PlacesFit, NEW l \in Loop, Resume(l)
  PROVE  PlacesFit'
<1> DEFINE c == loop[l]
           msg == c.msg
<1>1. /\ loop \in [Loop -> LoopType] /\ writers \in SUBSET Conn
      /\ writers \in SUBSET DOMAIN conn /\ c.at \subseteq DOMAIN conn
      /\ \A k \in c.dead : k \in DOMAIN conn /\ Lost(k)
      /\ l = "heartbeat" => msg = HB
  BY LoopMeaning
<1>2. PICK new \in SUBSET (writers \ c.members),
           failed \in SUBSET {n \in c.at : Lost(n)} :
        LoopBecomes(l, "running", msg, writers,
                    (c.todo \cap writers) \cup new, {}, c.dead \cup failed)
  BY <1>1, ResumeBecomes
<1> DEFINE todo == (c.todo \cap writers) \cup new
           dead == c.dead \cup failed
<1>3. /\ UNCHANGED <<logged, queue, backup>> /\ conn' = conn
      /\ writers' \subseteq writers /\ (\A k \in writers \ writers' : Lost(k))
      /\ msg = loop[l].msg /\ loop[l].pc \in {"running", "suspended"}
  BY DEF Resume
<1>4. LinksHold /\ conn' \in Seq(ConnType) /\ Len(conn') = Len(conn)
  BY <1>3, ConnStands
<1>5. /\ LoopBecomes(l, "running", msg, writers, todo, {}, dead)
      /\ todo \in SUBSET writers /\ {} \in SUBSET DOMAIN conn
      /\ \A k \in dead : k \in DOMAIN conn /\ Lost(k)
  BY <1>1, <1>2
<1> HIDE DEF c, msg, todo, dead
<1>6. QED
  BY <1>1, <1>3, <1>4, <1>5, QuietLoopStepKeepsPlaces

LEMMA DieKeepsPlaces ==
  ASSUME PlacesFit, NEW l \in Loop, Die(l)
  PROVE  PlacesFit'
<1>1. LoopBecomes(l, "dead", HB, {}, {}, {}, {})
  BY LoopMeaning, DieBecomes
<1>2. /\ UNCHANGED <<logged, queue, backup>> /\ conn' = conn
      /\ writers' \subseteq writers /\ (\A k \in writers \ writers' : Lost(k))
  BY DEF Die
<1>3. LinksHold /\ conn' \in Seq(ConnType) /\ Len(conn') = Len(conn)
  BY <1>2, ConnStands
<1>4. QED
  BY <1>1, <1>2, <1>3, QuietLoopStepKeepsPlaces

LEMMA RoundEndsKeepsPlaces ==
  ASSUME PlacesFit, NEW l \in Loop, RoundEnds(l)
  PROVE  PlacesFit'
<1>1. LoopBecomes(l, "waiting", HB, {}, {}, {}, {})
  BY LoopMeaning, WaitsAgain DEF RoundEnds
<1>2. UNCHANGED <<logged, queue, backup>> /\ conn' = conn
      /\ writers' = writers \ loop[l].dead
  BY DEF RoundEnds
<1>3. writers' \subseteq writers /\ (\A k \in writers \ writers' : Lost(k))
  BY <1>2, LoopMeaning
<1>4. LinksHold /\ conn' \in Seq(ConnType) /\ Len(conn') = Len(conn)
  BY <1>2, ConnStands
<1>5. QED
  BY <1>1, <1>2, <1>3, <1>4, QuietLoopStepKeepsPlaces

LEMMA BeatKeepsPlaces ==
  ASSUME PlacesFit, Beat
  PROVE  PlacesFit'
<1>1. /\ "heartbeat" \in Loop /\ writers \in SUBSET Conn
      /\ writers \in SUBSET DOMAIN conn /\ loop \in [Loop -> LoopType]
  BY LoopMeaning DEF Loop
<1>2. LoopBecomes("heartbeat", "running", HB, writers, writers, {}, {})
  BY <1>1, RoundBecomes DEF Beat
<1>3. /\ UNCHANGED <<logged, queue, backup>> /\ conn' = conn
      /\ writers' \subseteq writers /\ (\A k \in writers \ writers' : Lost(k))
  BY DEF Beat
<1>4. LinksHold /\ conn' \in Seq(ConnType) /\ Len(conn') = Len(conn)
  BY <1>3, ConnStands
<1>5. "heartbeat" # "broadcast"
  OBVIOUS
<1>6. QED
  BY <1>1, <1>2, <1>3, <1>4, <1>5, QuietLoopStepKeepsPlaces

\* The head of the queue is the next entry; taking it leaves the rest.
LEMMA QueueMeaning ==
  ASSUME PlacesFit
  PROVE  /\ queue \in Seq(Entry) /\ Len(queue) \in Nat /\ Len(queue) <= logged
         /\ Taken \in Nat /\ Taken <= MaxEntries /\ logged \in 0..MaxEntries
         /\ queue # <<>> =>
              /\ Len(queue) > 0
              /\ Head(queue) = Taken + 1 /\ Head(queue) \in Entry
              /\ Tail(queue) \in Seq(Entry) /\ Len(Tail(queue)) = Len(queue) - 1
              /\ \A i \in 1..Len(Tail(queue)) : Tail(queue)[i] = queue[i + 1]
<1>1. /\ queue \in Seq(Entry) /\ Len(queue) \in Nat /\ logged \in Nat
      /\ logged <= MaxEntries /\ logged \in 0..MaxEntries
  BY Types, TypesTogether DEF PlacesFit
<1>2. Len(queue) <= logged /\ \A i \in 1..Len(queue) : queue[i] = Taken + i
  BY DEF PlacesFit, QueueFits
<1>3. MaxEntries \in Nat
  BY ReplicationAssumption
<1>4. Taken \in Nat /\ Taken <= MaxEntries
  BY <1>1, <1>2, <1>3 DEF Taken
<1>5. ASSUME queue # <<>>
      PROVE  /\ Len(queue) > 0
             /\ Head(queue) = Taken + 1 /\ Head(queue) \in Entry
             /\ Tail(queue) \in Seq(Entry) /\ Len(Tail(queue)) = Len(queue) - 1
             /\ \A i \in 1..Len(Tail(queue)) : Tail(queue)[i] = queue[i + 1]
  <2>1. Len(queue) > 0
    BY <1>1, <1>5, EmptySeq
  <2>2. /\ Head(queue) \in Entry /\ Head(queue) = queue[1]
        /\ Tail(queue) \in Seq(Entry) /\ Len(Tail(queue)) = Len(queue) - 1
        /\ \A i \in 1..Len(Tail(queue)) : Tail(queue)[i] = queue[i + 1]
    BY <1>1, <1>5, HeadTailProperties
  <2>3. queue[1] = Taken + 1
    BY <2>1, <1>1, <1>2
  <2>4. QED
    BY <2>1, <2>2, <2>3
<1>6. QED
  BY <1>1, <1>2, <1>4, <1>5

LEMMA BroadcastKeepsPlaces ==
  ASSUME PlacesFit, Broadcast
  PROVE  PlacesFit' /\ Taken' = Taken + 1
<1> DEFINE m == Head(queue)
<1>1. /\ "broadcast" \in Loop /\ writers \in SUBSET Conn
      /\ writers \in SUBSET DOMAIN conn /\ loop \in [Loop -> LoopType]
  BY LoopMeaning DEF Loop
<1>2. /\ queue' = Tail(queue) /\ queue # <<>> /\ Round("broadcast", m)
      /\ backup' = backup /\ conn' = conn /\ logged' = logged
      /\ writers' \subseteq writers /\ (\A k \in writers \ writers' : Lost(k))
  BY DEF Broadcast
<1>3. /\ Len(queue) \in Nat /\ Len(queue) <= logged /\ Len(queue) > 0
      /\ logged \in 0..MaxEntries
      /\ m = Taken + 1 /\ m \in Entry
      /\ queue' \in Seq(Entry) /\ Len(queue') = Len(queue) - 1
      /\ \A i \in 1..Len(queue') : queue'[i] = queue[i + 1]
  BY <1>2, QueueMeaning
<1> HIDE DEF m
<1>4. LoopBecomes("broadcast", "running", m, writers, writers, {}, {})
  BY <1>1, <1>2, <1>3, RoundBecomes
<1>5. LinksHold /\ conn' \in Seq(ConnType) /\ Len(conn') = Len(conn)
  BY <1>2, ConnStands
<1>6. Taken' = Taken + 1 /\ Len(queue') <= logged'
  <2>1. logged \in Nat
    BY <1>3, ReplicationAssumption
  <2>2. QED
    BY <2>1, <1>2, <1>3 DEF Taken
<1>7. QueueFits'
  <2>1. \A i \in 1..Len(queue) : queue[i] = Taken + i
    BY DEF PlacesFit, QueueFits
  <2>2. Taken \in Nat
    BY QueueMeaning
  <2>3. ASSUME NEW i \in 1..Len(queue')
        PROVE  queue'[i] = Taken' + i
    <3>1. i + 1 \in 1..Len(queue) /\ queue'[i] = queue[i + 1]
      BY <1>3
    <3>2. queue[i + 1] = Taken + (i + 1)
      BY <3>1, <2>1
    <3>3. QED
      BY <3>1, <3>2, <2>2, <1>6
  <2>4. loop'["broadcast"].msg = Taken' /\ loop'["heartbeat"] = loop["heartbeat"]
    BY <1>3, <1>4, <1>6 DEF LoopBecomes, Loop
  <2>5. loop["heartbeat"].msg = HB
    BY DEF PlacesFit, QueueFits
  <2>6. QED
    BY <2>3, <2>4, <2>5, <1>6 DEF QueueFits
<1>8. PlacesFit'
  <2>1. logged' \in 0..MaxEntries /\ {} \in SUBSET DOMAIN conn
    BY <1>2, <1>3
  <2>2. QED
    BY <2>1, <1>1, <1>2, <1>3, <1>4, <1>5, <1>7, LoopStepKeepsPlaces
<1>9. QED
  BY <1>6, <1>8

LEMMA LogAppendKeepsPlaces ==
  ASSUME PlacesFit, LogAppend
  PROVE  PlacesFit' /\ Taken' = Taken
<1>1. /\ logged < MaxEntries /\ logged' = logged + 1
      /\ queue' = Append(queue, logged + 1)
      /\ UNCHANGED <<writers, loop, conn, backup>>
  BY DEF LogAppend
<1>2. ReplicationTypeOK /\ ReadersFit /\ LoopsFit /\ QueueFits /\ LiveBackupIsServed
  BY DEF PlacesFit
<1>3. /\ queue \in Seq(Entry) /\ Len(queue) \in Nat /\ Len(queue) <= logged
      /\ logged \in Nat /\ MaxEntries \in Nat
  BY <1>2, QueueMeaning, Types, ReplicationAssumption
<1>4. logged + 1 \in Entry /\ logged' \in 0..MaxEntries
  BY <1>1, <1>3 DEF Entry
<1>5. /\ queue' \in Seq(Entry) /\ Len(queue') = Len(queue) + 1
      /\ \A i \in 1..Len(queue) : queue'[i] = queue[i]
      /\ queue'[Len(queue) + 1] = logged + 1
  BY <1>1, <1>3, <1>4, AppendProperties
<1>6. Taken' = Taken /\ Len(queue') <= logged'
  BY <1>1, <1>3, <1>5 DEF Taken
<1>7. QueueFits'
  <2>1. ASSUME NEW i \in 1..Len(queue')
        PROVE  queue'[i] = Taken' + i
    <3>1. CASE i \in 1..Len(queue)
      BY <3>1, <1>2, <1>5, <1>6 DEF QueueFits
    <3>2. CASE i = Len(queue) + 1
      BY <3>2, <1>3, <1>5, <1>6 DEF Taken
    <3>3. QED
      BY <3>1, <3>2, <1>3, <1>5
  <2>2. Broadcasting' => loop'["broadcast"].msg = Taken'
    BY <1>1, <1>2, <1>6 DEF QueueFits, Broadcasting
  <2>3. loop'["heartbeat"].msg = HB
    BY <1>1, <1>2 DEF QueueFits
  <2>4. QED
    BY <2>1, <2>2, <2>3, <1>6 DEF QueueFits
<1>8. ReplicationTypeOK'
  <2>1. /\ writers \subseteq DOMAIN conn /\ loop \in [Loop -> LoopType]
        /\ conn \in Seq(ConnType) /\ Len(conn) <= MaxConns
        /\ backup \in [Backup -> BackupType]
    BY <1>2, TypesTogether
  <2>2. QED
    BY <2>1, <1>1, <1>4, <1>5, TypesAfter
<1>9. LinksHold /\ LostStays
  BY <1>1, LinksHoldLost DEF LinksHold
<1>10. ReadersFit' /\ LoopsFit' /\ LiveBackupIsServed'
  BY <1>1, <1>2, <1>9, ReadersKept, LoopsKept, ServedKept
<1>11. QED
  BY <1>6, <1>7, <1>8, <1>10 DEF PlacesFit

LEMMA PlacesFitInit ==
  ASSUME Init
  PROVE  PlacesFit
<1>1. /\ logged = 0 /\ queue = <<>> /\ writers = {} /\ conn = <<>>
      /\ loop = [l \in Loop |-> Waiting]
      /\ backup = [b \in Backup |-> [pc |-> "connecting", conn |-> 0, from |-> 0,
                                     log |-> <<>>]]
  BY DEF Init
<1>2. MaxEntries \in Nat /\ MaxConns \in Nat
  BY ReplicationAssumption
<1>3. /\ queue \in Seq(Entry) /\ Len(queue) = 0
      /\ conn \in Seq(ConnType) /\ Len(conn) = 0
  BY <1>1, EmptySeq
<1>4. \A b \in Backup : backup[b].pc = "connecting" /\ backup[b].from = 0
                        /\ backup[b].log = <<>>
  BY <1>1
<1>5. \A l \in Loop : loop[l] = Waiting
  BY <1>1
<1>6. loop \in [Loop -> LoopType]
  BY <1>1, WaitingType
<1>7. backup \in [Backup -> BackupType]
  <2>1. <<>> \in Seq(Entry) /\ 0 \in 0..MaxConns /\ 0 \in Nat
    BY <1>2, EmptySeq
  <2>2. QED
    BY <2>1, <1>1 DEF BackupType
<1>8. ReplicationTypeOK
  BY <1>1, <1>2, <1>3, <1>6, <1>7, TypesTogether
<1>9. ReadersFit
  <2>1. Len(<<>>) = 0
    BY EmptySeq
  <2>2. QED
    BY <2>1, <1>4 DEF ReadersFit, Reading
<1>10. LoopsFit
  BY <1>5, WaitingType DEF LoopsFit
<1>11. QueueFits
  BY <1>1, <1>3, <1>5, WaitingType DEF QueueFits, Taken, Broadcasting, Loop
<1>12. LiveBackupIsServed
  BY <1>4 DEF LiveBackupIsServed, Live
<1>13. QED
  BY <1>8, <1>9, <1>10, <1>11, <1>12 DEF PlacesFit

LEMMA NoStepKeepsPlaces ==
  ASSUME PlacesFit, UNCHANGED vars
  PROVE  PlacesFit'
BY DEF PlacesFit, vars, ReplicationTypeOK, ReadersFit, LoopsFit, QueueFits,
       LiveBackupIsServed, Reading, Lost, Live, Taken, Broadcasting

LEMMA StepKeepsPlaces ==
  ASSUME PlacesFit, [Next]_vars
  PROVE  PlacesFit'
<1>1. CASE PrimaryStep
  <2>1. CASE LogAppend \/ Broadcast \/ Beat
    BY <2>1, LogAppendKeepsPlaces, BroadcastKeepsPlaces, BeatKeepsPlaces
  <2>2. ASSUME NEW l \in Loop, LoopStep(l)
        PROVE  PlacesFit'
    BY <2>2, WriteKeepsPlaces, WriteWaitsKeepsPlaces, ResumeKeepsPlaces,
       DieKeepsPlaces, RoundEndsKeepsPlaces DEF LoopStep
  <2>3. ASSUME NEW n \in DOMAIN conn, Acknowledge(n) \/ HandlerFails(n)
        PROVE  PlacesFit'
    BY <2>3, AcknowledgeKeepsPlaces, HandlerFailsKeepsPlaces
  <2>4. QED
    BY <2>1, <2>2, <2>3, <1>1 DEF PrimaryStep
<1>2. ASSUME NEW b \in Backup, BackupStep(b)
      PROVE  PlacesFit'
  BY <1>2, ConnectKeepsPlaces, ReadAckKeepsPlaces, BadAckKeepsPlaces,
     NoticeLossKeepsPlaces, ReadEntryKeepsPlaces, ReadRaisingEntryKeepsPlaces
     DEF BackupStep
<1>3. ASSUME NEW n \in DOMAIN conn, Lose(n)
      PROVE  PlacesFit'
  BY <1>3, LoseKeepsPlaces
<1>4. CASE UNCHANGED vars
  BY <1>4, NoStepKeepsPlaces
<1>5. QED
  BY <1>1, <1>2, <1>3, <1>4 DEF Next

\* The variables have their types, every backup that reads has a connection of
\* its own, the loops go over connections that exist and give up only lost
\* ones, and the queue holds the entries behind the one being sent.
THEOREM PlacesFitAlways == ReplicationSpec => []PlacesFit
<1>1. Init => PlacesFit
  BY PlacesFitInit
<1>2. PlacesFit /\ [Next]_vars => PlacesFit'
  BY StepKeepsPlaces
<1>3. QED
  BY <1>1, <1>2, PTL DEF ReplicationSpec

\* A backup whose connection stands is never dropped from PrimaryReplicator's
\* _writers: a loop discards a writer only if its write or its drain failed, and
\* a handler only if its connection did, whatever the other loop is doing.
THEOREM LiveBackupIsServedCorrect == ReplicationSpec => []LiveBackupIsServed
<1>1. PlacesFit => LiveBackupIsServed
  BY DEF PlacesFit
<1>2. QED
  BY <1>1, PlacesFitAlways, PTL

\* The variables of the primary, of the connections and of the backups keep
\* their types, whatever breaks.
THEOREM ReplicationTypeCorrect == ReplicationSpec => []ReplicationTypeOK
<1>1. PlacesFit => ReplicationTypeOK
  BY DEF PlacesFit
<1>2. QED
  BY <1>1, PlacesFitAlways, PTL

-----------------------------------------------------------------------------
(* The logs of the backups copy the primary's entries in its order.  The     *)
(* entries that are under way have to be in order too, and behind those that *)
(* have been read.                                                           *)

\* No entry of q is younger than t.
Below(q, t) == \A i \in 1..Len(q) : q[i] \in Entry => q[i] <= t

\* No entry of q comes behind a younger one.
Ascending(q) ==
  \A i, j \in 1..Len(q) :
    i < j /\ q[i] \in Entry /\ q[j] \in Entry => q[i] <= q[j]

\* No entry of p is younger than one of q.
Before(p, q) ==
  \A i \in 1..Len(p), j \in 1..Len(q) :
    p[i] \in Entry /\ q[j] \in Entry => p[i] <= q[j]

InOrder ==
  /\ \A b \in Backup : Below(backup[b].log, Taken)
  /\ \A n \in DOMAIN conn :
       Below(conn[n].inbox, Taken) /\ Ascending(conn[n].inbox)
  /\ \A b \in Backup : Reading(b) => Before(backup[b].log, Inbox(b))

LEMMA OrderEmpty ==
  ASSUME NEW t, NEW p
  PROVE  Below(<<>>, t) /\ Ascending(<<>>) /\ Before(p, <<>>) /\ Before(<<>>, p)
<1>1. Len(<<>>) = 0
  BY EmptySeq
<1>2. QED
  BY <1>1 DEF Below, Ascending, Before

LEMMA OrderLater ==
  ASSUME NEW S, NEW q \in Seq(S), NEW t \in Nat, NEW u \in Nat, t <= u,
         Below(q, t)
  PROVE  Below(q, u)
BY MessageKinds DEF Below

\* The youngest entry, or no entry, is appended.
LEMMA OrderAppend ==
  ASSUME NEW S, NEW q \in Seq(S), NEW m \in S, NEW t \in Nat,
         m \in Entry => m = t,
         Below(q, t), Ascending(q)
  PROVE  /\ Below(Append(q, m), t) /\ Ascending(Append(q, m))
         /\ \A p : Below(p, t) /\ Before(p, q) => Before(p, Append(q, m))
<1> DEFINE r == Append(q, m)
<1>1. /\ r \in Seq(S) /\ Len(r) = Len(q) + 1 /\ Len(q) \in Nat
      /\ \A i \in 1..Len(q) : r[i] = q[i]
      /\ r[Len(q) + 1] = m
  BY AppendProperties, LenProperties
<1> HIDE DEF r
<1>2. Below(r, t)
  <2>1. ASSUME NEW i \in 1..Len(r), r[i] \in Entry
        PROVE  r[i] <= t
    <3>1. CASE i \in 1..Len(q)
      BY <3>1, <2>1, <1>1 DEF Below
    <3>2. CASE i = Len(q) + 1
      BY <3>2, <2>1, <1>1
    <3>3. QED
      BY <3>1, <3>2, <1>1
  <2>2. QED
    BY <2>1 DEF Below
<1>3. Ascending(r)
  <2>1. ASSUME NEW i \in 1..Len(r), NEW j \in 1..Len(r), i < j,
               r[i] \in Entry, r[j] \in Entry
        PROVE  r[i] <= r[j]
    <3>1. i \in 1..Len(q) /\ r[i] = q[i]
      BY <2>1, <1>1
    <3>2. CASE j \in 1..Len(q)
      BY <3>1, <3>2, <2>1, <1>1 DEF Ascending
    <3>3. CASE j = Len(q) + 1
      BY <3>1, <3>3, <2>1, <1>1 DEF Below
    <3>4. QED
      BY <3>2, <3>3, <1>1
  <2>2. QED
    BY <2>1 DEF Ascending
<1>4. ASSUME NEW p, Below(p, t), Before(p, q)
      PROVE  Before(p, r)
  <2>1. ASSUME NEW i \in 1..Len(p), NEW j \in 1..Len(r),
               p[i] \in Entry, r[j] \in Entry
        PROVE  p[i] <= r[j]
    <3>1. CASE j \in 1..Len(q)
      BY <3>1, <2>1, <1>1, <1>4 DEF Before
    <3>2. CASE j = Len(q) + 1
      BY <3>2, <2>1, <1>1, <1>4 DEF Below
    <3>3. QED
      BY <3>1, <3>2, <1>1
  <2>2. QED
    BY <2>1 DEF Before
<1>5. QED
  BY <1>2, <1>3, <1>4 DEF r

\* The first message is taken: what is left is behind it.
LEMMA OrderTail ==
  ASSUME NEW S, NEW q \in Seq(S), q # <<>>, NEW t, Below(q, t), Ascending(q)
  PROVE  /\ Below(Tail(q), t) /\ Ascending(Tail(q))
         /\ Head(q) \in Entry => Head(q) <= t /\ Before(<<Head(q)>>, Tail(q))
         /\ \A p : Before(p, q) => Before(p, Tail(q))
<1> DEFINE r == Tail(q)
<1>1. /\ r \in Seq(S) /\ Len(r) = Len(q) - 1 /\ Len(q) \in Nat /\ Len(q) > 0
      /\ Head(q) = q[1]
      /\ \A i \in 1..Len(r) : r[i] = q[i + 1]
  BY HeadTailProperties, LenProperties, EmptySeq
<1>2. \A i \in 1..Len(r) : i + 1 \in 1..Len(q) /\ 1 < i + 1
  BY <1>1
<1>3. 1 \in 1..Len(q)
  BY <1>1
<1> HIDE DEF r
<1>4. Below(r, t)
  BY <1>1, <1>2 DEF Below
<1>5. Ascending(r)
  <2>1. ASSUME NEW i \in 1..Len(r), NEW j \in 1..Len(r), i < j,
               r[i] \in Entry, r[j] \in Entry
        PROVE  r[i] <= r[j]
    <3>1. i + 1 \in 1..Len(q) /\ j + 1 \in 1..Len(q) /\ i + 1 < j + 1
          /\ r[i] = q[i + 1] /\ r[j] = q[j + 1]
      BY <2>1, <1>1, <1>2
    <3>2. QED
      BY <3>1, <2>1 DEF Ascending
  <2>2. QED
    BY <2>1 DEF Ascending
<1>6. ASSUME Head(q) \in Entry
      PROVE  Head(q) <= t /\ Before(<<Head(q)>>, r)
  <2>1. Head(q) <= t
    BY <1>1, <1>3, <1>6 DEF Below
  <2>2. \A j \in 1..Len(r) : r[j] \in Entry => Head(q) <= r[j]
    BY <1>1, <1>2, <1>3, <1>6 DEF Ascending
  <2>3. QED
    BY <2>1, <2>2 DEF Before
<1>7. ASSUME NEW p, Before(p, q)
      PROVE  Before(p, r)
  BY <1>1, <1>2, <1>7 DEF Before
<1>8. QED
  BY <1>4, <1>5, <1>6, <1>7 DEF r

\* The end of a sequence is lost.
LEMMA OrderPrefix ==
  ASSUME NEW q \in Seq(Message), NEW k \in 0..Len(q), NEW t,
         Below(q, t), Ascending(q)
  PROVE  /\ Below(SubSeq(q, 1, k), t) /\ Ascending(SubSeq(q, 1, k))
         /\ \A p : Before(p, q) => Before(p, SubSeq(q, 1, k))
<1> DEFINE r == SubSeq(q, 1, k)
<1>1. Len(r) = k /\ \A i \in 1..k : r[i] = q[i]
  BY PrefixOfInbox
<1>2. \A i \in 1..k : i \in 1..Len(q)
  BY LenProperties
<1> HIDE DEF r
<1>3. Below(r, t) /\ Ascending(r) /\ \A p : Before(p, q) => Before(p, r)
  BY <1>1, <1>2 DEF Below, Ascending, Before
<1>4. QED
  BY <1>3 DEF r

\* A log takes over the next entry of its inbox.
LEMMA OrderCopies ==
  ASSUME NEW p \in Seq(Entry), NEW e \in Entry, NEW t, NEW r,
         Below(p, t), e <= t, Before(p, r), Before(<<e>>, r)
  PROVE  Below(Append(p, e), t) /\ Before(Append(p, e), r)
<1> DEFINE s == Append(p, e)
<1>1. /\ s \in Seq(Entry) /\ Len(s) = Len(p) + 1 /\ Len(p) \in Nat
      /\ \A i \in 1..Len(p) : s[i] = p[i]
      /\ s[Len(p) + 1] = e
  BY AppendProperties, LenProperties
<1>2. \A i \in 1..Len(s) : i \in 1..Len(p) \/ i = Len(p) + 1
  BY <1>1
<1>3. \A j \in 1..Len(r) : r[j] \in Entry => e <= r[j]
  BY DEF Before
<1> HIDE DEF s
<1>4. Below(s, t)
  BY <1>1, <1>2 DEF Below
<1>5. Before(s, r)
  <2>1. ASSUME NEW i \in 1..Len(s), NEW j \in 1..Len(r),
               s[i] \in Entry, r[j] \in Entry
        PROVE  s[i] <= r[j]
    BY <2>1, <1>1, <1>2, <1>3 DEF Before
  <2>2. QED
    BY <2>1 DEF Before
<1>6. QED
  BY <1>4, <1>5 DEF s

\* Nothing is sent or read.
LEMMA QuietKeepsOrder ==
  ASSUME PlacesFit, InOrder, UNCHANGED <<conn, backup>>,
         Taken' \in Nat, Taken <= Taken'
  PROVE  InOrder'
<1> DEFINE t == Taken'
<1>1. Taken \in Nat /\ t \in Nat /\ Taken <= t
  BY QueueMeaning
<1> HIDE DEF t
<1>2. ASSUME NEW b \in Backup
      PROVE  Below(backup'[b].log, t)
  <2>1. backup[b].log \in Seq(Entry)
    BY Types, BackupFields DEF PlacesFit
  <2>2. QED
    BY <2>1, <1>1, OrderLater DEF InOrder
<1>3. ASSUME NEW n \in DOMAIN conn
      PROVE  Below(conn'[n].inbox, t) /\ Ascending(conn'[n].inbox)
  <2>1. conn[n].inbox \in Seq(Message)
    BY Types, ConnFields DEF PlacesFit
  <2>2. QED
    BY <2>1, <1>1, OrderLater DEF InOrder
<1>4. (\A b \in Backup : Reading(b) => Before(backup[b].log, Inbox(b)))'
  BY DEF InOrder, Reading, Inbox
<1>5. QED
  BY <1>2, <1>3, <1>4 DEF InOrder, t

\* What an inbox may become while its backup does not read.
InboxInOrder(n, q) ==
  /\ Below(q, Taken) /\ Ascending(q)
  /\ \A p : Below(p, Taken) /\ Before(p, conn[n].inbox) => Before(p, q)

LEMMA ConnStepKeepsOrder ==
  ASSUME PlacesFit, InOrder, NEW n \in DOMAIN conn,
         NEW link, NEW handler, NEW inbox, NEW since,
         Becomes(n, link, handler, inbox, since), InboxInOrder(n, inbox),
         UNCHANGED <<logged, queue, backup>>
  PROVE  InOrder'
<1>1. Taken' = Taken
  BY DEF Taken
<1>2. /\ DOMAIN conn' = DOMAIN conn /\ conn'[n].inbox = inbox
      /\ \A m \in DOMAIN conn : m # n => conn'[m] = conn[m]
  BY DEF Becomes, OthersStay
<1>3. \A b \in Backup : Below(backup'[b].log, Taken')
  BY <1>1 DEF InOrder
<1>4. ASSUME NEW m \in DOMAIN conn'
      PROVE  Below(conn'[m].inbox, Taken') /\ Ascending(conn'[m].inbox)
  <2>1. CASE m = n
    BY <2>1, <1>1, <1>2 DEF InboxInOrder
  <2>2. CASE m # n
    BY <2>2, <1>1, <1>2 DEF InOrder
  <2>3. QED
    BY <2>1, <2>2
<1>5. ASSUME NEW b \in Backup, Reading(b)'
      PROVE  Before(backup'[b].log, Inbox(b)')
  <2>1. Reading(b) /\ Before(backup[b].log, conn[backup[b].conn].inbox)
        /\ Below(backup[b].log, Taken) /\ backup[b].conn \in DOMAIN conn
    BY <1>5, ReaderMeaning DEF InOrder, Reading, Inbox
  <2>2. Inbox(b)' = conn'[backup[b].conn].inbox
    BY DEF Inbox
  <2>3. CASE backup[b].conn = n
    BY <2>1, <2>2, <2>3, <1>2 DEF InboxInOrder
  <2>4. CASE backup[b].conn # n
    BY <2>1, <2>2, <2>4, <1>2
  <2>5. QED
    BY <2>3, <2>4
<1>6. QED
  BY <1>3, <1>4, <1>5 DEF InOrder

\* A message that is sent is the youngest entry, or none.
LEMMA SendingInOrder ==
  ASSUME PlacesFit, InOrder, NEW n \in DOMAIN conn, NEW m \in Message,
         m \in Entry => m = Taken
  PROVE  InboxInOrder(n, InboxAfter(n, m))
<1> DEFINE q == conn[n].inbox
<1>1. q \in Seq(Message) /\ Below(q, Taken) /\ Ascending(q) /\ Taken \in Nat
  BY Types, ConnFields, QueueMeaning DEF PlacesFit, InOrder
<1>2. InboxAfter(n, m) \in {q, Append(q, m)}
  BY DEF InboxAfter, Received
<1> HIDE DEF q
<1>3. /\ Below(Append(q, m), Taken) /\ Ascending(Append(q, m))
      /\ \A p : Below(p, Taken) /\ Before(p, q) => Before(p, Append(q, m))
  BY <1>1, OrderAppend
<1>4. QED
  BY <1>1, <1>2, <1>3 DEF InboxInOrder, q

\* What the loops write is such a message.
LEMMA LoopMessage ==
  ASSUME PlacesFit, NEW l \in Loop, loop[l].pc = "running"
  PROVE  loop[l].msg \in Message /\ (loop[l].msg \in Entry => loop[l].msg = Taken)
<1>1. CASE l = "broadcast"
  <2>1. loop[l].msg = Taken
    BY <1>1 DEF PlacesFit, QueueFits, Broadcasting
  <2>2. QED
    BY <2>1, LoopMeaning
<1>2. CASE l = "heartbeat"
  BY <1>2, LoopMeaning, MessageKinds
<1>3. QED
  BY <1>1, <1>2 DEF Loop

LEMMA WriteKeepsOrder ==
  ASSUME PlacesFit, InOrder, NEW l \in Loop, NEW n \in DOMAIN conn,
         loop[l].pc = "running",
         conn' = [conn EXCEPT ![n] = Sent(@, loop[l].msg)],
         UNCHANGED <<logged, queue, backup>>
  PROVE  InOrder'
<1> DEFINE link == conn[n].link
           handler == conn[n].handler
           inbox == InboxAfter(n, loop[l].msg)
           since == conn[n].since
<1>1. Becomes(n, link, handler, inbox, since)
  BY WriteMeaning
<1>2. InboxInOrder(n, inbox)
  BY LoopMessage, SendingInOrder
<1> HIDE DEF link, handler, inbox, since
<1>3. QED
  BY <1>1, <1>2, ConnStepKeepsOrder

LEMMA AcknowledgeKeepsOrder ==
  ASSUME PlacesFit, InOrder, NEW n \in DOMAIN conn, Acknowledge(n)
  PROVE  InOrder'
<1> DEFINE link == conn[n].link
           inbox == InboxAfter(n, Ack)
           since == conn[n].since
<1>1. Becomes(n, link, "open", inbox, since)
  BY AcknowledgeBecomes DEF PlacesFit
<1>2. InboxInOrder(n, inbox)
  BY MessageKinds, SendingInOrder
<1>3. UNCHANGED <<logged, queue, backup>>
  BY DEF Acknowledge
<1> HIDE DEF link, inbox, since
<1>4. QED
  BY <1>1, <1>2, <1>3, ConnStepKeepsOrder

LEMMA HandlerFailsKeepsOrder ==
  ASSUME PlacesFit, InOrder, NEW n \in DOMAIN conn, HandlerFails(n)
  PROVE  InOrder'
<1> DEFINE inbox == conn[n].inbox
           since == conn[n].since
<1>1. Becomes(n, "lost", "ended", inbox, since)
  BY HandlerFailsBecomes DEF PlacesFit
<1>2. InboxInOrder(n, inbox)
  BY DEF InOrder, InboxInOrder
<1>3. UNCHANGED <<logged, queue, backup>>
  BY DEF HandlerFails
<1> HIDE DEF inbox, since
<1>4. QED
  BY <1>1, <1>2, <1>3, ConnStepKeepsOrder

LEMMA LoseKeepsOrder ==
  ASSUME PlacesFit, InOrder, NEW n \in DOMAIN conn, Lose(n)
  PROVE  InOrder'
<1>1. PICK k \in 0..Len(conn[n].inbox) :
        Becomes(n, "lost", conn[n].handler, SubSeq(conn[n].inbox, 1, k), 0)
  BY LoseBecomes DEF PlacesFit
<1> DEFINE q == conn[n].inbox
           inbox == SubSeq(q, 1, k)
           handler == conn[n].handler
<1>2. InboxInOrder(n, inbox)
  <2>1. q \in Seq(Message) /\ Below(q, Taken) /\ Ascending(q)
    BY Types, ConnFields DEF PlacesFit, InOrder
  <2>2. k \in 0..Len(q)
    OBVIOUS
  <2> HIDE DEF q
  <2>3. /\ Below(inbox, Taken) /\ Ascending(inbox)
        /\ \A p : Before(p, q) => Before(p, inbox)
    BY <2>1, <2>2, OrderPrefix
  <2>4. QED
    BY <2>3 DEF InboxInOrder, q
<1>3. UNCHANGED <<logged, queue, backup>>
  BY DEF Lose
<1>4. Becomes(n, "lost", handler, inbox, 0)
  BY <1>1
<1> HIDE DEF q, inbox, handler
<1>5. QED
  BY <1>2, <1>3, <1>4, ConnStepKeepsOrder

LEMMA ConnectKeepsOrder ==
  ASSUME PlacesFit, InOrder, NEW b \in Backup, Connect(b)
  PROVE  InOrder'
<1> DEFINE n == Len(conn) + 1
<1>1. ReplicationTypeOK /\ Taken \in Nat
  BY QueueMeaning DEF PlacesFit
<1>2. /\ n \in Conn /\ n \notin DOMAIN conn
      /\ DOMAIN conn' = DOMAIN conn \cup {n}
      /\ \A m \in DOMAIN conn : conn'[m] = conn[m]
      /\ conn'[n].inbox = <<>>
  BY <1>1, ConnectMeaning
<1>3. backup' = [backup EXCEPT ![b].pc = "handshake", ![b].conn = n]
      /\ UNCHANGED <<logged, queue>>
  BY DEF Connect
<1> HIDE DEF n
<1>4. BackupBecomes(b, "handshake", n, backup[b].from, backup[b].log)
  BY <1>1, <1>2, <1>3, TypesTogether, ConnectsBecomes
<1>5. /\ \A a \in Backup : a # b => backup'[a] = backup[a]
      /\ backup'[b].conn = n /\ backup'[b].log = backup[b].log
  BY <1>4 DEF BackupBecomes
<1>6. Taken' = Taken
  BY <1>3 DEF Taken
<1>7. \A a \in Backup : Below(backup'[a].log, Taken')
  BY <1>5, <1>6 DEF InOrder
<1>8. ASSUME NEW m \in DOMAIN conn'
      PROVE  Below(conn'[m].inbox, Taken') /\ Ascending(conn'[m].inbox)
  <2>1. CASE m = n
    BY <2>1, <1>2, OrderEmpty
  <2>2. CASE m # n
    BY <2>2, <1>2, <1>6 DEF InOrder
  <2>3. QED
    BY <2>1, <2>2
<1>9. ASSUME NEW a \in Backup, Reading(a)'
      PROVE  Before(backup'[a].log, Inbox(a)')
  <2>1. Inbox(a)' = conn'[backup'[a].conn].inbox
    BY DEF Inbox
  <2>2. CASE a = b
    BY <2>1, <2>2, <1>2, <1>5, OrderEmpty
  <2>3. CASE a # b
    <3>1. Reading(a) /\ Before(backup[a].log, conn[backup[a].conn].inbox)
          /\ backup[a].conn \in DOMAIN conn
      BY <2>3, <1>5, <1>9, ReaderMeaning DEF InOrder, Reading, Inbox
    <3>2. QED
      BY <3>1, <2>1, <2>3, <1>2, <1>5
  <2>4. QED
    BY <2>2, <2>3
<1>10. QED
  BY <1>7, <1>8, <1>9 DEF InOrder

\* What a reading backup makes of its log and its inbox.
LEMMA BackupStepKeepsOrder ==
  ASSUME PlacesFit, InOrder, NEW b \in Backup, Reading(b), NEW n \in DOMAIN conn,
         n = backup[b].conn,
         NEW link, NEW handler, NEW inbox, NEW since,
         Becomes(n, link, handler, inbox, since),
         NEW pc, NEW m, NEW from, NEW log, BackupBecomes(b, pc, m, from, log),
         pc = "connecting" \/ m = n,
         Below(log, Taken), Below(inbox, Taken), Ascending(inbox),
         Before(log, inbox),
         UNCHANGED <<logged, queue>>
  PROVE  InOrder'
<1>1. Taken' = Taken
  BY DEF Taken
<1>2. /\ DOMAIN conn' = DOMAIN conn /\ conn'[n].inbox = inbox
      /\ \A k \in DOMAIN conn : k # n => conn'[k] = conn[k]
  BY DEF Becomes, OthersStay
<1>3. /\ \A a \in Backup : a # b => backup'[a] = backup[a]
      /\ backup'[b].pc = pc /\ backup'[b].conn = m /\ backup'[b].log = log
  BY DEF BackupBecomes
<1>4. \A a \in Backup : Below(backup'[a].log, Taken')
  BY <1>1, <1>3 DEF InOrder
<1>5. ASSUME NEW k \in DOMAIN conn'
      PROVE  Below(conn'[k].inbox, Taken') /\ Ascending(conn'[k].inbox)
  BY <1>1, <1>2 DEF InOrder
<1>6. ASSUME NEW a \in Backup, Reading(a)'
      PROVE  Before(backup'[a].log, Inbox(a)')
  <2>1. Inbox(a)' = conn'[backup'[a].conn].inbox
    BY DEF Inbox
  <2>2. CASE a = b
    BY <2>1, <2>2, <1>2, <1>3, <1>6 DEF Reading
  <2>3. CASE a # b
    <3>1. Reading(a) /\ Before(backup[a].log, conn[backup[a].conn].inbox)
          /\ backup[a].conn \in DOMAIN conn
      BY <2>3, <1>3, <1>6, ReaderMeaning DEF InOrder, Reading, Inbox
    <3>2. backup[a].conn # n
      BY <3>1, <2>3 DEF PlacesFit, ReadersFit
    <3>3. QED
      BY <3>1, <3>2, <2>1, <2>3, <1>2, <1>3
  <2>4. QED
    BY <2>2, <2>3
<1>7. QED
  BY <1>4, <1>5, <1>6 DEF InOrder

\* The message at the head of a reader's inbox, if it is an entry.
LEMMA HeadMeaning ==
  ASSUME PlacesFit, InOrder, NEW b \in Backup, Reading(b), Inbox(b) # <<>>
  PROVE  /\ Below(backup[b].log, Taken) /\ backup[b].log \in Seq(Entry)
         /\ Before(backup[b].log, Tail(Inbox(b)))
         /\ Below(Tail(Inbox(b)), Taken) /\ Ascending(Tail(Inbox(b)))
         /\ Head(Inbox(b)) \in Entry =>
              /\ Head(Inbox(b)) <= Taken
              /\ Below(Append(backup[b].log, Head(Inbox(b))), Taken)
              /\ Before(Append(backup[b].log, Head(Inbox(b))), Tail(Inbox(b)))
              /\ \A i \in 1..Len(backup[b].log) : backup[b].log[i] <= Head(Inbox(b))
<1> DEFINE q == Inbox(b)
           log == backup[b].log
           e == Head(q)
<1>1. q \in Seq(Message) /\ q # <<>> /\ log \in Seq(Entry)
  BY ReaderMeaning, BackupFields
<1>2. Below(q, Taken) /\ Ascending(q) /\ Before(log, q) /\ Below(log, Taken)
  BY ReaderMeaning DEF InOrder
<1> HIDE DEF q, log
<1>3. /\ Below(Tail(q), Taken) /\ Ascending(Tail(q)) /\ Before(log, Tail(q))
      /\ e \in Entry => e <= Taken /\ Before(<<e>>, Tail(q))
  BY <1>1, <1>2, OrderTail
<1>4. ASSUME e \in Entry
      PROVE  /\ Below(Append(log, e), Taken) /\ Before(Append(log, e), Tail(q))
             /\ \A i \in 1..Len(log) : log[i] <= e
  <2>1. \A i \in 1..Len(log) : log[i] \in Entry
    BY <1>1, ElementOfSeq
  <2>2. 1 \in 1..Len(q) /\ q[1] = e
    BY <1>1, HeadTailProperties, LenProperties, EmptySeq
  <2>3. \A i \in 1..Len(log) : log[i] <= e
    BY <2>1, <2>2, <1>2, <1>4 DEF Before
  <2> HIDE DEF e
  <2>4. Below(Append(log, e), Taken) /\ Before(Append(log, e), Tail(q))
    BY <1>1, <1>2, <1>3, <1>4, OrderCopies
  <2>5. QED
    BY <2>3, <2>4
<1>5. QED
  BY <1>1, <1>2, <1>3, <1>4 DEF q, log

\* What the reads do to connection and backup.
LEMMA ReadAckMeaning ==
  ASSUME PlacesFit, NEW b \in Backup, ReadAck(b)
  PROVE  LET n == backup[b].conn IN
         /\ Reading(b) /\ n \in DOMAIN conn
         /\ Becomes(n, conn[n].link, conn[n].handler, Tail(Inbox(b)), conn[n].since)
         /\ BackupBecomes(b, "streaming", n, Len(backup[b].log), backup[b].log)
         /\ UNCHANGED <<logged, queue, writers, loop>>
<1> DEFINE n == backup[b].conn
<1>1. Reading(b) /\ UNCHANGED <<logged, queue, writers, loop>>
  BY DEF ReadAck, Reading
<1>2. n \in DOMAIN conn /\ Inbox(b) = conn[n].inbox
  BY <1>1, ReaderMeaning
<1>3. Becomes(n, conn[n].link, conn[n].handler, Tail(conn[n].inbox), conn[n].since)
  BY <1>2, TakeBecomes DEF ReadAck, PlacesFit
<1>4. BackupBecomes(b, "streaming", n, Len(backup[b].log), backup[b].log)
  BY TypesTogether, ReadAckBecomes DEF PlacesFit
<1>5. QED
  BY <1>1, <1>2, <1>3, <1>4

LEMMA ReadEntryMeaning ==
  ASSUME PlacesFit, NEW b \in Backup, ReadEntry(b)
  PROVE  LET n == backup[b].conn
             e == Head(Inbox(b)) IN
         /\ Reading(b) /\ n \in DOMAIN conn /\ Inbox(b) # <<>> /\ e \in Entry
         /\ Becomes(n, conn[n].link, conn[n].handler, Tail(Inbox(b)), conn[n].since)
         /\ BackupBecomes(b, "streaming", n, backup[b].from,
                          Append(backup[b].log, e))
         /\ UNCHANGED <<logged, queue, writers, loop>>
<1> DEFINE n == backup[b].conn
           e == Head(Inbox(b))
<1>1. /\ Reading(b) /\ UNCHANGED <<logged, queue, writers, loop>>
      /\ Inbox(b) # <<>> /\ e \in Entry
      /\ backup[b].pc = "streaming" /\ backup' = [backup EXCEPT ![b].log = Append(@, e)]
  BY DEF ReadEntry, Reading
<1>2. n \in DOMAIN conn /\ Inbox(b) = conn[n].inbox
  BY <1>1, ReaderMeaning
<1>3. Becomes(n, conn[n].link, conn[n].handler, Tail(conn[n].inbox), conn[n].since)
  BY <1>2, TakeBecomes DEF ReadEntry, PlacesFit
<1>4. backup \in [Backup -> BackupType]
  BY TypesTogether DEF PlacesFit
<1> HIDE DEF e
<1>5. BackupBecomes(b, backup[b].pc, n, backup[b].from, Append(backup[b].log, e))
  BY <1>1, <1>4, AppendsBecomes
<1>6. QED
  BY <1>1, <1>2, <1>3, <1>5 DEF e

LEMMA GivesUpMeaning ==
  ASSUME PlacesFit, NEW b \in Backup, BadAck(b) \/ NoticeLoss(b)
  PROVE  LET n == backup[b].conn IN
         /\ Reading(b) /\ n \in DOMAIN conn
         /\ \E link \in {"leaked", "lost"} :
              Becomes(n, link, conn[n].handler, <<>>, 0)
         /\ BackupBecomes(b, "connecting", 0, 0, backup[b].log)
         /\ UNCHANGED <<logged, queue, writers, loop>>
<1> DEFINE n == backup[b].conn
           handler == conn[n].handler
<1>1. /\ Reading(b) /\ UNCHANGED <<logged, queue, writers, loop>>
      /\ backup' = [backup EXCEPT ![b] = Alone(@)]
      /\ \E link \in {"leaked", "lost"} : Left(b, link)
  BY DEF BadAck, NoticeLoss, Reading
<1>2. n \in DOMAIN conn
  BY <1>1, ReaderMeaning
<1>3. \E link \in {"leaked", "lost"} : Becomes(n, link, handler, <<>>, 0)
  <2>1. PICK link \in {"leaked", "lost"} : Left(b, link)
    BY <1>1
  <2>2. Becomes(n, link, handler, <<>>, 0)
    BY <2>1, <1>2, LeftBecomes DEF PlacesFit
  <2>3. QED
    BY <2>2
<1>4. BackupBecomes(b, "connecting", 0, 0, backup[b].log)
  BY <1>1, TypesTogether, GivesUpBecomes DEF PlacesFit
<1>5. QED
  BY <1>1, <1>2, <1>3, <1>4

LEMMA ReadAckKeepsOrder ==
  ASSUME PlacesFit, InOrder, NEW b \in Backup, ReadAck(b)
  PROVE  InOrder'
<1> DEFINE n == backup[b].conn
           link == conn[n].link
           handler == conn[n].handler
           inbox == Tail(Inbox(b))
           since == conn[n].since
           log == backup[b].log
           from == Len(log)
<1>1. /\ Reading(b) /\ n \in DOMAIN conn /\ n = backup[b].conn
      /\ Becomes(n, link, handler, inbox, since)
      /\ BackupBecomes(b, "streaming", n, from, log)
      /\ UNCHANGED <<logged, queue>>
  BY ReadAckMeaning
<1>2. /\ Below(log, Taken) /\ Before(log, inbox)
      /\ Below(inbox, Taken) /\ Ascending(inbox)
  BY <1>1, HeadMeaning DEF ReadAck
<1> HIDE DEF n, link, handler, inbox, since, log, from
<1>3. QED
  BY <1>1, <1>2, BackupStepKeepsOrder

LEMMA ReadEntryKeepsOrder ==
  ASSUME PlacesFit, InOrder, NEW b \in Backup, ReadEntry(b)
  PROVE  InOrder'
<1> DEFINE n == backup[b].conn
           link == conn[n].link
           handler == conn[n].handler
           inbox == Tail(Inbox(b))
           since == conn[n].since
           log == Append(backup[b].log, Head(Inbox(b)))
           from == backup[b].from
<1>1. /\ Reading(b) /\ n \in DOMAIN conn /\ n = backup[b].conn
      /\ Becomes(n, link, handler, inbox, since)
      /\ BackupBecomes(b, "streaming", n, from, log)
      /\ UNCHANGED <<logged, queue>>
      /\ Inbox(b) # <<>> /\ Head(Inbox(b)) \in Entry
  BY ReadEntryMeaning
<1>2. /\ Below(log, Taken) /\ Before(log, inbox)
      /\ Below(inbox, Taken) /\ Ascending(inbox)
  BY <1>1, HeadMeaning
<1> HIDE DEF n, link, handler, inbox, since, log, from
<1>3. QED
  BY <1>1, <1>2, BackupStepKeepsOrder

LEMMA LeavingKeepsOrder ==
  ASSUME PlacesFit, InOrder, NEW b \in Backup, Reading(b), NEW n \in DOMAIN conn,
         n = backup[b].conn,
         NEW link, NEW handler, Becomes(n, link, handler, <<>>, 0),
         NEW log, BackupBecomes(b, "connecting", 0, 0, log), Below(log, Taken),
         UNCHANGED <<logged, queue>>
  PROVE  InOrder'
<1>1. Below(<<>>, Taken) /\ Ascending(<<>>) /\ Before(log, <<>>)
  BY OrderEmpty
<1>2. QED
  BY <1>1, BackupStepKeepsOrder

LEMMA GivesUpKeepsOrder ==
  ASSUME PlacesFit, InOrder, NEW b \in Backup, BadAck(b) \/ NoticeLoss(b)
  PROVE  InOrder'
<1> DEFINE n == backup[b].conn
           handler == conn[n].handler
           log == backup[b].log
<1>1. /\ Reading(b) /\ n \in DOMAIN conn /\ n = backup[b].conn
      /\ \E link \in {"leaked", "lost"} : Becomes(n, link, handler, <<>>, 0)
      /\ BackupBecomes(b, "connecting", 0, 0, log)
      /\ UNCHANGED <<logged, queue>>
  BY GivesUpMeaning
<1>2. Below(log, Taken)
  BY DEF InOrder
<1> HIDE DEF n, handler, log
<1>3. QED
  BY <1>1, <1>2, LeavingKeepsOrder

LEMMA ReadRaisingEntryKeepsOrder ==
  ASSUME PlacesFit, InOrder, NEW b \in Backup, ReadRaisingEntry(b)
  PROVE  InOrder'
<1> DEFINE n == backup[b].conn
           handler == conn[n].handler
           log == Append(backup[b].log, Head(Inbox(b)))
<1>1. /\ Reading(b) /\ Left(b, "lost") /\ n = backup[b].conn
      /\ BackupBecomes(b, "connecting", 0, 0, log)
      /\ Inbox(b) # <<>> /\ Head(Inbox(b)) \in Entry
  BY RaisingMeaning
<1>2. n \in DOMAIN conn
  BY <1>1, ReaderMeaning
<1>3. Becomes(n, "lost", handler, <<>>, 0)
  BY <1>1, <1>2, LeftBecomes DEF PlacesFit
<1>4. Below(log, Taken)
  BY <1>1, HeadMeaning
<1>5. UNCHANGED <<logged, queue>>
  BY DEF ReadRaisingEntry
<1> HIDE DEF n, handler, log
<1>6. QED
  BY <1>1, <1>2, <1>3, <1>4, <1>5, LeavingKeepsOrder

LEMMA LoopStepKeepsOrder ==
  ASSUME PlacesFit, InOrder, NEW l \in Loop, LoopStep(l)
  PROVE  InOrder'
<1>1. Taken \in Nat
  BY QueueMeaning
<1>2. ASSUME NEW n \in DOMAIN conn, Write(l, n) \/ WriteWaits(l, n)
      PROVE  InOrder'
  <2>1. loop[l].pc = "running" /\ UNCHANGED <<logged, queue, backup>>
        /\ (conn' = [conn EXCEPT ![n] = Sent(@, loop[l].msg)] \/ conn' = conn)
    BY <1>2 DEF Write, WriteWaits
  <2>2. CASE conn' = [conn EXCEPT ![n] = Sent(@, loop[l].msg)]
    BY <2>1, <2>2, WriteKeepsOrder
  <2>3. CASE conn' = conn
    BY <2>1, <2>3, <1>1, QuietKeepsOrder DEF Taken
  <2>4. QED
    BY <2>1, <2>2, <2>3
<1>3. CASE Resume(l) \/ Die(l) \/ RoundEnds(l)
  <2>1. UNCHANGED <<logged, queue, conn, backup>>
    BY <1>3 DEF Resume, Die, RoundEnds
  <2>2. Taken' = Taken
    BY <2>1 DEF Taken
  <2>3. QED
    BY <2>1, <2>2, <1>1, QuietKeepsOrder
<1>4. QED
  BY <1>2, <1>3 DEF LoopStep

LEMMA StepKeepsOrder ==
  ASSUME PlacesFit, InOrder, [Next]_vars
  PROVE  InOrder'
<1>1. Taken \in Nat
  BY QueueMeaning
<1>2. CASE LogAppend
  BY <1>1, <1>2, LogAppendKeepsPlaces, QuietKeepsOrder DEF LogAppend
<1>3. CASE Broadcast
  BY <1>1, <1>3, BroadcastKeepsPlaces, QuietKeepsOrder DEF Broadcast
<1>4. CASE Beat \/ UNCHANGED vars
  <2>1. UNCHANGED <<logged, queue, conn, backup>>
    BY <1>4 DEF Beat, vars
  <2>2. Taken' = Taken
    BY <2>1 DEF Taken
  <2>3. QED
    BY <2>1, <2>2, <1>1, QuietKeepsOrder
<1>5. ASSUME NEW l \in Loop, LoopStep(l)
      PROVE  InOrder'
  BY <1>5, LoopStepKeepsOrder
<1>6. ASSUME NEW n \in DOMAIN conn, Acknowledge(n) \/ HandlerFails(n) \/ Lose(n)
      PROVE  InOrder'
  BY <1>6, AcknowledgeKeepsOrder, HandlerFailsKeepsOrder, LoseKeepsOrder
<1>7. ASSUME NEW b \in Backup, BackupStep(b)
      PROVE  InOrder'
  BY <1>7, ConnectKeepsOrder, ReadAckKeepsOrder, GivesUpKeepsOrder,
     ReadEntryKeepsOrder, ReadRaisingEntryKeepsOrder DEF BackupStep
<1>8. QED
  BY <1>2, <1>3, <1>4, <1>5, <1>6, <1>7 DEF Next, PrimaryStep

\* What has been sent and what has been read is in the order of the log, and no
\* younger than the entry that the broadcast loop is at.
THEOREM EntriesInOrder == ReplicationSpec => [](PlacesFit /\ InOrder)
<1>1. Init => InOrder
  <2>1. ASSUME Init
        PROVE  /\ conn = <<>> /\ DOMAIN conn = {}
               /\ \A b \in Backup : backup[b].log = <<>> /\ ~Reading(b)
    <3>1. conn = <<>>
      BY <2>1 DEF Init
    <3>2. \A b \in Backup : backup[b].log = <<>> /\ ~Reading(b)
      BY <2>1 DEF Init, Reading
    <3>3. QED
      BY <3>1, <3>2
  <2>2. QED
    BY <2>1, OrderEmpty DEF InOrder
<1>2. PlacesFit /\ InOrder /\ [Next]_vars => InOrder'
  BY StepKeepsOrder
<1>3. QED
  BY <1>1, <1>2, PlacesFitAlways, PTL DEF ReplicationSpec

\* The logs change by the reads only.
LEMMA LogsStand ==
  ASSUME PlacesFit, NEW b \in Backup, NEW pc, NEW n, NEW from,
         BackupBecomes(b, pc, n, from, backup[b].log)
  PROVE  [a \in Backup |-> backup'[a].log] = [a \in Backup |-> backup[a].log]
BY DEF BackupBecomes

\* A read entry is shipped.
LEMMA ShipsEntry ==
  ASSUME PlacesFit, InOrder, NEW b \in Backup, Reading(b), Inbox(b) # <<>>,
         NEW e \in Entry, e = Head(Inbox(b)), NEW pc, NEW n, NEW from,
         BackupBecomes(b, pc, n, from, Append(backup[b].log, e)),
         UNCHANGED logged
  PROVE  Shipping!Next
<1> DEFINE copy == [a \in Backup |-> backup[a].log]
<1>1. /\ e \in Entry /\ e <= Taken /\ backup[b].log \in Seq(Entry)
      /\ \A i \in 1..Len(backup[b].log) : backup[b].log[i] <= e
  BY HeadMeaning
<1>2. e \in 1..logged
  <2>1. Len(queue) \in Nat /\ logged \in Nat
    BY QueueMeaning, Types DEF PlacesFit
  <2>2. QED
    BY <2>1, <1>1, MessageKinds DEF Taken
<1>3. backup[b].log # <<>> => Last(backup[b].log) <= e
  <2>1. backup[b].log # <<>> => Len(backup[b].log) \in 1..Len(backup[b].log)
    BY <1>1, LenProperties, EmptySeq
  <2>2. QED
    BY <2>1, <1>1 DEF Last
<1>4. /\ \A a \in Backup : a # b => backup'[a].log = backup[a].log
      /\ backup'[b].log = Append(backup[b].log, e)
  BY DEF BackupBecomes
<1>5. copy' = [copy EXCEPT ![b] = Append(@, e)]
  <2> DEFINE log == Append(backup[b].log, e)
  <2>1. copy[b] = backup[b].log
    OBVIOUS
  <2>2. [copy EXCEPT ![b] = log] = [a \in Backup |-> IF a = b THEN log
                                                    ELSE backup[a].log]
    OBVIOUS
  <2>3. copy' = [a \in Backup |-> IF a = b THEN log ELSE backup[a].log]
    BY <1>4
  <2>4. QED
    BY <2>1, <2>2, <2>3
<1>6. copy[b] # <<>> => Shipping!Last(copy[b]) <= e
  <2>1. copy[b] = backup[b].log
    OBVIOUS
  <2>2. QED
    BY <2>1, <1>3 DEF Shipping!Last, Last
<1>7. Shipping!Ship(b, e)
  BY <1>2, <1>5, <1>6 DEF Shipping!Ship
<1>8. QED
  BY <1>2, <1>7 DEF Shipping!Next

\* Every step is one of the abstract specification, or changes no log.
LEMMA StepShips ==
  ASSUME PlacesFit, InOrder, [Next]_vars
  PROVE  [Shipping!Next]_<<logged, [b \in Backup |-> backup[b].log]>>
<1> DEFINE copy == [a \in Backup |-> backup[a].log]
<1>1. CASE LogAppend
  BY <1>1 DEF LogAppend, Shipping!Next, Shipping!Log
<1>2. CASE UNCHANGED <<logged, backup>>
  BY <1>2
<1>3. ASSUME NEW b \in Backup, BackupStep(b)
      PROVE  Shipping!Next \/ (copy' = copy /\ logged' = logged)
  <2>1. CASE Connect(b)
    <3>1. Taken \in Nat
      BY QueueMeaning
    <3>2. Len(conn) + 1 \in Conn
      BY <2>1, <3>1, ConnectMeaning DEF PlacesFit
    <3>3. BackupBecomes(b, "handshake", Len(conn) + 1, backup[b].from, backup[b].log)
      BY <2>1, <3>2, TypesTogether, ConnectsBecomes DEF Connect, PlacesFit
    <3>4. QED
      BY <2>1, <3>3, LogsStand DEF Connect
  <2>2. CASE ReadAck(b)
    BY <2>2, ReadAckMeaning, LogsStand
  <2>3. CASE BadAck(b) \/ NoticeLoss(b)
    BY <2>3, GivesUpMeaning, LogsStand
  <2>4. CASE ReadEntry(b)
    BY <2>4, ReadEntryMeaning, ShipsEntry
  <2>5. CASE ReadRaisingEntry(b)
    BY <2>5, RaisingMeaning, ShipsEntry DEF ReadRaisingEntry
  <2>6. QED
    BY <1>3, <2>1, <2>2, <2>3, <2>4, <2>5 DEF BackupStep
<1>4. CASE Next
  <2>1. ASSUME NEW l \in Loop, LoopStep(l)
        PROVE  UNCHANGED <<logged, backup>>
    BY <2>1 DEF LoopStep, Write, WriteWaits, Resume, Die, RoundEnds
  <2>2. ASSUME NEW n \in DOMAIN conn, Acknowledge(n) \/ HandlerFails(n) \/ Lose(n)
        PROVE  UNCHANGED <<logged, backup>>
    BY <2>2 DEF Acknowledge, HandlerFails, Lose
  <2>3. Broadcast \/ Beat => UNCHANGED <<logged, backup>>
    BY DEF Broadcast, Beat
  <2>4. QED
    BY <2>1, <2>2, <2>3, <1>1, <1>2, <1>3, <1>4 DEF Next, PrimaryStep
<1>5. CASE UNCHANGED vars
  BY <1>2, <1>5 DEF vars
<1>6. QED
  BY <1>4, <1>5

\* The refinement: every backup's log copies entries of the primary's log in the
\* primary's order, whatever breaks, is lost and is connected anew.
THEOREM ImplementsLogShippingCorrect == ReplicationSpec => ImplementsLogShipping
<1>1. Init => Shipping!Init
  BY DEF Init, Shipping!Init
<1>2. PlacesFit /\ InOrder /\ [Next]_vars
        => [Shipping!Next]_<<logged, [b \in Backup |-> backup[b].log]>>
  BY StepShips
<1>3. QED
  BY <1>1, <1>2, EntriesInOrder, PTL
     DEF ReplicationSpec, ImplementsLogShipping, Shipping!ShippingSpec

-----------------------------------------------------------------------------
(* A connection has no gaps.                                                 *)

\* The entries behind k up to n.
Span(k, n) == [i \in 1..(n - k) |-> k + i]

LEMMA SpanProperties ==
  ASSUME NEW k \in Int, NEW n \in Int, k <= n
  PROVE  /\ Span(k, n) \in Seq(Int) /\ Len(Span(k, n)) = n - k
         /\ \A i \in 1..(n - k) : Span(k, n)[i] = k + i
         /\ Span(k, k) = <<>>
<1>1. n - k \in Nat
  OBVIOUS
<1>2. \A i \in 1..(n - k) : k + i \in Int
  OBVIOUS
<1>3. Span(k, n) \in [1..(n - k) -> Int]
  BY <1>2 DEF Span
<1>4. Span(k, n) \in Seq(Int) /\ Len(Span(k, n)) = n - k
  <2> DEFINE s == Span(k, n)
             d == n - k
  <2>1. s \in [1..d -> Int] /\ d \in Nat
    BY <1>1, <1>3
  <2> HIDE DEF s, d
  <2>2. s \in Seq(Int)
    BY <2>1, SeqDef
  <2>3. 1..Len(s) = 1..d /\ Len(s) \in Nat
    BY <2>1, <2>2, LenProperties
  <2>4. Len(s) = d
    BY <2>1, <2>3
  <2>5. QED
    BY <2>2, <2>4 DEF s, d
<1>5. \A i \in 1..(n - k) : Span(k, n)[i] = k + i
  BY DEF Span
<1>6. Span(k, k) = <<>>
  BY DEF Span
<1>7. QED
  BY <1>4, <1>5, <1>6

\* The next entry goes behind.
LEMMA SpanNext ==
  ASSUME NEW k \in Int, NEW n \in Int, k <= n
  PROVE  Append(Span(k, n), n + 1) = Span(k, n + 1)
<1> DEFINE p == Span(k, n)
           q == Span(k, n + 1)
           r == Append(p, n + 1)
<1>1. p \in Seq(Int) /\ Len(p) = n - k /\ \A i \in 1..(n - k) : p[i] = k + i
  BY SpanProperties
<1>2. /\ q \in Seq(Int) /\ Len(q) = (n + 1) - k
      /\ \A i \in 1..((n + 1) - k) : q[i] = k + i
  BY SpanProperties
<1> HIDE DEF p, q
<1>3. /\ r \in Seq(Int) /\ Len(r) = Len(p) + 1
      /\ \A i \in 1..Len(p) : r[i] = p[i]
      /\ r[Len(p) + 1] = n + 1
  BY <1>1, AppendProperties
<1> HIDE DEF r
<1>4. Len(r) = Len(q)
  BY <1>1, <1>2, <1>3
<1>5. ASSUME NEW i \in 1..Len(r)
      PROVE  r[i] = q[i]
  <2>1. q[i] = k + i
    BY <1>2, <1>4
  <2>2. CASE i \in 1..Len(p)
    BY <2>1, <2>2, <1>1, <1>3
  <2>3. CASE i = Len(p) + 1
    BY <2>1, <2>3, <1>1, <1>3
  <2>4. QED
    BY <2>2, <2>3, <1>1, <1>3
<1>6. r = q
  BY <1>2, <1>3, <1>4, <1>5, SeqEqual
<1>7. QED
  BY <1>6 DEF p, q, r

\* Reading moves the first message from the inbox to the log.
LEMMA ReadOn ==
  ASSUME NEW S, NEW log \in Seq(S), NEW q \in Seq(S), q # <<>>,
         NEW from \in Nat, from <= Len(log)
  PROVE  SubSeq(Append(log, Head(q)), from + 1, Len(log) + 1) \o Tail(q)
           = SubSeq(log, from + 1, Len(log)) \o q
<1> DEFINE h == Head(q)
           t == Tail(q)
           l == Append(log, h)
           n == Len(log)
           p == SubSeq(log, from + 1, n)
<1>1. n \in Nat /\ from <= n
  BY LenProperties
<1>2. h \in S /\ t \in Seq(S) /\ q = <<h>> \o t
  <2>1. h \in S /\ t \in Seq(S)
    BY HeadTailProperties
  <2>2. 1 \in 1..Len(q) /\ Len(q) \in 1..Len(q)
    BY EmptySeq
  <2>3. SubSeq(q, 1, Len(q)) = <<q[1]>> \o SubSeq(q, 2, Len(q))
    BY <2>2, SubSeqRecursiveFirst
  <2>4. SubSeq(q, 1, Len(q)) = q /\ SubSeq(q, 2, Len(q)) = t
    BY SubSeqFull, TailIsSubSeq
  <2>5. q[1] = h
    OBVIOUS
  <2>6. QED
    BY <2>1, <2>3, <2>4, <2>5
<1> HIDE DEF h, t
<1>3. /\ l \in Seq(S) /\ Len(l) = n + 1
      /\ \A i \in 1..n : l[i] = log[i]
      /\ l[n + 1] = h
  BY <1>2, AppendProperties
<1> HIDE DEF l
<1>4. \A i \in (from + 1)..n : log[i] \in S /\ l[i] = log[i]
  BY <1>1, <1>3, ElementOfSeq
<1>5. p \in Seq(S) /\ SubSeq(l, from + 1, n) = p
  <2> DEFINE r == SubSeq(l, from + 1, n)
  <2>1. /\ p \in Seq(S)
        /\ Len(p) = IF from + 1 <= n THEN n - (from + 1) + 1 ELSE 0
        /\ \A i \in 1..(n - (from + 1) + 1) : p[i] = log[(from + 1) + i - 1]
    BY <1>1, <1>4, SubSeqProperties
  <2>2. /\ r \in Seq(S)
        /\ Len(r) = IF from + 1 <= n THEN n - (from + 1) + 1 ELSE 0
        /\ \A i \in 1..(n - (from + 1) + 1) : r[i] = l[(from + 1) + i - 1]
    BY <1>1, <1>4, SubSeqProperties
  <2> HIDE DEF p, r
  <2>3. ASSUME NEW i \in 1..Len(r)
        PROVE  r[i] = p[i]
    <3>1. i \in 1..(n - (from + 1) + 1) /\ (from + 1) + i - 1 \in (from + 1)..n
      BY <1>1, <2>2
    <3>2. QED
      BY <3>1, <2>1, <2>2, <1>4
  <2>4. r = p
    BY <2>1, <2>2, <2>3, SeqEqual
  <2>5. QED
    BY <2>1, <2>4 DEF r
<1>6. SubSeq(l, from + 1, n + 1) = p \o <<h>>
  <2>1. from + 1 \in 1..Len(l) /\ n + 1 \in (from + 1)..Len(l) /\ (n + 1) - 1 = n
    BY <1>1, <1>3
  <2>2. SubSeq(l, from + 1, n + 1)
          = SubSeq(l, from + 1, (n + 1) - 1) \o <<l[n + 1]>>
    BY <2>1, <1>3, SubSeqRecursiveSecond
  <2>3. QED
    BY <2>1, <2>2, <1>3, <1>5
<1> HIDE DEF p
<1>7. (p \o <<h>>) \o t = p \o (<<h>> \o t)
  <2>1. <<h>> \in Seq(S)
    BY <1>2
  <2>2. QED
    BY <2>1, <1>2, <1>5, ConcatAssociative
<1>8. QED
  BY <1>2, <1>6, <1>7 DEF h, t, l, p, n

\* A connection counts while it stands and ACK was, is or can be read first.
Scope(c, r) ==
  /\ c.link # "lost"
  /\ \/ r.pc = "streaming"
     \/ r.pc = "handshake" /\ c.inbox = <<>> /\ c.handler = "hello"
     \/ r.pc = "handshake" /\ c.inbox # <<>> /\ Head(c.inbox) = Ack

\* What connection c has carried for backup r, without ACK.
Carries(c, r) ==
  IF r.pc = "streaming" THEN SubSeq(r.log, r.from + 1, Len(r.log)) \o c.inbox
  ELSE IF c.inbox = <<>> THEN <<>> ELSE Tail(c.inbox)

\* Every entry up to t since it was made, or since the round before.
CarriesTo(c, r, t) ==
  \E k \in {c.since - 1, c.since} : k <= t /\ Carries(c, r) = Span(k, t)

\* The last entry that the broadcast loop has written to connection n.
SentTo(n) ==
  IF Broadcasting /\ n \in loop["broadcast"].todo THEN Taken - 1 ELSE Taken

\* Before ACK the primary has sent nothing.
HelloFits(c, r) ==
  Scope(c, r) /\ c.handler = "hello" => r.pc = "handshake" /\ c.inbox = <<>>

\* A writer that the iteration has not seen was added during the round.
NoGap(b) ==
  LET n == backup[b].conn
      c == conn[n]
      r == backup[b]
  IN  Reading(b) /\ Scope(c, r) =>
        /\ c.since <= Taken
        /\ loop["broadcast"].pc # "dead" => CarriesTo(c, r, SentTo(n))
        /\ Broadcasting /\ n \notin loop["broadcast"].members =>
             c.since = Taken /\ Carries(c, r) = <<>>
        /\ HelloFits(c, r)

GapFree == \A b \in Backup : NoGap(b)

\* The connection c and its backup r become d and s, and carry the same.
Follows(c, r, d, s) ==
  Scope(d, s) =>
    /\ Scope(c, r) /\ d.since = c.since /\ Carries(d, s) = Carries(c, r)
    /\ d.handler = "hello" =>
         c.handler = "hello" /\ s.pc = r.pc /\ d.inbox = c.inbox

\* A message is a sequence of its own.
LEMMA OneMessage ==
  ASSUME NEW m
  PROVE  /\ Append(<<>>, m) = <<m>> /\ <<m>> # <<>>
         /\ Head(<<m>>) = m /\ Tail(<<m>>) = <<>>
<1>1. Append(<<>>, m) = <<m>>
  OBVIOUS
<1>2. <<m>> # <<>> /\ Head(<<m>>) = m /\ Tail(<<m>>) = <<>>
  OBVIOUS
<1>3. QED
  BY <1>1, <1>2

LEMMA HeartbeatFollows ==
  ASSUME NEW c, NEW r, c.link \in {"open", "lost"}, HelloFits(c, r),
         NEW d, d.link = c.link, d.handler = c.handler, d.since = c.since,
         d.inbox = IF c.link = "open" THEN Received(c, HB) ELSE c.inbox
  PROVE  Follows(c, r, d, r)
<1> SUFFICES ASSUME Scope(d, r)
             PROVE  /\ Scope(c, r) /\ d.since = c.since
                    /\ Carries(d, r) = Carries(c, r)
                    /\ d.handler = "hello" =>
                         c.handler = "hello" /\ d.inbox = c.inbox
  BY DEF Follows
<1>1. c.link = "open"
  BY DEF Scope
<1>2. CASE d.inbox = c.inbox
  BY <1>2 DEF Scope, Carries
<1>3. CASE c.handler = "hello" /\ c.inbox = <<>>
  <2>1. d.inbox = <<HB>>
    BY <1>1, <1>3, OneMessage DEF Received
  <2>2. Head(d.inbox) # Ack /\ d.inbox # <<>>
    BY <2>1, OneMessage, MessageKinds
  <2>3. r.pc = "streaming"
    BY <2>2 DEF Scope
  <2>4. Scope(c, r)
    BY <2>3, <1>1 DEF Scope
  <2>5. QED
    BY <2>3, <2>4, <1>3 DEF HelloFits
<1>4. QED
  BY <1>1, <1>2, <1>3 DEF Received

LEMMA AcknowledgeFollows ==
  ASSUME NEW c, NEW r, c.link \in {"open", "lost"}, HelloFits(c, r),
         c.handler = "hello",
         NEW d, d.link = c.link, d.handler = "open", d.since = c.since,
         d.inbox = IF c.link = "open" THEN Received(c, Ack) ELSE c.inbox
  PROVE  Follows(c, r, d, r)
<1> SUFFICES ASSUME Scope(d, r)
             PROVE  /\ Scope(c, r) /\ Carries(d, r) = Carries(c, r)
  BY DEF Follows
<1>1. c.link = "open"
  BY DEF Scope
<1>2. r.pc # "streaming"
  BY <1>1 DEF Scope, HelloFits
<1>3. CASE c.inbox = <<>>
  <2>1. d.inbox = <<Ack>>
    BY <1>1, <1>3, OneMessage DEF Received
  <2>2. Tail(d.inbox) = <<>> /\ d.inbox # <<>>
    BY <2>1, OneMessage
  <2>3. QED
    BY <2>2, <1>1, <1>2, <1>3 DEF Scope, Carries
<1>4. CASE c.inbox # <<>>
  <2>1. d.inbox = c.inbox
    BY <1>1, <1>4 DEF Received
  <2>2. Scope(c, r)
    BY <2>1, <1>1, <1>2, <1>4 DEF Scope
  <2>3. QED
    BY <2>2, <1>4 DEF HelloFits
<1>5. QED
  BY <1>3, <1>4

LEMMA ReadAckFollows ==
  ASSUME NEW c, NEW r, HelloFits(c, r), r.pc = "handshake", c.inbox # <<>>,
         Head(c.inbox) = Ack, c.inbox \in Seq(Message), r.log \in Seq(Entry),
         NEW d, d.link = c.link, d.handler = c.handler, d.since = c.since,
         d.inbox = Tail(c.inbox),
         NEW s, s.pc = "streaming", s.from = Len(r.log), s.log = r.log
  PROVE  Follows(c, r, d, s)
<1> SUFFICES ASSUME Scope(d, s)
             PROVE  /\ Scope(c, r) /\ Carries(d, s) = Carries(c, r)
                    /\ d.handler # "hello"
  BY DEF Follows
<1>1. Scope(c, r)
  BY DEF Scope
<1>2. d.handler # "hello"
  BY <1>1 DEF HelloFits
<1>3. Carries(d, s) = Carries(c, r)
  <2>1. Len(r.log) \in Nat /\ Tail(c.inbox) \in Seq(Message)
    BY LenProperties, HeadTailProperties
  <2>2. SubSeq(r.log, Len(r.log) + 1, Len(r.log)) = <<>>
    BY <2>1, SubSeqEmpty
  <2>3. <<>> \o Tail(c.inbox) = Tail(c.inbox)
    BY <2>1, ConcatEmptySeq
  <2>4. QED
    BY <2>2, <2>3 DEF Carries
<1>4. QED
  BY <1>1, <1>2, <1>3

LEMMA ReadEntryFollows ==
  ASSUME NEW c, NEW r, HelloFits(c, r), r.pc = "streaming", c.inbox # <<>>,
         c.inbox \in Seq(Message), r.log \in Seq(Entry),
         r.from \in Nat, r.from <= Len(r.log), Head(c.inbox) \in Entry,
         NEW d, d.link = c.link, d.handler = c.handler, d.since = c.since,
         d.inbox = Tail(c.inbox),
         NEW s, s.pc = "streaming", s.from = r.from,
         s.log = Append(r.log, Head(c.inbox))
  PROVE  Follows(c, r, d, s)
<1> SUFFICES ASSUME Scope(d, s)
             PROVE  /\ Scope(c, r) /\ Carries(d, s) = Carries(c, r)
                    /\ d.handler # "hello"
  BY DEF Follows
<1>1. Scope(c, r)
  BY DEF Scope
<1>2. d.handler # "hello"
  BY <1>1 DEF HelloFits
<1>3. Carries(d, s) = Carries(c, r)
  <2> DEFINE q == c.inbox
             log == r.log
             from == r.from
  <2>1. r.log \in Seq(Message)
    BY SeqMonotonic, MessageKinds
  <2>2. Len(Append(log, Head(q))) = Len(log) + 1
    BY AppendProperties
  <2>3. SubSeq(Append(log, Head(q)), from + 1, Len(log) + 1) \o Tail(q)
          = SubSeq(log, from + 1, Len(log)) \o q
    <3>1. q \in Seq(Message) /\ q # <<>> /\ log \in Seq(Message)
          /\ from \in Nat /\ from <= Len(log)
      BY <2>1
    <3> HIDE DEF q, log, from
    <3>2. QED
      BY <3>1, ReadOn
  <2>4. QED
    BY <2>2, <2>3 DEF Carries
<1>4. QED
  BY <1>1, <1>2, <1>3

\* The broadcast loop writes the next entry.
LEMMA EntrySent ==
  ASSUME NEW c, NEW r, c.link \in {"open", "lost"}, HelloFits(c, r),
         NEW e \in Entry, c.inbox \in Seq(Message), r.log \in Seq(Entry),
         r.from \in Nat, r.from <= Len(r.log),
         NEW d, d.link = c.link, d.handler = c.handler, d.since = c.since,
         d.inbox = IF c.link = "open" THEN Received(c, e) ELSE c.inbox,
         Scope(d, r)
  PROVE  /\ Scope(c, r) /\ d.handler # "hello"
         /\ Carries(d, r) = Append(Carries(c, r), e)
<1>1. c.link = "open" /\ e # HB /\ e # Ack /\ e \in Message
  BY MessageKinds DEF Scope
<1>2. c.handler # "hello"
  <2> SUFFICES ASSUME c.handler = "hello" PROVE FALSE
    OBVIOUS
  <2>1. CASE c.inbox = <<>>
    <3>1. d.inbox = <<e>>
      BY <2>1, <1>1, OneMessage DEF Received
    <3>2. Head(d.inbox) # Ack /\ d.inbox # <<>>
      BY <3>1, <1>1, OneMessage
    <3>3. r.pc = "streaming"
      BY <3>2 DEF Scope
    <3>4. QED
      BY <3>3, <1>1 DEF Scope, HelloFits
  <2>2. CASE c.inbox # <<>>
    <3>1. d.inbox = c.inbox
      BY <2>2, <1>1 DEF Received
    <3>2. Scope(c, r)
      BY <3>1, <1>1 DEF Scope
    <3>3. QED
      BY <3>2, <2>2 DEF HelloFits
  <2>3. QED
    BY <2>1, <2>2
<1>3. d.inbox = Append(c.inbox, e)
  BY <1>1, <1>2 DEF Received
<1>4. CASE r.pc = "streaming"
  <2> DEFINE p == SubSeq(r.log, r.from + 1, Len(r.log))
             q == c.inbox
  <2>1. p \in Seq(Message)
    <3>1. r.log \in Seq(Message) /\ Len(r.log) \in Nat
      BY SeqMonotonic, MessageKinds, LenProperties
    <3>2. \A i \in (r.from + 1)..Len(r.log) : r.log[i] \in Message
      BY <3>1, ElementOfSeq
    <3>3. QED
      BY <3>1, <3>2, SubSeqProperties
  <2>2. p \o Append(q, e) = Append(p \o q, e)
    <3>1. q \in Seq(Message) /\ p \in Seq(Message) /\ <<e>> \in Seq(Message)
      BY <2>1, <1>1
    <3> HIDE DEF p, q
    <3>2. p \o q \in Seq(Message)
      BY <3>1, ConcatProperties
    <3>3. /\ Append(q, e) = q \o <<e>>
          /\ Append(p \o q, e) = (p \o q) \o <<e>>
      BY <3>1, <3>2, <1>1, AppendIsConcat
    <3>4. (p \o q) \o <<e>> = p \o (q \o <<e>>)
      BY <3>1, ConcatAssociative
    <3>5. QED
      BY <3>3, <3>4
  <2>3. QED
    BY <2>2, <1>1, <1>2, <1>3, <1>4 DEF Carries, Scope
<1>5. CASE r.pc # "streaming"
  <2>1. /\ Head(Append(c.inbox, e)) = IF c.inbox = <<>> THEN e ELSE Head(c.inbox)
        /\ Tail(Append(c.inbox, e)) =
             IF c.inbox = <<>> THEN <<>> ELSE Append(Tail(c.inbox), e)
    BY HeadTailAppend
  <2>2. r.pc = "handshake" /\ d.inbox # <<>> /\ Head(d.inbox) = Ack
    BY <1>2, <1>5 DEF Scope
  <2>3. c.inbox # <<>>
    BY <2>1, <2>2, <1>1, <1>3
  <2>4. QED
    BY <2>1, <2>2, <2>3, <1>1, <1>2, <1>3 DEF Scope, Carries
<1>6. QED
  BY <1>4, <1>5

\* A reader that goes on as it was, or follows, while the broadcast loop stands.
LEMMA FollowsKeepsNoGap ==
  ASSUME NEW b \in Backup, NoGap(b), Reading(b),
         backup'[b].conn = backup[b].conn,
         Follows(conn[backup[b].conn], backup[b],
                 conn'[backup[b].conn], backup'[b]),
         loop'["broadcast"] = loop["broadcast"], UNCHANGED <<logged, queue>>
  PROVE  NoGap(b)'
<1> DEFINE n == backup[b].conn
           c == conn[n]
           r == backup[b]
           d == conn'[n]
           s == backup'[b]
<1> SUFFICES ASSUME Scope(d, s)
             PROVE  /\ d.since <= Taken'
                    /\ loop'["broadcast"].pc # "dead" => CarriesTo(d, s, SentTo(n)')
                    /\ Broadcasting' /\ n \notin loop'["broadcast"].members =>
                         d.since = Taken' /\ Carries(d, s) = <<>>
                    /\ HelloFits(d, s)
  BY DEF NoGap
<1>1. /\ Scope(c, r) /\ d.since = c.since /\ Carries(d, s) = Carries(c, r)
      /\ d.handler = "hello" =>
           c.handler = "hello" /\ s.pc = r.pc /\ d.inbox = c.inbox
  BY DEF Follows
<1>2. Taken' = Taken /\ (Broadcasting' <=> Broadcasting)
  BY DEF Taken, Broadcasting
<1>3. SentTo(n)' = SentTo(n)
  BY <1>2 DEF SentTo
<1>4. /\ c.since <= Taken
      /\ loop["broadcast"].pc # "dead" => CarriesTo(c, r, SentTo(n))
      /\ Broadcasting /\ n \notin loop["broadcast"].members =>
           c.since = Taken /\ Carries(c, r) = <<>>
      /\ HelloFits(c, r)
  BY <1>1 DEF NoGap
<1> HIDE DEF n, c, r, d, s
<1>5. CarriesTo(c, r, SentTo(n)) => CarriesTo(d, s, SentTo(n)')
  BY <1>1, <1>3 DEF CarriesTo
<1>6. HelloFits(d, s)
  BY <1>1, <1>4 DEF HelloFits
<1>7. QED
  BY <1>1, <1>2, <1>4, <1>5, <1>6

LEMMA SameFollows ==
  ASSUME NEW c, NEW r
  PROVE  Follows(c, r, c, r)
BY DEF Follows

\* Neither connections nor backups change.
LEMMA QuietKeepsNoGap ==
  ASSUME GapFree, UNCHANGED <<conn, backup, logged, queue>>,
         loop'["broadcast"] = loop["broadcast"]
  PROVE  GapFree'
<1>1. Taken' = Taken /\ (Broadcasting' <=> Broadcasting)
  BY DEF Taken, Broadcasting
<1>2. ASSUME NEW b \in Backup
      PROVE  NoGap(b)'
  <2>1. NoGap(b) /\ (Reading(b)' <=> Reading(b))
    BY DEF GapFree, Reading
  <2>2. CASE Reading(b)
    BY <2>1, <2>2, SameFollows, FollowsKeepsNoGap
  <2>3. CASE ~Reading(b)
    BY <2>1, <2>3 DEF NoGap
  <2>4. QED
    BY <2>2, <2>3
<1>3. QED
  BY <1>2 DEF GapFree

\* One connection changes, and its reader follows.
LEMMA ConnStepKeepsNoGap ==
  ASSUME PlacesFit, GapFree, NEW n \in DOMAIN conn, OthersStay(n),
         \A b \in Backup : Reading(b) /\ backup[b].conn = n =>
           Follows(conn[n], backup[b], conn'[n], backup[b]),
         UNCHANGED <<backup, logged, queue>>,
         loop'["broadcast"] = loop["broadcast"]
  PROVE  GapFree'
<1>1. ASSUME NEW b \in Backup
      PROVE  NoGap(b)'
  <2>1. NoGap(b) /\ (Reading(b)' <=> Reading(b))
    BY DEF GapFree, Reading
  <2>2. CASE Reading(b) /\ backup[b].conn = n
    BY <2>1, <2>2, FollowsKeepsNoGap
  <2>3. CASE Reading(b) /\ backup[b].conn # n
    <3>1. conn'[backup[b].conn] = conn[backup[b].conn]
      BY <2>3, ReaderMeaning DEF OthersStay
    <3>2. QED
      BY <3>1, <2>1, <2>3, SameFollows, FollowsKeepsNoGap
  <2>4. CASE ~Reading(b)
    BY <2>1, <2>4 DEF NoGap
  <2>5. QED
    BY <2>2, <2>3, <2>4
<1>2. QED
  BY <1>1 DEF GapFree

\* A backup reads from its connection, or leaves it.
LEMMA BackupStepKeepsNoGap ==
  ASSUME PlacesFit, GapFree, NEW b \in Backup, Reading(b), NEW n \in DOMAIN conn,
         n = backup[b].conn, OthersStay(n),
         \A a \in Backup : a # b => backup'[a] = backup[a],
         Reading(b)' => /\ backup'[b].conn = n
                        /\ Follows(conn[n], backup[b], conn'[n], backup'[b]),
         UNCHANGED <<logged, queue, loop>>
  PROVE  GapFree'
<1>1. loop'["broadcast"] = loop["broadcast"]
  OBVIOUS
<1>2. ASSUME NEW a \in Backup, Reading(a)'
      PROVE  NoGap(a)'
  <2>1. NoGap(a)
    BY DEF GapFree
  <2>2. CASE a = b
    BY <2>1, <2>2, <1>1, <1>2, FollowsKeepsNoGap
  <2>3. CASE a # b
    <3>1. Reading(a) /\ backup'[a] = backup[a]
      BY <2>3, <1>2 DEF Reading
    <3>2. backup[a].conn # n /\ backup[a].conn \in DOMAIN conn
      BY <3>1, <2>3 DEF PlacesFit, ReadersFit
    <3>3. conn'[backup[a].conn] = conn[backup[a].conn]
      BY <3>2 DEF OthersStay
    <3>4. QED
      BY <3>1, <3>3, <2>1, <1>1, SameFollows, FollowsKeepsNoGap
  <2>4. QED
    BY <2>2, <2>3
<1>3. QED
  BY <1>2 DEF GapFree, NoGap

\* The record of a reader and of its connection.
LEMMA ReaderFields ==
  ASSUME PlacesFit, GapFree, NEW b \in Backup, Reading(b)
  PROVE  LET c == conn[backup[b].conn]
             r == backup[b] IN
         /\ backup[b].conn \in DOMAIN conn
         /\ c.link \in {"open", "lost"} /\ c.inbox \in Seq(Message)
         /\ c.inbox = Inbox(b)
         /\ r.log \in Seq(Entry) /\ r.from \in Nat /\ r.from <= Len(r.log)
         /\ HelloFits(c, r)
<1> DEFINE c == conn[backup[b].conn]
           r == backup[b]
<1>1. /\ backup[b].conn \in DOMAIN conn /\ c.link \in {"open", "lost"}
      /\ Inbox(b) = c.inbox /\ Inbox(b) \in Seq(Message)
      /\ r \in BackupType /\ r.from <= Len(r.log)
  BY ReaderMeaning
<1>2. r.log \in Seq(Entry) /\ r.from \in Nat
  BY <1>1, BackupFields
<1>3. HelloFits(c, r)
  <2>1. NoGap(b)
    BY DEF GapFree
  <2>2. CASE Scope(c, r)
    BY <2>1, <2>2 DEF NoGap
  <2>3. CASE ~Scope(c, r)
    BY <2>3 DEF HelloFits
  <2>4. QED
    BY <2>2, <2>3
<1>4. QED
  BY <1>1, <1>2, <1>3

\* A connection that is lost counts no more.
LEMMA LostFollows ==
  ASSUME NEW c, NEW r, NEW d, NEW s, d.link = "lost"
  PROVE  Follows(c, r, d, s)
BY DEF Follows, Scope

LEMMA AcknowledgeKeepsNoGap ==
  ASSUME PlacesFit, GapFree, NEW n \in DOMAIN conn, Acknowledge(n)
  PROVE  GapFree'
<1>1. Becomes(n, conn[n].link, "open", InboxAfter(n, Ack), conn[n].since)
  BY AcknowledgeBecomes DEF PlacesFit
<1>2. /\ OthersStay(n)
      /\ conn'[n].link = conn[n].link /\ conn'[n].handler = "open"
      /\ conn'[n].since = conn[n].since
      /\ conn'[n].inbox = IF conn[n].link = "open" THEN Received(conn[n], Ack)
                          ELSE conn[n].inbox
  BY <1>1 DEF Becomes, InboxAfter
<1>3. conn[n].handler = "hello" /\ UNCHANGED <<backup, logged, queue, loop>>
  BY DEF Acknowledge
<1>4. ASSUME NEW b \in Backup, Reading(b), backup[b].conn = n
      PROVE  Follows(conn[n], backup[b], conn'[n], backup[b])
  <2> DEFINE c == conn[n]
             d == conn'[n]
             r == backup[b]
  <2>1. c.link \in {"open", "lost"} /\ HelloFits(c, r)
    BY <1>4, ReaderFields
  <2>2. /\ d.link = c.link /\ d.handler = "open" /\ d.since = c.since
        /\ d.inbox = IF c.link = "open" THEN Received(c, Ack) ELSE c.inbox
        /\ c.handler = "hello"
    BY <1>2, <1>3
  <2> HIDE DEF c, d, r
  <2>3. Follows(c, r, d, r)
    BY <2>1, <2>2, AcknowledgeFollows
  <2>4. QED
    BY <2>3 DEF c, d, r
<1>5. QED
  BY <1>2, <1>3, <1>4, ConnStepKeepsNoGap

LEMMA LosingKeepsNoGap ==
  ASSUME PlacesFit, GapFree, NEW n \in DOMAIN conn, HandlerFails(n) \/ Lose(n)
  PROVE  GapFree'
<1>1. \E handler, inbox, since : Becomes(n, "lost", handler, inbox, since)
  BY HandlerFailsBecomes, LoseBecomes DEF PlacesFit
<1>2. OthersStay(n) /\ conn'[n].link = "lost"
  BY <1>1 DEF Becomes
<1>3. UNCHANGED <<backup, logged, queue, loop>>
  BY DEF HandlerFails, Lose
<1>4. \A b \in Backup : Follows(conn[n], backup[b], conn'[n], backup[b])
  BY <1>2, LostFollows
<1>5. QED
  BY <1>2, <1>3, <1>4, ConnStepKeepsNoGap

LEMMA ReadAckKeepsNoGap ==
  ASSUME PlacesFit, GapFree, NEW b \in Backup, ReadAck(b)
  PROVE  GapFree'
<1> DEFINE n == backup[b].conn
           c == conn[n]
           r == backup[b]
           d == conn'[n]
           s == backup'[b]
<1>1. /\ Reading(b) /\ n \in DOMAIN conn
      /\ Becomes(n, c.link, c.handler, Tail(Inbox(b)), c.since)
      /\ BackupBecomes(b, "streaming", n, Len(r.log), r.log)
      /\ UNCHANGED <<logged, queue, loop>>
  BY ReadAckMeaning
<1>2. c.inbox = Inbox(b) /\ c.inbox \in Seq(Message) /\ r.log \in Seq(Entry)
      /\ HelloFits(c, r)
  BY <1>1, ReaderFields
<1>3. /\ d.link = c.link /\ d.handler = c.handler /\ d.since = c.since
      /\ d.inbox = Tail(c.inbox) /\ OthersStay(n)
  BY <1>1, <1>2 DEF Becomes
<1>4. /\ s.pc = "streaming" /\ s.conn = n /\ s.from = Len(r.log) /\ s.log = r.log
      /\ \A a \in Backup : a # b => backup'[a] = backup[a]
  BY <1>1 DEF BackupBecomes
<1>5. r.pc = "handshake" /\ c.inbox # <<>> /\ Head(c.inbox) = Ack
  BY <1>2 DEF ReadAck
<1>6. Follows(c, r, d, s)
  <2> HIDE DEF n, c, r, d, s
  <2>1. QED
    BY <1>2, <1>3, <1>4, <1>5, ReadAckFollows
<1>7. QED
  BY <1>1, <1>3, <1>4, <1>6, BackupStepKeepsNoGap

LEMMA ReadEntryKeepsNoGap ==
  ASSUME PlacesFit, GapFree, NEW b \in Backup, ReadEntry(b)
  PROVE  GapFree'
<1> DEFINE n == backup[b].conn
           c == conn[n]
           r == backup[b]
           d == conn'[n]
           s == backup'[b]
<1>1. /\ Reading(b) /\ n \in DOMAIN conn /\ Inbox(b) # <<>>
      /\ Head(Inbox(b)) \in Entry
      /\ Becomes(n, c.link, c.handler, Tail(Inbox(b)), c.since)
      /\ BackupBecomes(b, "streaming", n, r.from, Append(r.log, Head(Inbox(b))))
      /\ UNCHANGED <<logged, queue, loop>>
  BY ReadEntryMeaning
<1>2. c.inbox = Inbox(b) /\ c.inbox \in Seq(Message) /\ r.log \in Seq(Entry)
      /\ r.from \in Nat /\ r.from <= Len(r.log) /\ HelloFits(c, r)
  BY <1>1, ReaderFields
<1>3. /\ d.link = c.link /\ d.handler = c.handler /\ d.since = c.since
      /\ d.inbox = Tail(c.inbox) /\ OthersStay(n)
  BY <1>1, <1>2 DEF Becomes
<1>4. /\ s.pc = "streaming" /\ s.conn = n /\ s.from = r.from
      /\ s.log = Append(r.log, Head(c.inbox))
      /\ \A a \in Backup : a # b => backup'[a] = backup[a]
  BY <1>1, <1>2 DEF BackupBecomes
<1>5. r.pc = "streaming" /\ c.inbox # <<>> /\ Head(c.inbox) \in Entry
  BY <1>1, <1>2 DEF ReadEntry
<1>6. Follows(c, r, d, s)
  <2> HIDE DEF n, c, r, d, s
  <2>1. QED
    BY <1>2, <1>3, <1>4, <1>5, ReadEntryFollows
<1>7. QED
  BY <1>1, <1>3, <1>4, <1>6, BackupStepKeepsNoGap

LEMMA LeavingKeepsNoGap ==
  ASSUME PlacesFit, GapFree, NEW b \in Backup,
         BadAck(b) \/ NoticeLoss(b) \/ ReadRaisingEntry(b)
  PROVE  GapFree'
<1> DEFINE n == backup[b].conn
<1>1. /\ Reading(b) /\ UNCHANGED <<logged, queue, loop>>
      /\ \E link \in {"leaked", "lost"} : Left(b, link)
      /\ \E log : BackupBecomes(b, "connecting", 0, 0, log)
  <2>1. CASE BadAck(b) \/ NoticeLoss(b)
    BY <2>1, GivesUpMeaning DEF BadAck, NoticeLoss
  <2>2. CASE ReadRaisingEntry(b)
    BY <2>2, RaisingMeaning DEF ReadRaisingEntry
  <2>3. QED
    BY <2>1, <2>2
<1>2. n \in DOMAIN conn
  BY <1>1, ReaderMeaning
<1>3. OthersStay(n)
  <2>1. PICK link \in {"leaked", "lost"} : Left(b, link)
    BY <1>1
  <2>2. Becomes(n, link, conn[n].handler, <<>>, 0)
    BY <2>1, <1>2, LeftBecomes DEF PlacesFit
  <2>3. QED
    BY <2>2 DEF Becomes
<1>4. backup'[b].pc = "connecting" /\ \A a \in Backup : a # b => backup'[a] = backup[a]
  BY <1>1 DEF BackupBecomes
<1>5. ~Reading(b)'
  BY <1>4 DEF Reading
<1>6. QED
  BY <1>1, <1>2, <1>3, <1>4, <1>5, BackupStepKeepsNoGap

LEMMA ConnectKeepsNoGap ==
  ASSUME PlacesFit, GapFree, NEW b \in Backup, Connect(b)
  PROVE  GapFree'
<1>1. ReplicationTypeOK /\ Taken \in Nat
  BY QueueMeaning DEF PlacesFit
<1>2. PICK n \in Conn :
      /\ n = Len(conn) + 1 /\ n \notin DOMAIN conn
      /\ \A m \in DOMAIN conn : conn'[m] = conn[m]
      /\ conn'[n].link = "open" /\ conn'[n].handler = "hello"
      /\ conn'[n].inbox = <<>> /\ conn'[n].since = Taken
  BY <1>1, ConnectMeaning
<1>3. backup' = [backup EXCEPT ![b].pc = "handshake", ![b].conn = n]
      /\ UNCHANGED <<logged, queue, loop>>
  BY <1>2 DEF Connect
<1>4. BackupBecomes(b, "handshake", n, backup[b].from, backup[b].log)
  BY <1>1, <1>2, <1>3, TypesTogether, ConnectsBecomes
<1>5. /\ \A a \in Backup : a # b => backup'[a] = backup[a]
      /\ backup'[b].conn = n /\ backup'[b].pc = "handshake"
  BY <1>4 DEF BackupBecomes
<1>6. Taken' = Taken
  BY <1>3 DEF Taken
<1>7. NoGap(b)'
  <2> DEFINE d == conn'[n]
             s == backup'[b]
  <2>1. Carries(d, s) = <<>> /\ HelloFits(d, s)
    BY <1>2, <1>5 DEF Carries, HelloFits
  <2>2. SentTo(n)' = Taken
    <3>1. n \notin loop["broadcast"].todo
      BY <1>2, LoopMeaning DEF Loop
    <3>2. loop' = loop
      BY <1>3
    <3>3. QED
      BY <3>1, <3>2, <1>6 DEF SentTo
  <2>3. Span(Taken, Taken) = <<>>
    BY <1>1, SpanProperties
  <2>4. CarriesTo(d, s, Taken)
    BY <2>1, <2>3, <1>1, <1>2 DEF CarriesTo
  <2>5. d.since <= Taken /\ d.since = Taken
    BY <1>1, <1>2
  <2>6. QED
    BY <2>1, <2>2, <2>4, <2>5, <1>5, <1>6 DEF NoGap
<1>8. ASSUME NEW a \in Backup, a # b, Reading(a)'
      PROVE  NoGap(a)'
  <2>1. Reading(a) /\ backup'[a] = backup[a] /\ NoGap(a)
    BY <1>5, <1>8 DEF Reading, GapFree
  <2>2. conn'[backup[a].conn] = conn[backup[a].conn]
    BY <2>1, <1>2, ReaderMeaning
  <2>3. QED
    BY <2>1, <2>2, <1>3, SameFollows, FollowsKeepsNoGap
<1>9. QED
  BY <1>7, <1>8 DEF GapFree, NoGap

\* The broadcast loop moves on, and sends reader b nothing.
LEMMA MovingKeepsNoGap ==
  ASSUME PlacesFit, NEW b \in Backup, NoGap(b), Reading(b),
         NEW n \in DOMAIN conn, n = backup[b].conn,
         conn'[n] = conn[n], backup'[b] = backup[b], UNCHANGED <<logged, queue>>,
         NEW bc, bc = loop["broadcast"], NEW next, next = loop'["broadcast"],
         next.pc # "dead" /\ Live(b) =>
           /\ bc.pc # "dead"
           /\ \/ next.pc \in {"running", "suspended"} /\ n \in next.todo
                 <=> Broadcasting /\ n \in bc.todo
              \/ Broadcasting /\ n \notin bc.members
           /\ next.pc \in {"running", "suspended"} /\ n \notin next.members =>
                Broadcasting /\ n \notin bc.members
  PROVE  NoGap(b)'
<1> DEFINE c == conn[n]
           r == backup[b]
<1>1. /\ Taken' = Taken /\ Taken \in Nat
      /\ Broadcasting' <=> next.pc \in {"running", "suspended"}
  BY QueueMeaning DEF Taken, Broadcasting
<1>2. Scope(c, r) => Live(b)
  BY DEF Scope, Live, Lost
<1>3. SentTo(n)' = IF next.pc \in {"running", "suspended"} /\ n \in next.todo
                   THEN Taken - 1 ELSE Taken
  BY <1>1 DEF SentTo
<1>4. ASSUME Scope(c, r)
      PROVE  /\ c.since <= Taken
             /\ next.pc # "dead" => CarriesTo(c, r, SentTo(n)')
             /\ next.pc \in {"running", "suspended"} /\ n \notin next.members =>
                  c.since = Taken /\ Carries(c, r) = <<>>
             /\ HelloFits(c, r)
  <2>1. /\ c.since <= Taken
        /\ bc.pc # "dead" => CarriesTo(c, r, SentTo(n))
        /\ Broadcasting /\ n \notin bc.members =>
             c.since = Taken /\ Carries(c, r) = <<>>
        /\ HelloFits(c, r)
    BY <1>4 DEF NoGap
  <2>2. ASSUME next.pc # "dead"
        PROVE  CarriesTo(c, r, SentTo(n)')
    <3>1. CASE SentTo(n)' = SentTo(n)
      BY <3>1, <2>1, <2>2, <1>2, <1>4
    <3>2. CASE Broadcasting /\ n \notin bc.members
      <4>1. c.since = Taken /\ Carries(c, r) = <<>>
        BY <3>2, <2>1
      <4>2. /\ Span(Taken, Taken) = <<>> /\ Span(Taken - 1, Taken - 1) = <<>>
            /\ Taken - 1 <= Taken - 1 /\ Taken <= Taken
        <5>1. \A t \in Int : Span(t, t) = <<>> /\ t <= t
          BY SpanProperties
        <5>2. Taken \in Int /\ Taken - 1 \in Int
          BY <1>1
        <5>3. QED
          BY <5>1, <5>2
      <4>3. CarriesTo(c, r, Taken) /\ CarriesTo(c, r, Taken - 1)
        BY <4>1, <4>2 DEF CarriesTo
      <4>4. QED
        BY <4>3, <1>3
    <3>3. CASE next.pc \in {"running", "suspended"} /\ n \in next.todo
                 <=> Broadcasting /\ n \in bc.todo
      BY <3>1, <3>3, <1>3 DEF SentTo
    <3>4. QED
      BY <3>2, <3>3, <2>2, <1>2, <1>4
  <2>3. next.pc \in {"running", "suspended"} /\ n \notin next.members =>
          c.since = Taken /\ Carries(c, r) = <<>>
    <3>1. next.pc \in {"running", "suspended"} => next.pc # "dead"
      OBVIOUS
    <3>2. QED
      BY <3>1, <2>1, <1>2, <1>4
  <2>4. QED
    BY <2>1, <2>2, <2>3
<1>5. backup'[b].conn = n /\ conn'[n] = c /\ backup'[b] = r
  OBVIOUS
<1> HIDE DEF c, r
<1>6. QED
  BY <1>1, <1>4, <1>5 DEF NoGap

\* The broadcast loop writes its entry to reader b.
LEMMA SendingKeepsNoGap ==
  ASSUME PlacesFit, GapFree, NEW b \in Backup, Reading(b),
         NEW n \in DOMAIN conn, n = backup[b].conn,
         loop["broadcast"].pc = "running", n \in loop["broadcast"].todo,
         NEW d, d = conn'[n],
         d.link = conn[n].link, d.handler = conn[n].handler,
         d.inbox = InboxAfter(n, loop["broadcast"].msg), d.since = conn[n].since,
         backup'[b] = backup[b], UNCHANGED <<logged, queue>>,
         NEW next, next = loop'["broadcast"],
         next.pc \in {"running", "suspended"},
         next.members = loop["broadcast"].members, n \notin next.todo
  PROVE  NoGap(b)'
<1> DEFINE c == conn[n]
           r == backup[b]
           e == loop["broadcast"].msg
<1>1. Broadcasting /\ Taken' = Taken /\ Taken \in Nat /\ SentTo(n)' = Taken
      /\ SentTo(n) = Taken - 1
  BY QueueMeaning DEF Taken, Broadcasting, SentTo
<1>2. e = Taken /\ e \in Entry
  <2>1. e = Taken /\ e \in Message
    BY <1>1, LoopMeaning DEF PlacesFit, QueueFits, Loop
  <2>2. e # Ack /\ e # HB
    BY <2>1, <1>1, ReplicationAssumption
  <2>3. QED
    BY <2>1, <2>2, MessageKinds
<1>3. n \in loop["broadcast"].members
  BY LoopMeaning DEF Loop
<1>4. /\ c.link \in {"open", "lost"} /\ HelloFits(c, r) /\ c.inbox \in Seq(Message)
      /\ r.log \in Seq(Entry) /\ r.from \in Nat /\ r.from <= Len(r.log)
      /\ c \in ConnType
  BY ReaderFields, Types DEF PlacesFit
<1>5. d.inbox = IF c.link = "open" THEN Received(c, e) ELSE c.inbox
  BY DEF InboxAfter
<1>6. d.link = c.link /\ d.handler = c.handler /\ d.since = c.since
  OBVIOUS
<1>7. NoGap(b)
  BY DEF GapFree
<1>8. ASSUME Scope(d, r)
      PROVE  /\ d.since <= Taken /\ CarriesTo(d, r, Taken) /\ HelloFits(d, r)
  <2>1. Scope(c, r) /\ d.handler # "hello" /\ Carries(d, r) = Append(Carries(c, r), e)
    <3> HIDE DEF c, r, e
    <3>1. QED
      BY <1>2, <1>4, <1>5, <1>6, <1>8, EntrySent
  <2>2. c.since <= Taken /\ CarriesTo(c, r, Taken - 1)
    BY <2>1, <1>1, <1>7 DEF NoGap, Broadcasting
  <2>3. c.since \in Nat
    <3>1. c.since \in 0..MaxEntries
      BY <1>4, ConnFields
    <3>2. QED
      BY <3>1, ReplicationAssumption
  <2> HIDE DEF c, r, e
  <2>4. PICK k \in {c.since - 1, c.since} :
          k <= Taken - 1 /\ Carries(c, r) = Span(k, Taken - 1)
    BY <2>2 DEF CarriesTo
  <2>5. Append(Span(k, Taken - 1), (Taken - 1) + 1) = Span(k, (Taken - 1) + 1)
    <3>1. k \in Int /\ Taken - 1 \in Int
      BY <2>3, <2>4, <1>1
    <3>2. QED
      BY <3>1, <2>4, SpanNext
  <2>6. (Taken - 1) + 1 = Taken /\ k <= Taken
    BY <2>3, <2>4, <1>1
  <2>7. Carries(d, r) = Span(k, Taken)
    BY <2>1, <2>4, <2>5, <2>6, <1>2
  <2>8. CarriesTo(d, r, Taken)
    BY <2>4, <2>6, <2>7, <1>6 DEF CarriesTo
  <2>9. QED
    BY <2>1, <2>2, <2>8, <1>6 DEF HelloFits
<1>9. backup'[b].conn = n /\ conn'[n] = d /\ backup'[b] = r
  OBVIOUS
<1> HIDE DEF c, r
<1>10. QED
  BY <1>1, <1>3, <1>8, <1>9 DEF NoGap

\* A backup that reads is not touched by what loop l does to connection n,
\* unless it reads from n.
LEMMA WriteKeepsNoGap ==
  ASSUME PlacesFit, GapFree, NEW l \in Loop, NEW n \in DOMAIN conn,
         loop[l].pc = "running", n \in loop[l].todo,
         conn' = [conn EXCEPT ![n] = Sent(@, loop[l].msg)],
         NEW pc \in {"running", "suspended"}, NEW at,
         LoopBecomes(l, pc, loop[l].msg, loop[l].members, loop[l].todo \ {n}, at,
                     loop[l].dead),
         UNCHANGED <<backup, logged, queue>>
  PROVE  GapFree'
<1>1. /\ OthersStay(n) /\ conn'[n].link = conn[n].link
      /\ conn'[n].handler = conn[n].handler /\ conn'[n].since = conn[n].since
      /\ conn'[n].inbox = InboxAfter(n, loop[l].msg)
  <2>1. Becomes(n, conn[n].link, conn[n].handler, InboxAfter(n, loop[l].msg),
                conn[n].since)
    BY WriteMeaning
  <2>2. QED
    BY <2>1 DEF Becomes
<1>2. /\ \A k \in Loop : k # l => loop'[k] = loop[k]
      /\ loop'[l].pc = pc /\ loop'[l].members = loop[l].members
      /\ loop'[l].todo = loop[l].todo \ {n}
  BY DEF LoopBecomes
<1>3. CASE l = "heartbeat"
  <2>1. loop'["broadcast"] = loop["broadcast"] /\ loop[l].msg = HB
    BY <1>2, <1>3, LoopMeaning DEF Loop
  <2>2. ASSUME NEW b \in Backup, Reading(b), backup[b].conn = n
        PROVE  Follows(conn[n], backup[b], conn'[n], backup[b])
    <3> DEFINE c == conn[n]
               d == conn'[n]
               r == backup[b]
    <3>1. c.link \in {"open", "lost"} /\ HelloFits(c, r)
      BY <2>2, ReaderFields
    <3>2. /\ d.link = c.link /\ d.handler = c.handler /\ d.since = c.since
          /\ d.inbox = IF c.link = "open" THEN Received(c, HB) ELSE c.inbox
      BY <1>1, <2>1 DEF InboxAfter
    <3> HIDE DEF c, d, r
    <3>3. Follows(c, r, d, r)
      BY <3>1, <3>2, HeartbeatFollows
    <3>4. QED
      BY <3>3 DEF c, d, r
  <2>3. QED
    BY <2>1, <2>2, <1>1, ConnStepKeepsNoGap
<1>4. CASE l = "broadcast"
  <2>1. ASSUME NEW b \in Backup
        PROVE  NoGap(b)'
    <3>1. NoGap(b) /\ (Reading(b)' <=> Reading(b)) /\ backup'[b] = backup[b]
      BY DEF GapFree, Reading
    <3>2. CASE Reading(b) /\ backup[b].conn = n
      <4>1. n \notin loop'["broadcast"].todo
        BY <1>2, <1>4
      <4>2. QED
        BY <4>1, <3>1, <3>2, <1>1, <1>2, <1>4, SendingKeepsNoGap
    <3>3. CASE Reading(b) /\ backup[b].conn # n
      <4>1. PICK m \in DOMAIN conn : m = backup[b].conn /\ m # n
        BY <3>3, ReaderMeaning
      <4>2. conn'[m] = conn[m]
        BY <4>1, <1>1 DEF OthersStay
      <4>3. PICK bc : bc = loop["broadcast"]
        OBVIOUS
      <4>4. PICK next : next = loop'["broadcast"]
        OBVIOUS
      <4>5. /\ bc.pc # "dead" /\ Broadcasting
            /\ next.pc \in {"running", "suspended"}
            /\ m \in next.todo <=> m \in bc.todo
            /\ next.members = bc.members
        BY <4>1, <4>3, <4>4, <1>2, <1>4 DEF Broadcasting
      <4>6. QED
        BY <4>1, <4>2, <4>3, <4>4, <4>5, <3>1, <3>3, MovingKeepsNoGap
    <3>4. CASE ~Reading(b)
      BY <3>1, <3>4 DEF NoGap
    <3>5. QED
      BY <3>2, <3>3, <3>4
  <2>2. QED
    BY <2>1 DEF GapFree
<1>5. QED
  BY <1>3, <1>4 DEF Loop

\* Steps of the broadcast loop that write nothing.
LEMMA SilentKeepsNoGap ==
  ASSUME PlacesFit, GapFree, UNCHANGED <<conn, backup, logged, queue>>,
         NEW bc, bc = loop["broadcast"], NEW next, next = loop'["broadcast"],
         \A n \in DOMAIN conn : next.pc # "dead" /\ ~Lost(n) /\ n \in writers =>
           /\ bc.pc # "dead"
           /\ \/ next.pc \in {"running", "suspended"} /\ n \in next.todo
                 <=> Broadcasting /\ n \in bc.todo
              \/ Broadcasting /\ n \notin bc.members
           /\ next.pc \in {"running", "suspended"} /\ n \notin next.members =>
                Broadcasting /\ n \notin bc.members
  PROVE  GapFree'
<1>1. ASSUME NEW b \in Backup
      PROVE  NoGap(b)'
  <2>1. NoGap(b) /\ (Reading(b)' <=> Reading(b)) /\ backup'[b] = backup[b]
    BY DEF GapFree, Reading
  <2>2. CASE Reading(b)
    <3>1. PICK n \in DOMAIN conn : n = backup[b].conn
      BY <2>2, ReaderMeaning
    <3>2. Live(b) => ~Lost(n) /\ n \in writers
      BY <3>1 DEF PlacesFit, LiveBackupIsServed, Live
    <3>3. conn'[n] = conn[n]
      OBVIOUS
    <3>4. next.pc # "dead" /\ Live(b) =>
            /\ bc.pc # "dead"
            /\ \/ next.pc \in {"running", "suspended"} /\ n \in next.todo
                  <=> Broadcasting /\ n \in bc.todo
               \/ Broadcasting /\ n \notin bc.members
            /\ next.pc \in {"running", "suspended"} /\ n \notin next.members =>
                 Broadcasting /\ n \notin bc.members
      BY <3>2
    <3>5. QED
      BY <3>1, <3>3, <3>4, <2>1, <2>2, MovingKeepsNoGap
  <2>3. CASE ~Reading(b)
    BY <2>1, <2>3 DEF NoGap
  <2>4. QED
    BY <2>2, <2>3
<1>2. QED
  BY <1>1 DEF GapFree

LEMMA LoopStepKeepsNoGap ==
  ASSUME PlacesFit, GapFree, NEW l \in Loop, LoopStep(l)
  PROVE  GapFree'
<1>1. loop \in [Loop -> LoopType] /\ writers \in SUBSET Conn
  BY LoopMeaning
<1>2. ASSUME NEW n \in DOMAIN conn, Write(l, n) \/ WriteWaits(l, n)
      PROVE  GapFree'
  <2>1. /\ loop[l].pc = "running" /\ n \in loop[l].todo
        /\ UNCHANGED <<backup, logged, queue>> /\ n \in Conn
    BY <1>2, LoopMeaning DEF Write, WriteWaits
  <2>2. CASE /\ conn' = [conn EXCEPT ![n] = Sent(@, loop[l].msg)]
             /\ loop' = [loop EXCEPT ![l].todo = @ \ {n}]
    <3>1. LoopBecomes(l, loop[l].pc, loop[l].msg, loop[l].members,
                      loop[l].todo \ {n}, loop[l].at, loop[l].dead)
      BY <2>2, <1>1, PassesBecomes
    <3>2. LoopBecomes(l, "running", loop[l].msg, loop[l].members,
                      loop[l].todo \ {n}, loop[l].at, loop[l].dead)
      BY <3>1, <2>1
    <3>3. PICK at : LoopBecomes(l, "running", loop[l].msg, loop[l].members,
                                loop[l].todo \ {n}, at, loop[l].dead)
      BY <3>2
    <3>4. "running" \in {"running", "suspended"}
      OBVIOUS
    <3>5. QED
      BY <3>3, <3>4, <2>1, <2>2, WriteKeepsNoGap
  <2>3. CASE /\ Lost(n)
             /\ loop' = [loop EXCEPT ![l].todo = @ \ {n}, ![l].dead = @ \cup {n}]
             /\ UNCHANGED conn
    <3>1. LoopBecomes(l, loop[l].pc, loop[l].msg, loop[l].members,
                      loop[l].todo \ {n}, loop[l].at, loop[l].dead \cup {n})
      BY <2>1, <2>3, <1>1, FailsBecomes
    <3>2. /\ \A k \in Loop : k # l => loop'[k] = loop[k]
          /\ loop'[l].pc = "running" /\ loop'[l].members = loop[l].members
          /\ loop'[l].todo = loop[l].todo \ {n}
      BY <3>1, <2>1 DEF LoopBecomes
    <3>3. CASE l = "heartbeat"
      BY <3>2, <3>3, <2>1, <2>3, QuietKeepsNoGap DEF Loop
    <3>4. CASE l = "broadcast"
      BY <3>2, <3>4, <2>1, <2>3, SilentKeepsNoGap DEF Broadcasting
    <3>5. QED
      BY <3>3, <3>4 DEF Loop
  <2>4. CASE WriteWaits(l, n)
    <3>1. LoopBecomes(l, "suspended", loop[l].msg, loop[l].members,
                      loop[l].todo \ {n}, {n}, loop[l].dead)
      BY <2>1, <2>4, <1>1, WaitsBecomes DEF WriteWaits
    <3>2. "suspended" \in {"running", "suspended"}
          /\ conn' = [conn EXCEPT ![n] = Sent(@, loop[l].msg)]
      BY <2>4 DEF WriteWaits
    <3>3. QED
      BY <3>1, <3>2, <2>1, WriteKeepsNoGap
  <2>5. QED
    BY <2>2, <2>3, <2>4, <1>2 DEF Write
<1>3. CASE Resume(l)
  <2>1. PICK new \in SUBSET (writers \ loop[l].members),
             failed \in SUBSET {n \in loop[l].at : Lost(n)} :
          LoopBecomes(l, "running", loop[l].msg, writers,
                      (loop[l].todo \cap writers) \cup new, {},
                      loop[l].dead \cup failed)
    BY <1>1, <1>3, ResumeBecomes
  <2>2. /\ \A k \in Loop : k # l => loop'[k] = loop[k]
        /\ loop'[l].pc = "running" /\ loop'[l].members = writers
        /\ loop'[l].todo = (loop[l].todo \cap writers) \cup new
    BY <2>1 DEF LoopBecomes
  <2>3. UNCHANGED <<conn, backup, logged, queue>> /\ loop[l].pc = "suspended"
    BY <1>3 DEF Resume
  <2>4. CASE l = "heartbeat"
    BY <2>2, <2>3, <2>4, QuietKeepsNoGap DEF Loop
  <2>5. CASE l = "broadcast"
    <3>1. PICK bc : bc = loop["broadcast"]
      OBVIOUS
    <3>2. PICK next : next = loop'["broadcast"]
      OBVIOUS
    <3>3. ASSUME NEW n \in writers
          PROVE  /\ bc.pc # "dead" /\ Broadcasting
                 /\ \/ n \in next.todo <=> n \in bc.todo
                    \/ n \notin bc.members
                 /\ n \in next.members
                 /\ next.pc \in {"running", "suspended"}
      BY <3>1, <3>2, <2>2, <2>3, <2>5 DEF Broadcasting
    <3>4. QED
      BY <3>1, <3>2, <3>3, <2>3, SilentKeepsNoGap
  <2>6. QED
    BY <2>4, <2>5 DEF Loop
<1>4. CASE Die(l)
  <2>1. LoopBecomes(l, "dead", HB, {}, {}, {}, {})
    BY <1>1, <1>4, DieBecomes
  <2>2. /\ \A k \in Loop : k # l => loop'[k] = loop[k]
        /\ loop'[l].pc = "dead"
    BY <2>1 DEF LoopBecomes
  <2>3. UNCHANGED <<conn, backup, logged, queue>>
    BY <1>4 DEF Die
  <2>4. CASE l = "heartbeat"
    BY <2>2, <2>3, <2>4, QuietKeepsNoGap DEF Loop
  <2>5. CASE l = "broadcast"
    BY <2>2, <2>3, <2>5, SilentKeepsNoGap
  <2>6. QED
    BY <2>4, <2>5 DEF Loop
<1>5. CASE RoundEnds(l)
  <2>1. LoopBecomes(l, "waiting", HB, {}, {}, {}, {})
    BY <1>1, <1>5, WaitsAgain DEF RoundEnds
  <2>2. /\ \A k \in Loop : k # l => loop'[k] = loop[k]
        /\ loop'[l].pc = "waiting"
    BY <2>1 DEF LoopBecomes
  <2>3. /\ UNCHANGED <<conn, backup, logged, queue>>
        /\ loop[l].pc = "running" /\ loop[l].todo = {}
    BY <1>5 DEF RoundEnds
  <2>4. CASE l = "heartbeat"
    BY <2>2, <2>3, <2>4, QuietKeepsNoGap DEF Loop
  <2>5. CASE l = "broadcast"
    BY <2>2, <2>3, <2>5, SilentKeepsNoGap
  <2>6. QED
    BY <2>4, <2>5 DEF Loop
<1>6. QED
  BY <1>2, <1>3, <1>4, <1>5 DEF LoopStep

\* A round begins: every reader is still to be written to.
LEMMA BroadcastKeepsNoGap ==
  ASSUME PlacesFit, GapFree, Broadcast
  PROVE  GapFree'
<1>1. /\ UNCHANGED <<conn, backup>> /\ loop["broadcast"].pc = "waiting"
      /\ Round("broadcast", Head(queue))
  BY DEF Broadcast, Round
<1>2. Taken' = Taken + 1 /\ Taken \in Nat /\ Head(queue) \in Entry
  BY BroadcastKeepsPlaces, QueueMeaning DEF Broadcast
<1>3. LoopBecomes("broadcast", "running", Head(queue), writers, writers, {}, {})
  BY <1>1, <1>2, LoopMeaning, RoundBecomes DEF Loop
<1>4. /\ loop'["broadcast"].pc = "running" /\ loop'["broadcast"].members = writers
      /\ loop'["broadcast"].todo = writers
  BY <1>3 DEF LoopBecomes
<1>5. ASSUME NEW b \in Backup, Reading(b)
      PROVE  NoGap(b)'
  <2>1. PICK n \in DOMAIN conn : n = backup[b].conn
    BY <1>5, ReaderMeaning
  <2>2. PICK c : c = conn[n]
    OBVIOUS
  <2>3. PICK r : r = backup[b]
    OBVIOUS
  <2>4. ASSUME Scope(c, r)
        PROVE  /\ c.since <= Taken + 1 /\ CarriesTo(c, r, Taken) /\ HelloFits(c, r)
               /\ n \in writers
    <3>1. NoGap(b)
      BY DEF GapFree
    <3>2. c.since <= Taken /\ CarriesTo(c, r, SentTo(n)) /\ HelloFits(c, r)
      BY <3>1, <2>1, <2>2, <2>3, <2>4, <1>1, <1>5 DEF NoGap
    <3>3. SentTo(n) = Taken
      BY <1>1 DEF SentTo, Broadcasting
    <3>4. c.since <= Taken + 1
      <4>1. c \in ConnType
        BY <2>1, <2>2, Types DEF PlacesFit
      <4>2. c.since \in 0..MaxEntries
        BY <4>1, ConnFields
      <4>3. QED
        BY <3>2, <4>2, <1>2, ReplicationAssumption
    <3>5. n \in writers
      <4>1. Live(b)
        BY <2>1, <2>2, <2>3, <2>4, <1>5 DEF Live, Lost, Scope, Reading
      <4>2. QED
        BY <4>1, <2>1 DEF PlacesFit, LiveBackupIsServed
    <3>6. QED
      BY <3>2, <3>3, <3>4, <3>5
  <2>5. n \in writers => SentTo(n)' = Taken
    BY <1>2, <1>4 DEF SentTo, Broadcasting
  <2>6. backup'[b].conn = n /\ conn'[n] = c /\ backup'[b] = r
    BY <2>1, <2>2, <2>3, <1>1
  <2>7. QED
    BY <2>4, <2>5, <2>6, <1>2, <1>4 DEF NoGap
<1>6. ASSUME NEW b \in Backup, ~Reading(b)
      PROVE  NoGap(b)'
  BY <1>1, <1>6 DEF NoGap, Reading
<1>7. QED
  BY <1>5, <1>6 DEF GapFree

LEMMA StepKeepsNoGap ==
  ASSUME PlacesFit, GapFree, [Next]_vars
  PROVE  GapFree'
<1>1. CASE LogAppend
  <2>1. /\ UNCHANGED <<conn, backup, loop>> /\ Taken' = Taken
    BY <1>1, LogAppendKeepsPlaces DEF LogAppend
  <2>2. ASSUME NEW b \in Backup
        PROVE  NoGap(b)'
    <3>1. NoGap(b)
      BY DEF GapFree
    <3>2. QED
      BY <3>1, <2>1 DEF NoGap, Reading, Broadcasting, SentTo
  <2>3. QED
    BY <2>2 DEF GapFree
<1>2. CASE Broadcast
  BY <1>2, BroadcastKeepsNoGap
<1>3. CASE Beat
  <2>1. /\ loop' = [loop EXCEPT !["heartbeat"] = loop'["heartbeat"]]
        /\ UNCHANGED <<conn, backup, logged, queue>>
    BY <1>3, LoopMeaning DEF Beat, Round, Loop
  <2>2. loop'["broadcast"] = loop["broadcast"]
    BY <2>1, LoopMeaning DEF Loop
  <2>3. QED
    BY <2>1, <2>2, QuietKeepsNoGap
<1>4. CASE UNCHANGED vars
  BY <1>4, QuietKeepsNoGap DEF vars
<1>5. ASSUME NEW l \in Loop, LoopStep(l)
      PROVE  GapFree'
  BY <1>5, LoopStepKeepsNoGap
<1>6. ASSUME NEW n \in DOMAIN conn, Acknowledge(n) \/ HandlerFails(n) \/ Lose(n)
      PROVE  GapFree'
  BY <1>6, AcknowledgeKeepsNoGap, LosingKeepsNoGap
<1>7. ASSUME NEW b \in Backup, BackupStep(b)
      PROVE  GapFree'
  BY <1>7, ConnectKeepsNoGap, ReadAckKeepsNoGap, LeavingKeepsNoGap,
     ReadEntryKeepsNoGap DEF BackupStep
<1>8. QED
  BY <1>1, <1>2, <1>3, <1>4, <1>5, <1>6, <1>7 DEF Next, PrimaryStep

\* At any moment of a round, a connection that stands has carried the entries
\* that the broadcast loop has come past it with, without a gap.
THEOREM GapFreeAlways == ReplicationSpec => [](PlacesFit /\ GapFree)
<1>1. Init => GapFree
  <2>1. Init => \A b \in Backup : ~Reading(b)
    BY DEF Init, Reading
  <2>2. QED
    BY <2>1 DEF GapFree, NoGap
<1>2. PlacesFit /\ GapFree /\ [Next]_vars => GapFree'
  BY StepKeepsNoGap
<1>3. QED
  BY <1>1, <1>2, PlacesFitAlways, PTL DEF ReplicationSpec

\* Between two rounds of the broadcast loop, a backup whose connection stands
\* and whose HELLO was answered has read, or will find in its inbox, every entry
\* taken from the queue since it connected, or since the round under way then.
THEOREM ConnectedMissNothingCorrect == ReplicationSpec => []ConnectedMissNothing
<1>1. ASSUME PlacesFit, GapFree
      PROVE  ConnectedMissNothing
  <2> SUFFICES ASSUME NEW b \in Backup, Accepted(b),
                      loop["broadcast"].pc = "waiting"
               PROVE  \E k \in {conn[backup[b].conn].since,
                                conn[backup[b].conn].since - 1} :
                        Carried(b) = [i \in 1..(Taken - k) |-> k + i]
    BY DEF ConnectedMissNothing, Taken
  <2> DEFINE c == conn[backup[b].conn]
             r == backup[b]
  <2>1. /\ Reading(b) /\ c.link # "lost" /\ Inbox(b) = c.inbox
        /\ r.pc \in {"handshake", "streaming"}
        /\ r.pc = "streaming" \/ (c.inbox # <<>> /\ Head(c.inbox) = Ack)
    <3>1. /\ Live(b)
          /\ r.pc = "streaming" \/ (Inbox(b) # <<>> /\ Head(Inbox(b)) = Ack)
      BY DEF Accepted
    <3>2. Inbox(b) = c.inbox
      BY DEF Inbox
    <3>3. r.pc # "connecting" /\ c.link # "lost"
      BY <3>1 DEF Live, Lost
    <3>4. ReplicationTypeOK
      BY <1>1 DEF PlacesFit
    <3>5. backup[b] \in BackupType
      BY <3>4, Types
    <3>6. backup[b].pc \in {"connecting", "handshake", "streaming"}
      BY <3>5, BackupFields
    <3>7. QED
      BY <3>1, <3>2, <3>3, <3>6 DEF Reading
  <2>2. Scope(c, r)
    BY <2>1 DEF Scope
  <2>3. Carries(c, r) = Carried(b)
    BY <2>1 DEF Carries, Carried
  <2>4. SentTo(backup[b].conn) = Taken
    BY DEF SentTo, Broadcasting
  <2>5. CarriesTo(c, r, Taken)
    <3>1. NoGap(b)
      BY <1>1 DEF GapFree
    <3>2. loop["broadcast"].pc # "dead"
      OBVIOUS
    <3>3. CarriesTo(conn[backup[b].conn], backup[b], SentTo(backup[b].conn))
      BY <3>1, <3>2, <2>1, <2>2 DEF NoGap
    <3>4. QED
      BY <3>3, <2>4
  <2>6. QED
    BY <2>3, <2>5 DEF CarriesTo, Span
<1>2. QED
  BY <1>1, GapFreeAlways, PTL
=============================================================================
