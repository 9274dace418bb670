# Verification of the train reservation server

TLA+ models of the program in `src/`: an asyncio server that sells train seats
by tier, keeps waiting lists, persists every change in a write-ahead log (WAL),
and streams the log to a backup. The modules are translated from the code; this
file says what each of them models, what TLC checks, what TLAPS proves, and
what is left out. `PROJECT.json` holds the same facts for tools: the runs, the
source lines behind every definition (`map`), the findings, the hazards.

    tlc -workers 2 -config MCReservationDB_tier.cfg MCReservationDB   # a run
    tlapm ReservationDBProofs.tla                                     # a module of proofs

## 1. The system

| Component | State | Operations | Talks to |
|---|---|---|---|
| Database, `InMemoryDB` (`server/db.py`) | `trains` (seats: state, hold_by, hold_expires), `tickets`, `waiting_lists` | search, hold, book, release, book_by_tier, book_by_tier_and_seat_number, cancel_ticket; `_apply_entry` for replay | appends to the WAL after each change in memory |
| WAL, `Wal` (`server/db.py`) | a file of JSON lines, subscribers | append (write, flush, fsync, call subscribers), replay | database at start-up, primary replicator |
| Lock manager (`server/lock_manager.py`) | `_locks`: key to asyncio.Lock | acquire with timeout, release | request handlers |
| Request handlers (`server/server.py`) | one coroutine per connection | one request at a time: take a lock, call the database, answer, release | lock manager, database |
| Primary replicator (`server/replication.py`) | set of writers, queue of entries | accept a backup, broadcast entries, heartbeat | WAL subscription, sockets |
| Backup replicator (`server/replication.py`, `server.py:88-111`) | time of the last heartbeat, stop flag | read loop (append, apply), heartbeat monitor, promotion | its own WAL and database |
| Stress harness (`client/stress_harness.py`) | rounds and successes of each worker | book, sometimes cancel | the server |
| Wire protocol (`server/protocol.py`) | the stream reader's buffer | write_message, read_message | all connections |
| Client library, terminal client (`client/client.py`) | one connection per request | `_send`: connect, write, read, close | the server |
| Web page (`streamlit_app.py`) | session state, widgets | a script run from the top at every click | client library |

What makes them hard:

* **Database**: the same fact is kept twice (a ticket's status and its place in
  a waiting list; a seat's state and the ticket that names it) and updated one
  by one. Two styles of booking share the seats: holds that expire, and tickets.
  Expiry happens lazily, inside some operations and not in others, and is never
  logged. *Correct when*: a seat has one owner; a ticket waits only while its
  tier is full; nobody is overtaken; a standing hold is respected; replaying the
  log gives the database back.
* **Lock manager**: a task woken by `release` runs only later; a newcomer may
  look at the lock in between; the timer of `wait_for` may fire in between.
  *Correct when*: one holder per key, no lost wake-up, first come first served,
  every waiter gets the lock or is told it did not.
* **Request handlers**: look things up before they wait for a lock; leave on
  many paths, not all of which release it. *Correct when*: what they do to the
  database is a sequence of operations of its own, every request is answered, and a
  lock is freed by the request that has it and by no other.
* **WAL and recovery**: memory changes before the append; one operation appends
  twice; a failed write leaves its line in the file object; the last line may be
  torn. *Correct when*: what a client was told survives every crash, and the log
  gives every seat one owner wherever the process died.
* **Replication**: no catch-up for a backup that connects late, a set that
  changes during an iteration that awaits, heartbeats and entries before ACK.
  *Correct when*: a backup's log copies entries in the primary's order, a
  connection misses none of its time, a standing connection stays in the set.
* **Failover**: promotion is decided by a timer that lives and dies with the
  connection, and carried out by a coroutine that waits for another one.
  *Correct when*: one server serves at a time, no running primary is replaced,
  and silence on a connection leads to a promotion.
* **Protocol**: a stream arrives in pieces. *Correct when*: whole messages come
  out, in order and without gaps, and a reader does not wait for ever.
* **Client and web page**: a request may be carried out although its answer is
  lost; the page's script runs anew at every click. *Correct when*: a click books
  once at most, and what a page says is true.

## 2. Modules

| Module | Models | Uses |
|---|---|---|
| `DBState` | the data of `InMemoryDB`, its `_no_log` transitions, the log entries and what replaying one does, as operators on a database value | |
| `ReservationDB` | the public methods as atomic actions on `db`, `wal`, `clock` | extends `DBState` |
| `ReservationDBProps` | what the database promises | extends `ReservationDB`, instantiates `SeatAllocation` |
| `SeatAllocation` | the abstract promise of tier booking: holders, queues, issued ids | |
| `LockManager` | `LockManager` with the future queue of `asyncio.Lock` and the timer of `wait_for`; its properties | |
| `ReservationServer` | `_handle_request`: receive, wait, serve, answer, release | extends `ReservationDB` and `LockManager` |
| `ReservationServerProps` | what the handlers promise | extends `ReservationServer` |
| `StressHarness` | the workers of the stress harness against the whole server | extends `ReservationServerProps` |
| `CrashRecovery` | an operation as changes and appends, failing writes, crashes, restart | extends `DBState` |
| `Replication` | both loops of the primary over its set of writers, its connection handlers, the backup's read loop | instantiates `LogShipping` |
| `LogShipping` | the abstract promise of replication: copies in the primary's order | |
| `Failover` | heartbeats, monitor, promotion and take-over in discrete time | |
| `Framing` | length-prefixed frames over a stream cut anywhere | instantiates `Channel` |
| `Channel` | the abstract promise of a connection: a prefix of the messages | |
| `WebSession` | the Book tab of the web page, its connections, the server | extends `DBState` |
| `DBStateProofs` | lemmas about minima, queues and the transitions of a database value: types, owners, who names which seat | extends `DBState` |
| `ReservationDBProofs` | theorems about the database: types, owners and holds; its log; waiting lists and the refinement | extends `ReservationDBProps`, `DBStateProofs` |
| `ReservationServerProofs` | theorems about the lock manager, about the handlers, and about the whole system under the harness | extends `StressHarness`, `ReservationDBProofs` |
| `CrashRecoveryProofs` | theorems about failing writes, crashes and restarts | extends `CrashRecovery`, `DBStateProofs` |
| `ReplicationProofs` | theorems about replication: places, order and the refinement, gaps | extends `Replication` |
| `FailoverProofs` | theorems about failover, for all intervals, timeouts and delays | extends `Failover` |
| `FramingProofs` | theorems about frames in a byte stream, and the refinement of `Channel` | extends `Framing` |
| `WebSessionProofs` | theorems about the Book tab | extends `WebSession`, `DBStateProofs` |
| `MC*` | values of the constants for TLC | |

### How state and actions correspond to the code

**Database** (`DBState`, `ReservationDB`). `db` is a record with the fields
`seats`, `tickets` and `waiting_lists`. Four abstractions of data, none of
control:

* A seat is a number, its place in the iteration order of the nested
  dictionaries; "first available seat" is the minimum.
* Trains share no seats, tickets or waiting lists, so a `Tier` stands for a
  `(train_id, tier)` pair. A tier with no seats is one the train does not have
  (`book_by_tier` accepts it and queues the ticket for ever).
* A ticket id `TKT-<ms>-<n>` is the pair of its two numbers. `created_at`,
  wording and the shape of answers are left out.
* The log is represented by the outcome of replaying it from the start,
  `[replays, rebuilt]`: the database `from_wal` would rebuild, or a dead log
  once an entry raises. `Logged(wal, e)` appends an entry. This is exact,
  because replay is a fold over the entries, and it makes "what would a restart
  give now" part of every state instead of a property of a long sequence. `wal` is
  the file together with the lines that a failed write has left in the file object
  and the next append writes first; with that reading an append that fails is a
  logged one whose caller sees an `OSError`. What a crash does to those lines is
  the subject of `CrashRecovery`.

No database method awaits, so each is one action. It includes the whole method:
the lazy expiry at its start (`Current`), the change in memory, and the appends.
A refusal that still expires holds is an action of its own (`HoldRejected`). `release`
neither expires holds nor checks whether it did anything before it logs.
`cancel_ticket` appends two entries when it promotes; both are part of the
action (`CancelTicketAndPromote`). When the first of these appends fails, its
`OSError` ends the method before it promotes anybody (`CancelCutShort`); elsewhere the
append is the last thing a method does, and its failure matters to the caller only.

`Spec` admits every call in any order. `CarefulSpec` leaves out the cancellation
of a cancelled ticket, because that is where the code breaks (finding
`double_cancel`) and everything else deserves to be checked beyond that.
`FaultyTierSpec` keeps the calls of the shipped clients: search, book by tier, cancel,
the last possibly cut short. It is not an assumption out of the blue:
`StressHarness!ImplementsFaultyTierSpec` checks that the stress harness stays within
it. `TierSpec` is the same when no append fails: a cancellation cut short leaves a seat
idle while a ticket waits, so the allocation of seats is promised under `TierSpec`.

**Locks** (`LockManager`). A waiting task has a future (`pending`, `done` when
`release` wakes it, `cancelled` when its timer fires first) and a flag
`expired`. `TimerFires` and `Resume` are separate steps, as they are in the
event loop, so every order of wake-up, timeout, newcomer and resumption occurs.
`asyncio.Lock` and `wait_for` are external and modelled from their behaviour
(fast path, fair queue, wake-up of the first waiter, wake-up passed on by a
cancelled waiter). `acquire` creates a missing lock under `_global_lock`, whose
body does not await, so all keys exist from the start.

**Handlers** (`ReservationServer`). A connection handles one request at a time,
so it is the task of the lock manager. `Receive` is the part of the handler up
to the wait for its lock, `GetLock` and `GiveUp` what the event loop resumes,
`Serve...` the database call with the answer and the release. The three lock
key formats are `SeatKey`, `TierKey` and `TierSeatKey`. In the code they are strings, and
strings of two formats can be equal: coach `TIER` and seat `1AC` spell the key of a
tier. No seat that exists has such a name, so a request about no seat may have any key
but that of a seat (`UnknownSeatRequests`); the lock manager's
constant `Key` is the set of them all, which the configurations say with
`Key <- LockKeys`. The module extends the two it composes and does not instantiate
them: their theorems can then be cited in the proofs about the handlers. Paths that
leave without releasing are modelled so (`Leak`): a successful HOLD, every
`KeyError` from a train, coach or seat that does not exist, and every `OSError` of an
append, after which memory has changed and the answer is SERVER_ERROR (`Crash`); only
RELEASE gives its lock back whatever happens. Between taking the
lock and calling the database the model lets others run: Python 3.10 and 3.11
run `lock.acquire` in a task of its own there. Later versions have fewer
interleavings, so what holds here holds there.

**Harness** (`StressHarness`). A worker books, looks at the answer, keeps the
ticket or cancels it (the random choice is nondeterminism), and goes on.

**Crashes** (`CrashRecovery`). `ReservationDB` takes an operation for one step;
here it is `Begin` (the handler has its lock and has chosen its entries), then
for each entry `Change` (memory) and an append, then `Answer`. An append ends in
one of three ways: `AppendSucceeds`, `WriteFails` (the line stays in the file
object's buffer and the next flush writes it) or `SyncFails` (the line is in the
file, the caller sees an error). An `OSError` reaches the outermost handler, so
the tier's lock stays taken (`stuck`). `Crash` keeps any number of the lines not
known to be in the file, and perhaps part of the next (`torn`). `Restart` needs a
log that can be replayed; a torn line makes `json.loads` raise, so there is none
after it. The operations are the tier bookings and cancellations; seat holds are
left to `ReservationDB`. `told` remembers what a client was last told of a ticket,
and `boots` stands for the clock in ticket ids.

**Replication** (`Replication`). An entry is its number in the primary's log.
A loop takes a snapshot of nothing: it iterates over the set itself, and the model
follows CPython's iterator. Between two waits it runs alone (`running`); at a
`drain` that waits (`suspended`) others may change the set, and the next step
raises `RuntimeError` if the size differs (`Die`) and may or may not reach new
members if it does not (`Resume`). Three abstractions: what backups and network
do while a round runs waits for its end (they commute with its writes);
heartbeats are kept only where they are read in place of ACK; a connection that a
backup forgot without closing (`leaked`) swallows what is written to it. The
INIT entry precedes the subscription and is not sent. `Raising` are the entries
on which `apply_wal_entry` raises: they are persisted and end the connection.

**Failover** (`Failover`). `Tick` moves the clock, the age of the last heartbeat
and the heartbeats under way. A connection is `open`, `cut` (the peer will read
the end of the stream) or `orphan` (the peer's host has gone, nothing comes any
more). `run` and `main` are the program counters of `BackupReplicator.run` and
`ReservationServer.start`. Delays are not restricted; instead the history variable
`late` remembers that something took longer than the bounds in `Punctual`, or
that an old primary was started again beside a backup about to take over.

**Framing** (`Framing`). A byte is its message and its place in the frame, so a
read at the wrong place is visible as such. `Deliver` hands over any number of
bytes; `Cut` loses any suffix of what is under way.

**Web page** (`WebSession`). A run of the script is: ask for the free seats,
rebuild the options (`Listed`, `ListFails`), and book if the button started it.
Connections break at any point; a booking that had reached the server is carried
out later as an orphan. What `st.selectbox` returns when its options change is
external and left open. A user waits for the page before the next click.

## 3. What TLC checks

Every passing run takes about two minutes or less with two workers.

| Run | Specification and instance | Shows |
|---|---|---|
| `tier` | `TierSpec`, 3 seats in 2 tiers and a tier without seats, 2 clients, 4 tickets | refinement of `SeatAllocation`, `NoIdleSeatWhileWaiting`, `NoOvertaking`, `LogReplaysExactly` |
| `careful` | `CarefulSpec`, 2 seats in a tier, 2 clients, 3 tickets, clock to 2 | `TypeOK`, one owner per seat, tickets and waiting lists in step, holds respected, log and memory agree, ticket life cycle |
| `locks` | `LockSpec`, 4 tasks, 2 keys | exclusion, no lost wake-up, order of grants, every wait ends even if no timer fires |
| `server_all` | `ServerSpec`, 1 seat, 2 connections, 3 requests, clock to 1 | the handlers refine `ReservationDB`; a lock is freed by the answer of the request that has it, in no other step, and kept only with the answers that leak it (`LocksFollowAnswers`); every request is answered; with failing appends and colliding keys |
| `harness` | `HarnessSpec`, 1 seat, 3 workers, 1 round each | the load refines `FaultyTierSpec`, also with failing appends; requests with one lock are served in order, the run ends, the printed count is honest |
| `crash` | `CrashSpec`, 2 tiers of 1 seat, 2 clients, 3 tickets, 2 starts | `ToldIsDurable`, `MemoryIsLogAndBuffer`, `CrashKeepsSeatsConsistent` |
| `replication` | `ReplicationSpec`, 2 backups, 2 entries of which one raises, 2 connections | refinement of `LogShipping`, `ConnectedMissNothing`, `LiveBackupIsServed` |
| `failover` | `FailoverSpec`, units of 0.25 s: interval 4, timeout 14, delay 10, 4 heartbeats under way | `OneServer`, `NoFalseAlarm`, `TakesOverDisconnected`, `SilenceIsNoticed`, `TakeoverCompletes` |
| `framing` | `FramingSpec`, 3 messages of 3 lengths, one refused | refinement of `Channel`, `MessagesArrive` |
| `web` | `SessionSpec`, 1 seat, 2 pages, 1 click each | `OneTicketPerClick`, `ShownIsTrue`, `PageReturns` |

Runs that show a disagreement between the code and what is written about it
(`findings` in `PROJECT.json`):

| Run | Violates | What happens |
|---|---|---|
| `double_cancel` | `NoDoubleBooking` | book, cancel, another client books the seat, cancel the first ticket again: the seat is free although sold (`db.py:649`) |
| `lost_broadcast` | `EntriesReachBackups` | a backup connects while a drain waits: the set changed size, the broadcast task ends, entries stay in the queue (`replication.py:89`) |

### Further configurations

These are not in `PROJECT.json`; each is run by hand with
`tlc -config <file> <module>`. The first passes, the others show where a sentence
about the code, or an expectation one may have of it, does not hold.

| Configuration | Module | Property | What it shows |
|---|---|---|---|
| `MCReservationDB_open` | `MCReservationDB` | passes | under every call in any order (`Spec`): types, queues, `TicketFitsSeat`, recovery, life cycle |
| `MCReservationDB_restart` | `MCReservationDB` | `RestartIsPossible` | hold, expiry, hold: two HOLD entries in a row, and replay raises (`db.py:325`) |
| `MCReservationServer_hold_leak` | `MCReservationServer` | `LockedMeansInUse` | a successful HOLD keeps its lock, so the BOOK that should follow times out (`server.py:173`) |
| `MCReservationServer_unknown` | `MCReservationServer` | `UnknownTrainIsRefused` | booking on an unknown train answers SERVER_ERROR and keeps its lock (`server.py:269`) |
| `MCReservationServer_tier_lock` | `MCReservationServer` | `SoldUnderTierLock` | booking by seat number sells a seat of a tier without the tier's lock (`server.py:181`); harmless while database methods do not await |
| `MCCrashRecovery_torn` | `MCCrashRecovery` | `LogIsReadable` | a torn last line makes the next start fail (`db.py:76`) |
| `MCCrashRecovery_promotion` | `MCCrashRecovery` | `NoLostPromotion` | a crash between CANCEL_TICKET and PROMOTE_TICKET: after the restart a seat is free and a ticket waits for it (`db.py:665`) |
| `MCFailover_death` | `Failover` | `DeathPromotes` | a primary that dies cleanly closes the connection, and the monitor is cancelled: the backup dials for ever (`replication.py:167`) |
| `MCFailover_promotion` | `Failover` | `RunsUntilPromotion` | after a promotion `run` goes on reading until its connection ends (`replication.py:182`) |
| `MCWebSession_selection` | `MCWebSession` | `SelectionIsHonoured` | the seat selected goes while the button is clicked: the page books automatically, or queues, instead (`streamlit_app.py:146`) |

The type invariants `CrashTypeOK`, `ReplicationTypeOK`, `FailoverTypeOK`,
`LockTypeOK` and `ServerTypeOK` hold too and may be added to the configurations
of their modules; `LockTypeOK`, `FailoverTypeOK` and `ReplicationTypeOK` are
parts of invariants that are proved.

### Bounds, and why they are enough

* `MaxTickets`: a seat's history needs an owner, a waiter and one more (the
  overtaker, the second waiter, the newcomer); with two seats in a tier, 4.
  Every cancel and promotion order among them occurs.
* `MaxClock` 2 with `HoldTTL` 1 (`careful`): a hold is taken at 0, stands at 1, has
  expired at 2. In `server_all` the clock stops at 1: no hold expires there, and expiry
  between the calls of several clients is what `careful` is for. In `tier` there are no holds and the clock stands at 0, the harder case
  for ticket ids (the count alone keeps them apart).
* 4 lock tasks: a holder, a woken waiter, an expired waiter and a newcomer, all
  at once on one key; the second key shows that keys do not interfere.
* 3 or 4 requests: a holder and two waiters on the same key, and a later
  request that meets what they left.
* `crash`: 3 tickets are an owner, a waiter and one more in another tier, whose
  lock stays free when the first one's leaks; 2 starts are one crash, a restart
  and a second crash. Everything a crash or a failed write can leave behind is
  represented in the state (`wal`, `torn`, `buffer`, `stuck`), so more starts
  repeat it.
* `replication`: 2 connections are one for each backup or a backup that comes
  back; 2 entries show order and a gap, and one of them raises. With two writers
  the set shrinks, grows and is swapped under a waiting drain. Entries are never
  dropped from the queue, and rounds are independent of each other.
* `failover`: the defaults of the command line. `MaxDelay` 10 is timeout minus
  interval; with 11 both `OneServer` and `NoFalseAlarm` are violated, so the
  bound is tight (and `FailoverProofs` needs exactly it). A heartbeat is sent
  every 4 units and travels up to 10, so 4 are under way at most.
* `framing`: header of 2 bytes and payloads of 1, 2 and 3 bytes with a limit of
  2, so that every cut inside a header, inside a payload, and across a frame's
  end occurs, and a length at, below and above the limit.
* `web`: one seat is wanted by both pages, so who comes second finds it gone
  before, between or after the two requests of a click; selections are free.
* Clients are interchangeable in the `MCReservationDB` and `crash` runs (`SYMMETRY`); no
  operation chooses among them. So are the backups of `replication`. No run with a
  liveness property uses symmetry.

`harness` runs with `CHECK_DEADLOCK FALSE`: the workers finish and nothing is
left to do. So do `crash` (a torn log cannot be started again), `replication`
and `framing`: their bounds on entries, connections and messages end the
behaviour, as a last connection or message may. Elsewhere deadlock is checked; a state in which nothing but `Search`
or a refusal is possible is no deadlock.

### Fairness

`LockSpec` asks that the event loop resumes a runnable task and that a holder
goes on to release: asyncio runs every ready callback, and between the grant
and the release of the tests' tasks there is no unbounded wait. It asks nothing
of the timers, so `WaitingEnds` is about wake-ups alone. `ServerSpec` adds that
timers fire (`loop.call_later` with 5 seconds), which is what rescues requests
that wait for a leaked lock. Clients owe nothing: no fairness on `Receive`. In
`HarnessSpec` each worker goes on when it is answered.

`FailoverSpec`: time passes, a heartbeat that is due is sent while its task lives,
and what the backup's event loop has ready it runs. Whether an attempt to connect
succeeds is nobody's promise, and no crash, break or restart need happen.
`FramingSpec`: TCP delivers what it can and reports the end of the stream; the
reader reads. `SessionSpec`: the server answers what it has received
(`RequestsAreAnswered`), scripts run; nobody need click, nothing need break.
`FairReplicationSpec` uses strong fairness, because a round of the other loop
disables a coroutine for as long as it runs: the event loop is a FIFO, so what is
ready again and again runs. It assumes that drains return, that is, backups read;
even so `EntriesReachBackups` fails.

## 4. What is proved

Every theorem holds for all values of the constants that satisfy the `ASSUME`s of
its module, which say no more than this:

* `DBAssumption`, `BoundsAssumption`: seats are natural numbers, in any number;
  every seat has a tier of the set; `None` is no seat, client, time or ticket id.
* `LockAssumption`: `NoKey` is no lock key.
* `ServerAssumption`: the lock keys are those of `LockKeys`, every connection has a
  client id, `Unknown` is neither seat nor tier, and the bound on requests is at most the
  one on tickets.
* `HarnessAssumption`: the workers are finitely many, and so are their rounds
  (`main` starts as many tasks as `--clients` says).
* `SessionAssumption`: "Auto Allocation" is no seat number, and there is a tier to
  book in.
* `FramingAssumption`: headers and payloads have at least one byte.
* `CrashBoundsAssumption`: the bounds are natural numbers, and there is a first start.
* `ReplicationAssumption`: the bounds are natural numbers; ACK and a heartbeat
  are no entries and differ; `Raising` are numbers, as entries are.
* The assumptions of `Failover`; two of its theorems need `TimeoutLeavesRoom` too.

The inductive invariants hold in TLC too: a module of constants that extends a
module of proofs instead of a module of properties checks `FullInv` and `TierInv` on the
instance of `tier`, `QueueInv` and `AgreementInv` on that of `MCReservationDB_open`,
`PlacesFit`, `InOrder` and `GapFree` on that of `replication`, `ServerInv` on that of
`server_all`, `HarnessInv` on that of `harness`, and `SessionInv`, `CrashInv` and
`FramingInv` on those of `web`, `crash` and `framing`. Where an invariant says that
a function with certain properties exists, that module names it: the databases that
the pending entries make in turn, the places at which frames start.

The pattern is the same everywhere: `Init => IInv`, one lemma per action for
`IInv /\ [Next]_vars => IInv'`, and the property from `IInv`. An action property
or a refinement is the same with `IInv /\ [Next]_vars => [A]_vars`.

**Database** (`DBStateProofs`, `ReservationDBProofs`):

* `TypeCorrect`: `Spec => []TypeOK`. The lemmas say what each transition keeps
  (`...Type`), that applying an entry is total on typed entries
  (`ApplyEntryMeaning`), and that logging one keeps the log's type
  (`LoggedKeepsType`); the invariant is inductive as it stands.
* `SeatsHaveOneOwner`: `CarefulSpec => []OwnersInv`. `NoDoubleBooking` is not
  inductive: to know that the seat given to a new ticket has no owner one must
  know that owned seats are booked, and to know that they stay booked under
  holds and releases, that a release touches held seats only. To know that
  cancelling frees the canceller's own seat and no other's, one must know that
  a waiting ticket names no seat (a cancelled one still does, which is why the
  theorem is about `CarefulSpec`). `OwnersInv` is the conjunction of these facts
  and the type invariant. It is stated for a database value, so that the proof
  can follow it through expiry, cancellation and promotion inside one step.
* `NoDoubleBookingCorrect`, `ConfirmedSeatIsBookedCorrect` from `OwnersInv`, and
  the action property `HoldsAreRespectedCorrect`: a promotion hands over the seat
  of a confirmed ticket, which is booked and hence not held.

**Log** (`ReservationDBProofs`):

* `ReplayInvariant`, `LogReplaysExactlyCorrect`: `TierSpec => []LogReplaysExactly`.
  The equation of log and memory is not inductive, because expiring a hold
  changes memory without an entry. `ReplayInv` adds that the tier calls hold no
  seat; expiry then changes nothing, and every other change is made by the
  transition its entry is replayed with, one after the other when a cancellation
  promotes.
* `RecoveredStateAgreesCorrect`: `Spec => []RecoveredStateAgrees`, for every call
  in any order. `AgreementInv` says it field by field (`Alike`): the rebuilt database
  and the one in memory have the same tickets and lists, and each seat is the same
  once a hold that has expired counts as free. The core is that every entry that
  can be applied at all leads from alike databases to alike ones
  (`EntriesTrack`), whatever hold either side has not noticed to have expired;
  an entry that raises ends the claim, and `MCReservationDB_restart` shows that
  one can.

**Tickets and waiting lists** (`ReservationDBProofs`):

* `TicketsAndListsAreInStep`: `Spec => []QueueInv`. `QueuedIffWaiting` alone is not
  inductive: the head of a list is promoted by taking it off once, so it must not
  stand there twice; that rests on the order of the lists, and the order on ids:
  a ticket's number is at most the number of tickets, so a new one is the
  youngest everywhere. `QueueInv` is the conjunction (`ListsMatchTickets`,
  `ListsAscend`, `SeatsFit`, and the numbers of the ids).
* `QueuedIffWaitingCorrect`, `QueueIsFifoCorrect`, `TicketFitsSeatCorrect` and the
  action property `TicketLifeCycleCorrect` from it, all under `Spec`.
* `TierInvariant`, `TiersFillUp`: `TierSpec => []FullInv`. `TierInv` joins the
  invariants above. Under the tier calls every step is a stutter or one of five
  changes (a ticket takes a seat, joins a list, leaves it, gives its seat back,
  hands it on). `FullInv` adds that a seat which is not free has a confirmed ticket
  (`SeatsInUse`), and that no seat of a tier with a waiting list is free (`NoIdle`).
* `NoIdleSeatWhileWaitingCorrect` and the action property `NoOvertakingCorrect`.
* `ImplementsSeatAllocationCorrect`: `TierSpec => ImplementsSeatAllocation`, step by
  step: each of the five changes is a step of `SeatAllocation` under the mapping
  `Holder`. That the mapping is a function of the claims (its `CHOOSE` has one
  candidate) is `SeatsAreOwned`; that `Grant` needs an empty queue and `Join` a full
  tier is `NoIdle`.

**Locks** (`ReservationServerProofs`), for any number of tasks and keys:

* `LockInvariant`: `LockSpec => [](LockInv /\ LockedIffHeld)`. Exclusion alone is
  not inductive: a woken task takes the lock without looking whether it is free,
  so one must know that it still is. `LockInv` says so: a woken task is the
  first in its queue and its lock is free (`WokenIsFirst`), the lock of a holder
  is not (`HeldIsLocked`), and the queue of a key holds the tasks that wait for it,
  each once (`InLine`). A newcomer takes a free lock only past cancelled waiters,
  hence not past a woken one. `WakeupPending` and `TaskFits` say that where a
  free lock has waiters, one of them is woken or has expired and will pass the
  wake-up on.
* `KeyExclusionCorrect`, `LockedIffHeldCorrect`, `NoLostWakeupCorrect` from
  `LockInvariant`, and the action property `GrantedInOrderCorrect`: a woken task is
  at the head, and a newcomer passes only tasks that have expired. All safety
  properties of the run `locks` are proved.

**Handlers** (`ReservationServerProofs`), for any number of connections, seats, tiers
and clients:

* `ServerInvariant`: `ServerSpec => []ServerInv`. The theorems about the database and
  the locks do not simply carry over: they hold of the parts as long as the handlers
  use the parts as their specifications expect. That is what the invariant says.
  `Connections`: a connection at work has the lock its request needs, or waits for it,
  and the request is about something that exists or about `Unknown`, in which case its
  key is that of no seat; in particular the ticket of a CANCEL still has the tier that was looked up before the wait.
  `QueueInv` and `LockInv` are those of the parts (a successful HOLD or an exception drops
  a lock without releasing it, which `LockInv` allows and `LockedIffHeld` does not).
  `QueueInOrder` and `HolderIsOldest` relate queues and holders to the order of
  arrival. Each step is one of four for the lock: none, a task begins to wait or gets
  the lock at once, a waiting task goes on, a task ends.
* `LocksFollowAnswersCorrect`: `ServerSpec => LocksFollowAnswers`. `release` looks at the
  key only, so that nobody frees another's lock is up to the callers. Every way in which
  a handler ends is an `Ends`: it has the lock, the code of its answer says whether
  the lock is kept (`KeepsLock`), and no other lock changes hands; a request that gives
  up goes on without an answer from the database and frees nothing.
* `ServerTypeCorrect`, `ServerKeyExclusion` from `ServerInvariant`,
  and the action property `FirstComeFirstServedCorrect` from `HolderIsOldest`.
* `ImplementsReservationDBCorrect`: `ServerSpec => Spec`, step by step. Everything
  proved of the database under `Spec` then holds under the handlers;
  `ServerKeepsTickets` says so of tickets, lists and recovery.

**The whole system** (`ReservationServerProofs`), for any number of workers:

* `HarnessInvariant`: `HarnessSpec => []HarnessInv`. A worker may cancel the ticket of
  its last answer. That it was not cancelled before needs more than one worker's
  state: no two workers have the same ticket in hand (`HandsAreApart`), and what is in
  hand is not cancelled (`HandsAreLive`), also after a cancellation that timed out.
* `HarnessIsAClient`, `ImplementsFaultyTierSpecCorrect`: the harness is a client of the
  server, and the database sees the calls of `FaultyTierSpec` only.
* `HarnessKeepsSeatsAndTickets` composes these with the theorems of the database: under
  any load of the harness, and whatever append fails, `NoDoubleBooking`,
  `ConfirmedSeatIsBooked`, `TicketLifeCycle` and `QueuedIffWaiting` hold.
* `HarnessKeepsItsPromises`: as long as no handler ends in an exception
  (`NothingFails`), `NoIdleSeatWhileWaiting`, `LogReplaysExactly`, `NoOvertaking` and
  `ImplementsSeatAllocation` hold as well, because the workers then take the steps of
  `TierSpec` (`WorkersTakeWholeSteps`).
* `CountedBookingsHadSeatsCorrect`: `HarnessSpec => []CountedBookingsHadSeats`. The
  property compares a sum over the workers with the number of tickets that had a seat.
  The invariant `CountInv` says where the sum comes from: there are sets of
  tickets, one for each worker, pairwise disjoint, of tickets that had a seat, and each
  counter is the size of its worker's set. That a new answer names a ticket in none of
  the sets must hold until the worker has counted it (`Uncounted`): tickets are booked
  under fresh ids, and no two workers have the same one in hand (`HandsAreApart`). `SumOfSizes` then says that the sum is the
  size of the union, hence not above the number of such tickets.

**Crashes** (`CrashRecoveryProofs`), for any number of seats, tickets and restarts:

* `CrashInvariant`: `CrashSpec => []CrashInv`. `ToldIsDurable` and
  `CrashKeepsSeatsConsistent` speak of the database the file holds, which a crash or a
  late flush may move on by any number of entries. What has to be inductive is
  therefore about all the databases that the file may come to hold: there is a
  sequence `D` of them, from `wal.rebuilt` on, each the one before with the next of the
  entries in `buffer \o call.todo` applied (`IsTrace`). Every one of them is `Sound` (types,
  owners, seats in use, tickets and lists in step) and `Keeps` what clients were
  told; memory is the one at `Done`; the last agrees with the answer that the operation
  under way will give. An operation that begins makes `D` longer; an append that
  succeeds, a failed sync and a crash move along it, and an error or a crash cuts off what
  nobody will append any more. That an operation which promotes is sound between its
  two entries as well, although a seat is then free while a ticket waits, is why
  `Sound` does not contain `NoIdle`.
* `ToldIsDurableCorrect`, `MemoryIsLogAndBufferCorrect`,
  `CrashKeepsSeatsConsistentCorrect` and `CrashTypeCorrect` from it. The second needs that the
  recursive `LoggedAll` computes the sequence `D` (`LoggedAllOfTrace`): the least
  position at which the two differ cannot exist.

**Replication** (`ReplicationProofs`), for any number of backups, connections and
entries, and all sets of entries that raise:

* `PlacesFitAlways`: `ReplicationSpec => []PlacesFit`. `LiveBackupIsServed` is not
  inductive: a loop removes the writers in its `dead` set, so those must be lost
  and stay lost, whatever the other loop or a handler does meanwhile (`LoopsFit`);
  a new connection must be nobody else's (`ReadersFit`); and the entry under way is
  the one before the queue (`QueueFits`). `ReplicationTypeCorrect` and
  `LiveBackupIsServedCorrect` are parts of it.
* `EntriesInOrder`, `ImplementsLogShippingCorrect`:
  `ReplicationSpec => ImplementsLogShipping`. `InOrder` says that inboxes ascend,
  that none holds an entry older than one its backup has, and that nothing is
  ahead of the broadcast loop; so whatever a backup reads next, also over its next
  connection, is a step of `LogShipping`.
* `GapFreeAlways`, `ConnectedMissNothingCorrect`. The property speaks of the time
  between two rounds; the invariant `GapFree` must say what holds within one: a
  connection that the iteration still has before it lacks exactly the entry under
  way (`SentTo`), one added during the round has carried nothing and may or may not be
  reached, and before ACK nothing has been sent (`HelloFits`). Where the set changes
  size under a waiting drain, the loop dies and the claim ends (the run
  `lost_broadcast`).

**Failover** (`FailoverProofs`), for all intervals, timeouts, delays and numbers
of heartbeats under way:

* `FailoverInvariant`, `TakesOverDisconnectedCorrect`:
  `FailoverSpec => []TakesOverDisconnected`. `StandsFit` ties the link to where
  `run` stands (there is none exactly while `run` dials or has ended) and the
  monitor to the connection.
* `TimingInvariant`, `OneServerCorrect`, `NoFalseAlarmCorrect`, under
  `TimeoutLeavesRoom` (the timeout is at least an interval and a delay).
  `NoFalseAlarm` needs a bound on the age of the last heartbeat, and the bound is
  not inductive without those under way: `HeardOf` says that while nothing was
  late the age is at most the time since the last heartbeat was sent, if none is
  under way, and otherwise at most an interval more than the age of the oldest.
  So the monitor raises only without a primary (`FiresForAReason`), and
  `PromotedAlone` keeps that fact until the server serves.

**Framing** (`FramingProofs`), for all messages and all sizes of headers and payloads:

* `FramingInvariant`: `FramingSpec => []FramingInv`. That what was read is a prefix of
  what was written says nothing about the bytes still to be read, so the invariant says where
  those are in the stream: there is a function `start` with the place of each
  frame; what has arrived, followed by what is under way, are the stream's
  bytes from `Position` on (`InPlace`), which is the start of the next frame or of its payload
  (`LengthFits`). A cut loses a suffix and leaves places alone; a message that is
  written extends `start` (`GrownStarts`). `HeaderIsNext` and `PayloadIsNext` are the core: the
  bytes that a read takes are those of one header or one payload (`ByteOfFrame`).
* `ImplementsChannelCorrect`: `FramingSpec => ImplementsChannel`, step by step.
* `EndsForAReasonCorrect`: the reader leaves only when the stream has ended or at a message
  longer than `MaxPayload`; no run checks it by itself.

**Web page** (`WebSessionProofs`), for any number of pages, clicks and seats:

* `SessionInvariant`: `SafeSpec => []SessionInv`. `OneTicketPerClick` counts tickets, but a
  booking the server has received and not yet carried out becomes one later, also when its
  page has given up. `Claimed` counts both, and `PageOK` says that it is at most the number of
  clicks, and less while the last click has not booked, or its refusal is shown or
  on its way. `InStep` ties the request under way to the step of the page.
* `OneTicketPerClickCorrect`, `ShownIsTrueCorrect` from it. `SessionSpec` is `SafeSpec`
  with fairness.

**Not proved**, checked by TLC only:

* Liveness (`WaitingEnds`, `RequestsAreAnswered`, `AllWorkersFinish`,
  `SilenceIsNoticed`, `TakeoverCompletes`, `MessagesArrive`, `PageReturns`): beyond
  the prover. All other properties of the passing runs, invariants, action properties and
  refinements, are theorems.
* Where a theorem's specification is narrower than all calls, the rest is not true of the
  code: `CarefulSpec`, `FaultyTierSpec` and `TierSpec` leave out the second cancellation of
  a ticket (finding `double_cancel`), and `TierSpec` and `NothingFails` leave out the
  append that fails within a cancellation, after which a seat is idle and a ticket waits.
* That a lock never outlives its request is not true of the code: a successful HOLD
  (`MCReservationServer_hold_leak`), a `KeyError` and an `OSError` keep theirs.
  `LocksFollowAnswers` says which answers those are.

## 5. What is not modelled

* **Seat holds under a crash**: `CrashRecovery` has the tier operations only. That
  a log with expired holds does not replay is `MCReservationDB_restart`.
* **The backup's database**: `Replication` follows its log. What replaying a log
  with gaps gives, after a late connection, is not examined beyond "an entry may
  raise".
* **Time and entries together**: `Replication` has no clock and `Failover` no
  entries. What joins them is the heartbeat task's death, which is an action in
  both.
* **The wait for ACK**: it has no timeout; a primary that vanishes then keeps its
  backup waiting for ever (a hazard without a property, since nothing promises an
  end).
* **STATUS, HEARTBEAT, unknown commands, CANCEL of an unknown ticket**: they
  change nothing and take no lock.
* **The Search, Cancel and Ticket Status tabs, the terminal menu**: each sends
  one request and shows its answer; their calls are in `ReservationDB` and
  `ReservationServer`.
* **A clock that goes back**: `time.time()` may; `Tick` does not.
* **Growth of `_locks`**: one entry per key ever used, never removed. Not visible
  with finitely many keys.
* **Command line, logging, shutdown**: `main` parses arguments, `stop` closes
  listeners as the process ends. Tests were read for what they expect.

## 6. State of the plan

Modelled and checked: the database, its abstract allocation and its log; locks,
handlers and harness; crashes; replication, failover, framing, the web page. Proved:
every safety property of every passing run, among them the chain of refinements from the workers
down to `SeatAllocation` (as long as no append fails), that of replication and that of framing.

Models that may follow: a backup's database under a log with gaps; seat holds in
`CrashRecovery`.
