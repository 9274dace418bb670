--------------------------- MODULE CrashRecovery ---------------------------
(***************************************************************************)
(* Wal.append and the restart of the server, step by step: an operation    *)
(* changes memory, then appends the entry, and cancel_ticket does both     *)
(* twice when it promotes.  The process may die between any two steps, in  *)
(* the middle of a line included, and a write or fsync may fail.           *)
(*                                                                         *)
(* The operations are the tier bookings and the cancellations of the       *)
(* shipped clients, who cancel only what they were told they have.         *)
(* ReservationDB has the same operations as whole steps.  Handlers run     *)
(* between two operations only: no method of the database awaits.          *)
(***************************************************************************)
EXTENDS DBState

CONSTANTS
  MaxTickets,  \* bound: tickets in memory
  MaxBoots     \* bound: starts of the process

ASSUME CrashBoundsAssumption == MaxTickets \in Nat /\ MaxBoots \in Nat \ {0}

VARIABLES
  boots,   \* how often the process was started; stands for the clock
  up,      \* it runs
  db,      \* the database in memory
  wal,     \* the complete lines of the log file, as the outcome of replay
  torn,    \* an incomplete line follows them
  buffer,  \* entries left in the file object by a failed write
  call,    \* the operation under way
  stuck,   \* lock keys that an escaped OSError left taken
  told     \* what a client was last told of each ticket

memory == <<db, call, stuck>>
file == <<wal, torn, buffer>>
vars == <<boots, up, db, wal, torn, buffer, call, stuck, told>>

\* No operation is under way.
Idle == [key |-> None, todo |-> <<>>, changed |-> FALSE, answer |-> <<>>]

Init ==
  /\ boots = 1 /\ up = TRUE
  /\ db = FreshDB /\ wal = WalState(TRUE, FreshDB)
  /\ torn = FALSE /\ buffer = <<>>
  /\ call = Idle /\ stuck = {}
  /\ told = [t \in {} |-> None]

-----------------------------------------------------------------------------
(* The operations.  A handler takes the lock of key, then makes the changes   *)
(* that the entries describe; answer is <<ticket, status, seat>>.             *)

Begin(key, entries, answer) ==
  /\ up /\ call = Idle
  /\ key \notin stuck
  /\ call' = [key |-> key, todo |-> entries, changed |-> FALSE,
              answer |-> answer]
  /\ told' = [t \in DOMAIN told \ {answer[1]} |-> told[t]]
  /\ UNCHANGED <<boots, up, db, file, stuck>>

NewTicket == NewTicketId(db, boots)

MayIssue == Cardinality(DOMAIN db.tickets) < MaxTickets

ConfirmFrom(key, seats, k, c) ==
  /\ MayIssue /\ seats # {}
  /\ Begin(key, <<BookTierEntry(NewTicket, c, k, Min(seats))>>,
           <<NewTicket, "confirmed", Min(seats)>>)

BookByTier(k, c) == ConfirmFrom(<<k>>, AvailableIn(db, k), k, c)

JoinWaitingList(k, c) ==
  /\ MayIssue /\ AvailableIn(db, k) = {}
  /\ Begin(<<k>>, <<WaitlistAddEntry(NewTicket, c, k)>>,
           <<NewTicket, "waiting", None>>)

BookByTierAndSeatNumber(k, n, c) ==
  ConfirmFrom(<<k, n>>, AvailableNumbered(db, k, n), k, c)

\* Mutant: the promotion is logged before the cancellation it follows from.
PromoteFirst(t) ==
  LET ticket == db.tickets[t]
      queue  == Dequeue(db.waiting_lists, ticket.tier, t)[ticket.tier]
      cancel == CancelEntry(t, ticket.tier, ticket.seat_id)
  IN  IF ticket.seat_id = None \/ queue = <<>>
        THEN <<cancel>>
        ELSE <<PromoteEntry(Head(queue), ticket.tier, ticket.seat_id), cancel>>

\* CANCEL_TICKET, and PROMOTE_TICKET if a seat came free and a ticket waits.
CancelEntries(t) ==
  LET ticket == db.tickets[t]
      queue  == Dequeue(db.waiting_lists, ticket.tier, t)[ticket.tier]
      cancel == CancelEntry(t, ticket.tier, ticket.seat_id)
  IN  IF ticket.seat_id = None \/ queue = <<>>
        THEN <<cancel>>
        ELSE <<cancel, PromoteEntry(Head(queue), ticket.tier, ticket.seat_id)>>

CancelTicket(t) ==
  /\ told[t][2] # "cancelled"
  /\ Begin(<<db.tickets[t].tier>>, CancelEntries(t), <<t, "cancelled", None>>)

Change ==
  /\ up /\ call.todo # <<>> /\ ~call.changed
  /\ db' = ApplyEntry(db, Head(call.todo))
  /\ call' = [call EXCEPT !.changed = TRUE]
  /\ UNCHANGED <<boots, up, file, stuck, told>>

-----------------------------------------------------------------------------
(* Wal.append. *)

\* What a flush writes: entries left behind by failed writes come first.
Lines == IF call.changed THEN Append(buffer, Head(call.todo)) ELSE buffer

LoggedAll(w, entries) ==
  LET after[n \in 0..Len(entries)] ==
        IF n = 0 THEN w ELSE Logged(after[n - 1], entries[n])
  IN  after[Len(entries)]

Appending == up /\ call.changed

\* Mutant: what a failed write left behind is thrown away.
AppendDiscardingBuffer ==
  /\ Appending
  /\ wal' = Logged(wal, Head(call.todo))
  /\ buffer' = <<>>
  /\ call' = [call EXCEPT !.todo = Tail(@), !.changed = FALSE]
  /\ UNCHANGED <<boots, up, db, torn, stuck, told>>

\* Mutant: without flush and fsync, lines stay in the file object.
AppendUnflushed ==
  /\ Appending
  /\ buffer' = Lines
  /\ call' = [call EXCEPT !.todo = Tail(@), !.changed = FALSE]
  /\ UNCHANGED <<boots, up, db, wal, torn, stuck, told>>

AppendSucceeds ==
  /\ Appending
  /\ wal' = LoggedAll(wal, Lines)
  /\ buffer' = <<>>
  /\ call' = [call EXCEPT !.todo = Tail(@), !.changed = FALSE]
  /\ UNCHANGED <<boots, up, db, torn, stuck, told>>

\* The OSError reaches the outermost handler: SERVER_ERROR, the lock stays.
Escapes == call' = Idle /\ stuck' = stuck \cup {call.key}

WriteFails ==
  /\ Appending
  /\ buffer' = Lines
  /\ Escapes
  /\ UNCHANGED <<boots, up, db, wal, torn, told>>

SyncFails ==
  /\ Appending
  /\ wal' = LoggedAll(wal, Lines)
  /\ buffer' = <<>>
  /\ Escapes
  /\ UNCHANGED <<boots, up, db, torn, told>>

Answer ==
  /\ up /\ call # Idle /\ call.todo = <<>>
  /\ told' = [t \in DOMAIN told \cup {call.answer[1]} |->
                IF t = call.answer[1] THEN call.answer ELSE told[t]]
  /\ call' = Idle
  /\ UNCHANGED <<boots, up, db, file, stuck>>

-----------------------------------------------------------------------------
(* Crash and restart. *)

\* Of the lines not known to be in the file, some are, and part of the next.
Crash ==
  /\ up /\ up' = FALSE
  /\ \E n \in 0..Len(Lines) :
       /\ wal' = LoggedAll(wal, SubSeq(Lines, 1, n))
       /\ torn' \in {FALSE, n < Len(Lines)}
  /\ buffer' = <<>>
  /\ db' = FreshDB /\ call' = Idle /\ stuck' = {}
  /\ UNCHANGED <<boots, told>>

\* from_wal, unless json.loads or the replay of an entry raises.
Restart ==
  /\ ~up /\ boots < MaxBoots
  /\ ~torn /\ wal.replays
  /\ up' = TRUE /\ boots' = boots + 1
  /\ db' = wal.rebuilt
  /\ UNCHANGED <<file, call, stuck, told>>

-----------------------------------------------------------------------------
Next ==
  \/ \E k \in Tier, c \in Client :
       \/ BookByTier(k, c) \/ JoinWaitingList(k, c)
       \/ \E n \in {NumberOf[s] : s \in Seat} : BookByTierAndSeatNumber(k, n, c)
  \/ \E t \in DOMAIN told : CancelTicket(t)
  \/ Change \/ AppendSucceeds \/ WriteFails \/ SyncFails \/ Answer
  \/ Crash \/ Restart

CrashSpec == Init /\ [][Next]_vars

-----------------------------------------------------------------------------
(* What durability promises. *)

CrashTypeOK ==
  /\ IsDB(db) /\ IsWal(wal)
  /\ boots \in 1..MaxBoots
  /\ up \in BOOLEAN /\ torn \in BOOLEAN /\ call.changed \in BOOLEAN
  /\ call.changed => call.todo # <<>>
  /\ DOMAIN told \subseteq TicketId

\* What a client was told is in the file, so every restart finds it: whatever
\* fails or crashes later, and in the middle of whatever operation.
ToldIsDurable ==
  \A t \in DOMAIN told :
    LET status == told[t][2]
        seat   == told[t][3]
        now    == wal.rebuilt.tickets[t]
    IN  /\ t \in DOMAIN wal.rebuilt.tickets
        /\ status = "cancelled" => now.status = "cancelled"
        /\ status = "confirmed" => now.status = "confirmed" /\ now.seat_id = seat
        /\ status = "waiting" => now.status \in {"waiting", "confirmed"}

\* Between operations memory is what the file and the entries left behind by
\* failed writes add up to: a failed operation is neither lost nor repeated by
\* the appends that succeed after it.
MemoryIsLogAndBuffer ==
  up /\ call = Idle => LoggedAll(wal, buffer) = WalState(TRUE, db)

\* Wherever the process died, the log has one owner for each seat at most and
\* every seat it calls booked belongs to a ticket.
CrashKeepsSeatsConsistent ==
  LET d == wal.rebuilt
      Holds(t, s) == d.tickets[t].status = "confirmed" /\ d.tickets[t].seat_id = s
  IN  \A s \in Seat :
        Cardinality({t \in DOMAIN d.tickets : Holds(t, s)})
          = IF d.seats[s] = BookedSeat THEN 1 ELSE 0

\* src/docs/DESIGN.md:101: "This ensures that booked seats survive crashes and
\* that the in-memory state is rebuilt consistently from disk."  After a crash
\* the log can be replayed.
LogIsReadable == ~up => ~torn

\* src/docs/DESIGN.md:71-73: "there is no chance for: ... Lost promotions".
\* Once started and between operations, no seat is free that a ticket of its
\* tier waits for.
NoLostPromotion ==
  up /\ call = Idle =>
    \A k \in Tier : db.waiting_lists[k] # <<>> => AvailableIn(db, k) = {}
=============================================================================
