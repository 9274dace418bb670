----------------------- MODULE ReservationServerProps -----------------------
(***************************************************************************)
(* What the request handlers promise.                                      *)
(***************************************************************************)
EXTENDS ReservationServer

Codes == {"none", "OK", "LOCK_TIMEOUT", "HOLD_FAILED", "BOOK_FAILED",
          "CANCEL_FAILED", "SERVER_ERROR"}

\* Every variable keeps the type the code gives it; a connection has a lock or
\* waits for one only while it works on a request.
ServerTypeOK ==
  /\ IsDB(db) /\ IsWal(wal) /\ clock \in 0..MaxClock
  /\ LockTypeOK
  /\ reply \in [Task -> [code : Codes, ticket_id : TicketId \cup {None},
                        status : {"none", "confirmed", "waiting", "cancelled"}]]
  /\ received \in 0..MaxRequests
  /\ \A t \in Task : request[t] = NoRequest <=> task[t] = Idle

\* Whatever the handlers of concurrent requests do to the database and its log
\* is a sequence of database operations: whole ones, but for a cancellation
\* that a failing append cuts short.
ImplementsReservationDB == Spec

\* First come, first served: a request is served only when no older one with
\* the same key is still waiting within its timeout.
FirstComeFirstServed ==
  [][\A t, u \in Task :
       /\ Serve(t)
       /\ request[u] # NoRequest
       /\ task[u].key = task[t].key
       /\ request[u].order < request[t].order
       => task[u].expired]_serverVars

\* Every request is answered, also when its lock was leaked by an earlier one.
RequestsAreAnswered ==
  \A t \in Task : request[t] # NoRequest ~> request[t] = NoRequest

InUse(k) == \E t \in Task : task[t].phase = "holding" /\ task[t].key = k

\* A lock and the answer of the request that has it go together.  Nobody else
\* frees it: not a request for the same key whose time is up, though release
\* asks no one whose lock it is, and not a later one after it was leaked.  And
\* it is freed, however a request is refused, unless the answer is SERVER_ERROR
\* or that of a HOLD that succeeded.
LocksFollowAnswers ==
  [][\A k \in Key :
       LET Ends(t) == /\ task[t].phase = "holding" /\ task[t].key = k
                      /\ request'[t] = NoRequest
       IN  /\ locks[k].locked /\ ~locks'[k].locked => \E t \in Task : Ends(t)
           /\ \A t \in Task :
                Ends(t) /\ locks'[k].locked =>
                  \/ reply'[t].code = "SERVER_ERROR"
                  \/ reply'[t].code = "OK" /\ request[t].cmd = "HOLD"]_serverVars

\* A lock is held only by a request in progress ("Per-seat locks support
\* legacy hold/book/release operations", README.md:42).
LockedMeansInUse == \A k \in Key : locks[k].locked => InUse(k)

\* "all operations that can change seat assignments or waiting lists for a
\* tier are serialized under the same lock" (docs/DESIGN.md:71), the tier lock.
SoldUnderTierLock ==
  [][\A k \in Tier :
       \/ db'.waiting_lists[k] # db.waiting_lists[k]
       \/ \E s \in Seat : /\ TierOf[s] = k
                          /\ db'.seats[s] # db.seats[s]
                          /\ db'.seats[s].state = "booked"
       => \E t \in Task : task[t].phase = "holding" /\ task[t].key = TierKey(k)
    ]_serverVars

\* "BOOK_FAILED: booking validation failed (e.g., invalid tier/train)"
\* (docs/PROTOCOL.md:132): booking on an unknown train is answered so.
UnknownTrainIsRefused ==
  [][\A t \in Task :
       ServeBookTier(t) /\ request[t].tier = Unknown =>
         reply'[t].code = "BOOK_FAILED"]_serverVars
=============================================================================
