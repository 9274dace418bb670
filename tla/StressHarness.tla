--------------------------- MODULE StressHarness ---------------------------
(***************************************************************************)
(* The whole system under the load of client/stress_harness.py: each       *)
(* worker has a connection of its own, books a tier, waits for the answer, *)
(* sometimes cancels the ticket it got, and starts over.                   *)
(***************************************************************************)
EXTENDS ReservationServerProps

CONSTANT Rounds  \* how often a worker books

VARIABLES
  pc,       \* where each worker is: it has sent "booking" or "cancelling"
  rounds,   \* rounds each worker has left
  success   \* confirmed bookings each worker counts

harnessVars == <<serverVars, pc, rounds, success>>

ASSUME HarnessAssumption == Rounds \in Nat /\ IsFiniteSet(Task)

HarnessInit ==
  /\ ServerInit
  /\ pc = [t \in Task |-> "start"]
  /\ rounds = [t \in Task |-> Rounds]
  /\ success = [t \in Task |-> 0]

SendBook(t) ==
  /\ pc[t] = "start"
  /\ rounds[t] > 0
  /\ \E k \in Tier : Receive(t, [cmd |-> "BOOK_TIER", tier |-> k])
  /\ pc' = [pc EXCEPT ![t] = "booking"]
  /\ UNCHANGED <<rounds, success>>

NextRound(t) ==
  /\ pc' = [pc EXCEPT ![t] = "start"]
  /\ rounds' = [rounds EXCEPT ![t] = @ - 1]

\* Mutant: the worker waits on when the answer is an error.
AnsweredOk(t, sent) ==
  pc[t] = sent /\ request[t] = NoRequest /\ reply[t].code = "OK"

Answered(t, sent) == pc[t] = sent /\ request[t] = NoRequest

\* Mutant: waiting tickets are counted too.
CountedAny(t) == success' = [success EXCEPT ![t] =
                               IF reply[t].code = "OK" THEN @ + 1 ELSE @]

Counted(t) == success' = [success EXCEPT ![t] =
                            IF reply[t].status = "confirmed" THEN @ + 1 ELSE @]

\* The worker keeps its ticket, or did not get one ...
KeepTicket(t) ==
  /\ Answered(t, "booking")
  /\ NextRound(t)
  /\ Counted(t)
  /\ UNCHANGED serverVars

\* ... or cancels it, whether it is confirmed or waiting.
SendCancel(t) ==
  /\ Answered(t, "booking")
  /\ reply[t].code = "OK"
  /\ Counted(t)
  /\ Receive(t, [cmd |-> "CANCEL", ticket_id |-> reply[t].ticket_id])
  /\ pc' = [pc EXCEPT ![t] = "cancelling"]
  /\ UNCHANGED rounds

\* Mutant: the worker sends its cancellation once more.
CancelAgain(t) ==
  /\ Answered(t, "cancelling")
  /\ reply[t].ticket_id # None
  /\ Receive(t, [cmd |-> "CANCEL", ticket_id |-> reply[t].ticket_id])
  /\ NextRound(t)
  /\ UNCHANGED success

\* The answer to a cancellation is not looked at.
CancelAnswered(t) ==
  /\ Answered(t, "cancelling")
  /\ NextRound(t)
  /\ UNCHANGED <<serverVars, success>>

WorkerStep(t) ==
  SendBook(t) \/ KeepTicket(t) \/ SendCancel(t) \/ CancelAnswered(t)

HarnessNext ==
  \E t \in Task : WorkerStep(t) \/ (Handle(t) /\ UNCHANGED <<pc, rounds, success>>)

HarnessSpec ==
  /\ HarnessInit
  /\ [][HarnessNext]_harnessVars
  /\ Fairness
  /\ \A t \in Task : WF_harnessVars(WorkerStep(t))

-----------------------------------------------------------------------------
(* Properties. *)

\* Under this load the database sees only what FaultyTierSpec allows: bookings
\* by tier, and no ticket cancelled twice even when an answer was a timeout or a
\* failing append.
ImplementsFaultyTierSpec == FaultyTierSpec

\* The run ends: no worker waits for ever for an answer.
AllWorkersFinish == <>(\A t \in Task : pc[t] = "start" /\ rounds[t] = 0)

\* The number printed at the end does not exaggerate: as many tickets have had
\* a seat as the workers count, for every client.
CountedBookingsHadSeats ==
  \A c \in Client :
    LET had == {id \in DOMAIN db.tickets :
                  /\ db.tickets[id].client_id = c
                  /\ db.tickets[id].seat_id # None}
        mine == {t \in Task : ClientOf[t] = c}
    IN  FoldFunctionOnSet(+, 0, success, mine) <= Cardinality(had)
=============================================================================
