----------------------------- MODULE WebSession -----------------------------
(***************************************************************************)
(* Users at the "Book" tab of the web page (streamlit_app.py), their       *)
(* connections (client/client.py, _handle_client in server/server.py) and  *)
(* the database.  Streamlit runs the page's script from the top at every   *)
(* change of a widget and at every click: each run asks for the available  *)
(* seat numbers first, rebuilds the list of seats to pick from, and books  *)
(* at its end if the button was what started it.  Every request has a      *)
(* connection of its own, which may break before or after the server has   *)
(* acted; a request the server has received is carried out in any case.    *)
(*                                                                         *)
(* One tier of one train; each page has a client id of its own.            *)
(***************************************************************************)
EXTENDS DBState

CONSTANTS
  AutoAllocation,  \* the option "Auto Allocation"
  MaxClicks        \* bound: clicks on "Book Ticket", for each page

ASSUME SessionAssumption ==
  /\ AutoAllocation \notin Nat
  /\ MaxClicks \in Nat
  /\ Tier # {}

Page == Client
TheTier == CHOOSE k \in Tier : TRUE
Number == {NumberOf[s] : s \in Seat}
Pick == Number \cup {AutoAllocation}

VARIABLES
  db,      \* the server's database
  page,    \* the state of each page and of its session
  request, \* the request each page waits for
  orphans  \* bookings that the server has received and whose page is gone

vars == <<db, page, request, orphans>>

\* What the server answers to a booking, and what a page shows of one.
Ticketed(t) == [result |-> "ticket", ticket |-> t]
NoTicket(result) == [result |-> result, ticket |-> None]

NoRequest == [kind |-> "none", pick |-> AutoAllocation, state |-> "none",
              answer |-> None]

Init ==
  /\ db = FreshDB
  /\ page = [p \in Page |-> [step |-> "idle", options |-> {},
                             pick |-> AutoAllocation, meant |-> AutoAllocation,
                             clicks |-> 0, shown |-> NoTicket("none")]]
  /\ request = [p \in Page |-> NoRequest]
  /\ orphans = {}

-----------------------------------------------------------------------------
(* The server: _handle_client reads a request, acts and answers. *)

\* What a booking does and answers: book_by_tier, or with a seat number
\* book_by_tier_and_seat_number.
Outcome(p, pick) ==
  LET t == NewTicketId(db, 0)
      seats == IF pick = AutoAllocation THEN AvailableIn(db, TheTier)
                              ELSE AvailableNumbered(db, TheTier, pick)
  IN  CASE seats # {} ->
             [db |-> BookTierNoLog(db, t, p, TheTier, Min(seats)),
              answer |-> Ticketed(t)]
        [] seats = {} /\ pick = AutoAllocation ->
             [db |-> WaitlistAddNoLog(db, t, p, TheTier), answer |-> Ticketed(t)]
        [] OTHER -> [db |-> db, answer |-> NoTicket("error")]

Answered(p, a) ==
  request' = [request EXCEPT ![p].state = "answered", ![p].answer = a]

HandleList(p) ==
  /\ request[p].kind = "list" /\ request[p].state = "sent"
  /\ Answered(p, {NumberOf[s] : s \in AvailableIn(db, TheTier)})
  /\ UNCHANGED <<db, page, orphans>>

HandleBook(p) ==
  /\ request[p].kind = "book" /\ request[p].state = "sent"
  /\ db' = Outcome(p, request[p].pick).db
  /\ Answered(p, Outcome(p, request[p].pick).answer)
  /\ UNCHANGED <<page, orphans>>

\* Mutant: LOCK_TIMEOUT is answered although the booking was made.
RefuseLate(p) ==
  /\ request[p].kind = "book" /\ request[p].state = "sent"
  /\ db' = Outcome(p, request[p].pick).db
  /\ Answered(p, NoTicket("error"))
  /\ UNCHANGED <<page, orphans>>

\* LOCK_TIMEOUT: another request holds the lock for too long.
Refuse(p) ==
  /\ request[p].kind = "book" /\ request[p].state = "sent"
  /\ Answered(p, NoTicket("error"))
  /\ UNCHANGED <<db, page, orphans>>

HandleOrphan(o) ==
  /\ db' = Outcome(o[1], o[3]).db
  /\ orphans' = orphans \ {o}
  /\ UNCHANGED <<page, request>>

-----------------------------------------------------------------------------
(* Connections. *)

\* The connection breaks.  A booking may have reached the server by then.
Break(p) ==
  /\ request[p].state \in {"sent", "answered"}
  /\ request' = [request EXCEPT ![p].state = "broken"]
  /\ orphans' \in {orphans} \cup
       IF request[p].kind = "book" /\ request[p].state = "sent"
         THEN {orphans \cup {<<p, page[p].clicks, request[p].pick>>}} ELSE {}
  /\ UNCHANGED <<db, page>>

Ask(p, kind, pick) ==
  request' = [request EXCEPT ![p] = [kind |-> kind, pick |-> pick,
                                     state |-> "sent", answer |-> None]]

-----------------------------------------------------------------------------
(* The page. *)

\* The user picks a seat: the script runs, and no button was clicked.
Select(p, pick) ==
  /\ page[p].step = "idle"
  /\ pick \in page[p].options \cup {AutoAllocation}
  /\ page' = [page EXCEPT ![p].step = "viewing", ![p].pick = pick]
  /\ Ask(p, "list", AutoAllocation)
  /\ UNCHANGED <<db, orphans>>

Click(p) ==
  /\ page[p].step = "idle" /\ page[p].clicks < MaxClicks
  /\ page' = [page EXCEPT ![p].step = "clicked", ![p].meant = page[p].pick,
                          ![p].clicks = @ + 1, ![p].shown = NoTicket("none")]
  /\ Ask(p, "list", AutoAllocation)
  /\ UNCHANGED <<db, orphans>>

\* What st.selectbox returns: a selection that is no longer offered becomes the
\* first option, and whether another one outlives a change of the list of
\* options is up to the version of Streamlit.
Picked(p, options) ==
  CASE options = page[p].options -> {page[p].pick}
    [] options # page[p].options ->
         {AutoAllocation} \cup ({page[p].pick} \cap options)

\* The rest of the script once the options are known.
Continue(p, options) ==
  \E pick \in Picked(p, options) :
    LET next == IF page[p].step = "clicked" THEN "booking" ELSE "idle"
    IN
      /\ page' = [page EXCEPT ![p].options = options, ![p].pick = pick,
                              ![p].step = next]
      /\ IF next = "booking" THEN Ask(p, "book", pick)
                             ELSE request' = [request EXCEPT ![p] = NoRequest]
      /\ UNCHANGED <<db, orphans>>

Listed(p) ==
  /\ page[p].step \in {"viewing", "clicked"} /\ request[p].state = "answered"
  /\ Continue(p, request[p].answer)

\* Mutant: the list is asked for again until it comes.
ListAgain(p) ==
  /\ page[p].step \in {"viewing", "clicked"} /\ request[p].state = "broken"
  /\ Ask(p, "list", AutoAllocation)
  /\ UNCHANGED <<db, page, orphans>>

\* "Failed to fetch available seats": the list has no seat, the script goes on.
ListFails(p) ==
  /\ page[p].step \in {"viewing", "clicked"} /\ request[p].state = "broken"
  /\ Continue(p, {})

Shows(p, what) ==
  /\ page' = [page EXCEPT ![p].step = "idle", ![p].shown = what]
  /\ request' = [request EXCEPT ![p] = NoRequest]
  /\ UNCHANGED <<db, orphans>>

Booked(p) ==
  /\ page[p].step = "booking" /\ request[p].state = "answered"
  /\ Shows(p, request[p].answer)

\* Mutant: a request that failed is sent again.
BookAgain(p) ==
  /\ page[p].step = "booking" /\ request[p].state = "broken"
  /\ Ask(p, "book", page[p].pick)
  /\ UNCHANGED <<db, page, orphans>>

\* "Request failed": nothing is sent again.
BookFails(p) ==
  /\ page[p].step = "booking" /\ request[p].state = "broken"
  /\ Shows(p, NoTicket("failed"))

-----------------------------------------------------------------------------
Server(p) == HandleList(p) \/ HandleBook(p) \/ Refuse(p)
Script(p) == Listed(p) \/ ListFails(p) \/ Booked(p) \/ BookFails(p)

Next ==
  \/ \E p \in Page :
       \/ Server(p) \/ Break(p) \/ Script(p) \/ Click(p)
       \/ \E pick \in Pick : Select(p, pick)
  \/ \E o \in orphans : HandleOrphan(o)

SafeSpec == Init /\ [][Next]_vars

\* The server answers what it receives (RequestsAreAnswered), scripts run.
SessionSpec ==
  /\ SafeSpec
  /\ \A p \in Page : WF_vars(Server(p)) /\ WF_vars(Script(p))

-----------------------------------------------------------------------------
TicketsOf(p) == {t \in DOMAIN db.tickets : db.tickets[t].client_id = p}

\* A click books once at most, whatever is lost: no ticket comes from a
\* request sent again (the server remembers no req_id, so it would book it).
OneTicketPerClick ==
  \A p \in Page : Cardinality(TicketsOf(p)) <= page[p].clicks

\* The ticket that a page shows is its client's own, and a click that is shown
\* to be refused left no ticket of its own behind: what the user has is what
\* the user was shown, or the page said that the request failed.
ShownIsTrue ==
  \A p \in Page :
    LET shown == page[p].shown
    IN  /\ shown.result = "ticket" => shown.ticket \in TicketsOf(p)
        /\ shown.result = "error" => Cardinality(TicketsOf(p)) < page[p].clicks

\* A page does not wait for ever.
PageReturns == \A p \in Page : page[p].step # "idle" ~> page[p].step = "idle"

\* src/streamlit_app.py:120: "Book by tier with optional seat-number selection
\* for lock demo."  Who has selected a seat number is shown a ticket for that
\* seat, or no ticket.
SelectionIsHonoured ==
  \A p \in Page :
    page[p].shown.result = "ticket" /\ page[p].meant # AutoAllocation =>
      LET seat == db.tickets[page[p].shown.ticket].seat_id
      IN  seat # None /\ NumberOf[seat] = page[p].meant
=============================================================================
