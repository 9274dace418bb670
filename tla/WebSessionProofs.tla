-------------------------- MODULE WebSessionProofs --------------------------
(***************************************************************************)
(* What a user of the web page can rely on, for any number of pages, seats *)
(* and clicks: a click books once at most, and what a page shows is true.  *)
(*                                                                         *)
(* Neither is inductive by itself.  A click that was not answered may      *)
(* still become a ticket: its booking is on its way to the server, or the  *)
(* server has it although the page gave up.  The invariant counts the      *)
(* tickets of a page, the bookings of it that the server has left to do    *)
(* and the one that is under way, together, against its clicks.            *)
(***************************************************************************)
EXTENDS WebSession, DBStateProofs

-----------------------------------------------------------------------------
(* The inductive invariant. *)

TicketsIn(d, p) == {t \in DOMAIN d.tickets : d.tickets[t].client_id = p}

\* Bookings of the page that the server has received and will carry out.
Lost(os, p) == {o \in os : o[1] = p}

\* What may still become of earlier clicks, and what has.
Claimed(d, os, p) == Cardinality(TicketsIn(d, p)) + Cardinality(Lost(os, p))

Showing == [result : {"none", "ticket", "error", "failed"},
            ticket : TicketId \cup {None}]

PageRecord == [step : {"idle", "viewing", "clicked", "booking"},
               options : SUBSET Number, pick : Pick, meant : Pick,
               clicks : Nat, shown : Showing]

Answers == (SUBSET Number) \cup Showing \cup {None}

RequestRecord == [kind : {"none", "list", "book"}, pick : Pick,
                  state : {"none", "sent", "answered", "broken"},
                  answer : Answers]

\* A page waits for the request that its step is about.
InStep(pg, rq) ==
  /\ rq.kind = "none" <=> pg.step = "idle"
  /\ rq.kind = "list" <=> pg.step \in {"viewing", "clicked"}
  /\ rq.kind = "none" <=> rq.state = "none"
  /\ pg.step \in {"clicked", "booking"} => pg.shown.result = "none"
  /\ rq.kind = "list" /\ rq.state = "answered" => rq.answer \in SUBSET Number
  /\ rq.kind = "book" /\ rq.state = "answered" =>
       rq.answer \in Showing /\ rq.answer.result \in {"ticket", "error"}

\* The page's last click will book, or its booking has not been received.
Underway(pg, rq) ==
  pg.step = "clicked" \/ (rq.kind = "book" /\ rq.state = "sent")

\* What a page shows, or is about to, is true.
IsTrue(d, os, p, clicks, shown) ==
  /\ shown.result = "ticket" => shown.ticket \in TicketsIn(d, p)
  /\ shown.result = "error" => Claimed(d, os, p) < clicks

PageOK(d, os, p, pg, rq) ==
  /\ InStep(pg, rq)
  /\ Claimed(d, os, p) <= pg.clicks
  /\ Underway(pg, rq) => Claimed(d, os, p) < pg.clicks
  /\ rq.kind = "book" /\ rq.state = "answered" =>
       IsTrue(d, os, p, pg.clicks, rq.answer)
  /\ IsTrue(d, os, p, pg.clicks, pg.shown)

SessionInv ==
  /\ IsDB(db) /\ TicketsAreNumbered(db)
  /\ IsFiniteSet(orphans)
  /\ \A o \in orphans : o \in Page \X Nat \X Pick
  /\ page \in [Page -> PageRecord]
  /\ request \in [Page -> RequestRecord]
  /\ \A p \in Page : PageOK(db, orphans, p, page[p], request[p])

-----------------------------------------------------------------------------
(* What a booking does to the tickets of each page. *)

Books(d, e, p, t) ==
  /\ t \in TicketId /\ t \notin DOMAIN d.tickets
  /\ DOMAIN e.tickets = DOMAIN d.tickets \cup {t}
  /\ e.tickets[t].client_id = p
  /\ \A u \in DOMAIN d.tickets : e.tickets[u] = d.tickets[u]

\* The server books one new ticket for the page, or changes nothing and says so.
LEMMA OutcomeMeaning ==
  ASSUME IsDB(db), TicketsAreNumbered(db), NEW p \in Page, NEW pick
  PROVE  LET r == Outcome(p, pick) IN
         /\ IsDB(r.db) /\ TicketsAreNumbered(r.db)
         /\ \/ \E t : Books(db, r.db, p, t) /\ r.answer = Ticketed(t)
            \/ r.db = db /\ r.answer = NoTicket("error")
<1> DEFINE t == NewTicketId(db, 0)
           seats == IF pick = AutoAllocation THEN AvailableIn(db, TheTier)
                                   ELSE AvailableNumbered(db, TheTier, pick)
           r == Outcome(p, pick)
<1>1. t \in TicketId /\ t \notin DOMAIN db.tickets
  BY NewTicketIsLast
<1>2. TheTier \in Tier /\ p \in Client
  BY SessionAssumption DEF TheTier, Page
<1>3. CASE seats # {}
  <2> DEFINE s == Min(seats)
             e == BookTierNoLog(db, t, p, TheTier, s)
  <2>1. seats \in SUBSET Seat /\ seats \in SUBSET Nat
    BY DBAssumption DEF AvailableIn, AvailableNumbered
  <2>2. s \in Seat
    BY <1>3, <2>1, MinIsElement
  <2>3. r.db = e /\ r.answer = Ticketed(t)
    BY <1>3 DEF Outcome
  <2> HIDE DEF s, seats, r
  <2>4. IsDB(e)
    BY <1>1, <1>2, <2>2, BookTierType
  <2>5. /\ DOMAIN e.tickets = DOMAIN db.tickets \cup {t}
        /\ e.tickets[t].client_id = p
        /\ \A u \in DOMAIN db.tickets : u # t => e.tickets[u] = db.tickets[u]
    BY BookTierMeaning
  <2> HIDE DEF e
  <2>6. TicketsAreNumbered(e)
    BY <2>5, AddedTicketIsNumbered
  <2>7. Books(db, e, p, t)
    BY <1>1, <2>5 DEF Books
  <2>8. QED
    BY <2>3, <2>4, <2>6, <2>7 DEF r
<1>4. CASE seats = {} /\ pick = AutoAllocation
  <2> DEFINE e == WaitlistAddNoLog(db, t, p, TheTier)
  <2>1. r.db = e /\ r.answer = Ticketed(t)
    BY <1>4 DEF Outcome
  <2> HIDE DEF seats, r
  <2>2. IsDB(e)
    BY <1>1, <1>2, WaitlistAddType
  <2>3. /\ DOMAIN e.tickets = DOMAIN db.tickets \cup {t}
        /\ e.tickets[t].client_id = p
        /\ \A u \in DOMAIN db.tickets : u # t => e.tickets[u] = db.tickets[u]
    BY WaitlistAddMeaning
  <2> HIDE DEF e
  <2>4. TicketsAreNumbered(e)
    BY <2>3, AddedTicketIsNumbered
  <2>5. Books(db, e, p, t)
    BY <1>1, <2>3 DEF Books
  <2>6. QED
    BY <2>1, <2>2, <2>4, <2>5 DEF r
<1>5. CASE seats = {} /\ pick # AutoAllocation
  <2>1. r = [db |-> db, answer |-> NoTicket("error")]
    BY <1>5 DEF Outcome
  <2>2. QED
    BY <2>1
<1>6. QED
  BY <1>3, <1>4, <1>5

\* What a page may be shown.
LEMMA NotesAreShown ==
  /\ \A t \in TicketId : /\ Ticketed(t) \in Showing
                         /\ Ticketed(t).result = "ticket" /\ Ticketed(t).ticket = t
  /\ \A r \in {"none", "error", "failed"} :
       NoTicket(r) \in Showing /\ NoTicket(r).result = r
BY DEF Ticketed, NoTicket, Showing

LEMMA CountsAreNumbers ==
  ASSUME NEW d, IsDB(d), NEW os, IsFiniteSet(os), NEW p
  PROVE  /\ IsFiniteSet(TicketsIn(d, p)) /\ IsFiniteSet(Lost(os, p))
         /\ Cardinality(TicketsIn(d, p)) \in Nat
         /\ Cardinality(Lost(os, p)) \in Nat
         /\ Claimed(d, os, p) \in Nat
<1>1. IsFiniteSet(TicketsIn(d, p))
  BY FS_Subset DEF IsDB, TicketsIn
<1>2. IsFiniteSet(Lost(os, p))
  BY FS_Subset DEF Lost
<1>3. QED
  BY <1>1, <1>2, FS_CardinalityType DEF Claimed

\* The ticket is one more of the page that asked, and no other page's.
LEMMA BookedTickets ==
  ASSUME NEW d, IsDB(d), NEW e, NEW p, NEW t, Books(d, e, p, t)
  PROVE  /\ \A q : q # p => TicketsIn(e, q) = TicketsIn(d, q)
         /\ TicketsIn(e, p) = TicketsIn(d, p) \cup {t}
         /\ Cardinality(TicketsIn(e, p)) = Cardinality(TicketsIn(d, p)) + 1
<1>1. \A q : q # p => TicketsIn(e, q) = TicketsIn(d, q)
  BY DEF Books, TicketsIn
<1>2. TicketsIn(e, p) = TicketsIn(d, p) \cup {t}
  BY DEF Books, TicketsIn
<1>3. t \notin TicketsIn(d, p)
  BY DEF Books, TicketsIn
<1>4. IsFiniteSet(TicketsIn(d, p))
  BY FS_Subset DEF IsDB, TicketsIn
<1>5. QED
  BY <1>1, <1>2, <1>3, <1>4, FS_AddElement

LEMMA OneMoreLost ==
  ASSUME NEW os, IsFiniteSet(os), NEW o
  PROVE  /\ IsFiniteSet(os \cup {o})
         /\ \A q : q # o[1] => Lost(os \cup {o}, q) = Lost(os, q)
         /\ Cardinality(Lost(os \cup {o}, o[1])) <= Cardinality(Lost(os, o[1])) + 1
<1>1. IsFiniteSet(os \cup {o})
  BY FS_AddElement
<1>2. \A q : q # o[1] => Lost(os \cup {o}, q) = Lost(os, q)
  BY DEF Lost
<1>3. Lost(os \cup {o}, o[1]) = Lost(os, o[1]) \cup {o}
  BY DEF Lost
<1>4. IsFiniteSet(Lost(os, o[1]))
  BY FS_Subset DEF Lost
<1>5. Cardinality(Lost(os, o[1])) \in Nat
  BY <1>4, FS_CardinalityType
<1>6. Cardinality(Lost(os, o[1]) \cup {o}) <= Cardinality(Lost(os, o[1])) + 1
  <2> DEFINE S == Lost(os, o[1])
  <2> HIDE DEF S
  <2>1. Cardinality(S \cup {o}) = IF o \in S THEN Cardinality(S) ELSE Cardinality(S) + 1
    BY <1>4, FS_AddElement DEF S
  <2>2. QED
    BY <1>5, <2>1 DEF S
<1>7. QED
  BY <1>1, <1>2, <1>3, <1>6

LEMMA OneLostLess ==
  ASSUME NEW os, IsFiniteSet(os), NEW o \in os
  PROVE  /\ IsFiniteSet(os \ {o})
         /\ \A q : q # o[1] => Lost(os \ {o}, q) = Lost(os, q)
         /\ Cardinality(Lost(os \ {o}, o[1])) = Cardinality(Lost(os, o[1])) - 1
<1>1. IsFiniteSet(os \ {o})
  BY FS_RemoveElement
<1>2. \A q : q # o[1] => Lost(os \ {o}, q) = Lost(os, q)
  BY DEF Lost
<1>3. Lost(os \ {o}, o[1]) = Lost(os, o[1]) \ {o} /\ o \in Lost(os, o[1])
  BY DEF Lost
<1>4. IsFiniteSet(Lost(os, o[1]))
  BY FS_Subset DEF Lost
<1>5. QED
  BY <1>1, <1>2, <1>3, <1>4, FS_RemoveElement

-----------------------------------------------------------------------------
(* A step of one page. *)

OnlyPage(p) ==
  /\ page' \in [Page -> PageRecord]
  /\ request' \in [Page -> RequestRecord]
  /\ \A q \in Page : q # p => page'[q] = page[q] /\ request'[q] = request[q]

\* The other pages do not notice, as long as the server books nothing for them.
LEMMA PageStep ==
  ASSUME SessionInv, NEW p \in Page, OnlyPage(p),
         IsDB(db'), TicketsAreNumbered(db'), IsFiniteSet(orphans'),
         \A o \in orphans' : o \in Page \X Nat \X Pick,
         \A q \in Page : q # p => /\ TicketsIn(db', q) = TicketsIn(db, q)
                                  /\ Lost(orphans', q) = Lost(orphans, q),
         PageOK(db', orphans', p, page'[p], request'[p])
  PROVE  SessionInv'
<1>1. ASSUME NEW q \in Page, q # p
      PROVE  PageOK(db', orphans', q, page'[q], request'[q])
  <2>1. PageOK(db, orphans, q, page[q], request[q])
    BY DEF SessionInv
  <2>2. page'[q] = page[q] /\ request'[q] = request[q]
    BY <1>1 DEF OnlyPage
  <2>3. TicketsIn(db', q) = TicketsIn(db, q) /\ Lost(orphans', q) = Lost(orphans, q)
    BY <1>1
  <2>4. QED
    BY <2>1, <2>2, <2>3 DEF PageOK, IsTrue, Claimed
<1>2. \A q \in Page : PageOK(db', orphans', q, page'[q], request'[q])
  BY <1>1
<1>3. QED
  BY <1>2 DEF SessionInv, OnlyPage

\* The same of a step that only the page and its request take.
LEMMA QuietStep ==
  ASSUME SessionInv, NEW p \in Page, OnlyPage(p),
         db' = db, orphans' = orphans,
         PageOK(db, orphans, p, page'[p], request'[p])
  PROVE  SessionInv'
<1>1. /\ IsDB(db') /\ TicketsAreNumbered(db') /\ IsFiniteSet(orphans')
      /\ \A o \in orphans' : o \in Page \X Nat \X Pick
  BY DEF SessionInv
<1>2. PageOK(db', orphans', p, page'[p], request'[p])
  OBVIOUS
<1>3. QED
  BY <1>1, <1>2, PageStep

\* What the invariant says of one page.
LEMMA ThisPage ==
  ASSUME SessionInv, NEW p \in Page
  PROVE  /\ PageOK(db, orphans, p, page[p], request[p])
         /\ page[p] \in PageRecord /\ request[p] \in RequestRecord
         /\ InStep(page[p], request[p])
         /\ page \in [Page -> PageRecord]
         /\ request \in [Page -> RequestRecord]
         /\ Claimed(db, orphans, p) \in Nat
BY CountsAreNumbers DEF SessionInv, PageOK

\* Asking and answering, by the fields of the request.
LEMMA AskMeaning ==
  ASSUME SessionInv, NEW p \in Page, NEW kind \in {"list", "book"},
         NEW pick \in Pick, Ask(p, kind, pick)
  PROVE  /\ request' \in [Page -> RequestRecord]
         /\ \A q \in Page : q # p => request'[q] = request[q]
         /\ request'[p].kind = kind /\ request'[p].pick = pick
         /\ request'[p].state = "sent"
<1> DEFINE r == [kind |-> kind, pick |-> pick, state |-> "sent", answer |-> None]
<1>1. r \in RequestRecord
  <2>1. None \in Answers
    BY Zenon DEF Answers
  <2>2. QED
    BY <2>1 DEF RequestRecord
<1>2. request' = [request EXCEPT ![p] = r]
  BY DEF Ask
<1>3. request \in [Page -> RequestRecord]
  BY ThisPage
<1> HIDE DEF r
<1>4. request' \in [Page -> RequestRecord] /\ request'[p] = r
  BY <1>1, <1>2, <1>3
<1>5. QED
  BY <1>2, <1>3, <1>4 DEF r

LEMMA AnsweredMeaning ==
  ASSUME SessionInv, NEW p \in Page, NEW a \in Answers, Answered(p, a)
  PROVE  /\ request' \in [Page -> RequestRecord]
         /\ \A q \in Page : q # p => request'[q] = request[q]
         /\ request'[p].kind = request[p].kind
         /\ request'[p].pick = request[p].pick
         /\ request'[p].state = "answered" /\ request'[p].answer = a
BY ThisPage DEF Answered, RequestRecord

-----------------------------------------------------------------------------
(* The server answers. *)

LEMMA HandleListKeeps ==
  ASSUME SessionInv, NEW p \in Page, HandleList(p)
  PROVE  SessionInv'
<1> DEFINE a == {NumberOf[s] : s \in AvailableIn(db, TheTier)}
<1>1. a \in SUBSET Number /\ a \in Answers
  BY DEF AvailableIn, Number, Answers
<1>2. Answered(p, a) /\ db' = db /\ page' = page /\ orphans' = orphans
  BY DEF HandleList
<1> HIDE DEF a
<1>3. /\ request' \in [Page -> RequestRecord]
      /\ \A q \in Page : q # p => request'[q] = request[q]
      /\ request'[p].kind = request[p].kind
      /\ request'[p].state = "answered" /\ request'[p].answer = a
  BY <1>1, <1>2, AnsweredMeaning
<1>4. OnlyPage(p)
  BY <1>2, <1>3, ThisPage DEF OnlyPage
<1>5. request[p].kind = "list"
  BY DEF HandleList
<1>6. PageOK(db, orphans, p, page[p], request'[p])
  <2>1. InStep(page[p], request'[p])
    BY <1>1, <1>3, <1>5, ThisPage DEF InStep
  <2>2. ~(request'[p].kind = "book")
    BY <1>3, <1>5
  <2>3. QED
    BY <2>1, <2>2, ThisPage DEF PageOK, Underway
<1>7. QED
  BY <1>2, <1>4, <1>6, QuietStep

\* A refusal tells the truth: the click's booking was not made.
LEMMA RefusalIsTrue ==
  ASSUME SessionInv, NEW p \in Page, page' = page,
         request[p].kind = "book", request[p].state = "sent",
         Answered(p, NoTicket("error")), db' = db, orphans' = orphans
  PROVE  SessionInv'
<1> DEFINE a == NoTicket("error")
<1>1. a \in Showing /\ a.result = "error"
  BY NotesAreShown
<1> HIDE DEF a
<1>2. a \in Answers
  BY <1>1, Zenon DEF Answers
<1>3. /\ request' \in [Page -> RequestRecord]
      /\ \A q \in Page : q # p => request'[q] = request[q]
      /\ request'[p].kind = "book"
      /\ request'[p].state = "answered" /\ request'[p].answer = a
  BY <1>2, AnsweredMeaning DEF a
<1>4. OnlyPage(p)
  BY <1>3, ThisPage DEF OnlyPage
<1>5. page[p].step = "booking"
  BY ThisPage DEF InStep, PageRecord
<1>6. InStep(page[p], request'[p])
  BY <1>1, <1>3, <1>5, ThisPage DEF InStep
<1>7. ~Underway(page[p], request'[p])
  BY <1>3, <1>5 DEF Underway
<1>8. Claimed(db, orphans, p) < page[p].clicks
  BY ThisPage DEF PageOK, Underway
<1>9. IsTrue(db, orphans, p, page[p].clicks, request'[p].answer)
  BY <1>1, <1>3, <1>8 DEF IsTrue
<1>10. PageOK(db, orphans, p, page[p], request'[p])
  BY <1>6, <1>7, <1>9, ThisPage DEF PageOK
<1>11. QED
  BY <1>4, <1>10, QuietStep

LEMMA HandleBookKeeps ==
  ASSUME SessionInv, NEW p \in Page, HandleBook(p)
  PROVE  SessionInv'
<1> DEFINE r == Outcome(p, request[p].pick)
           a == r.answer
<1>1. /\ Answered(p, a) /\ db' = r.db /\ page' = page /\ orphans' = orphans
      /\ request[p].kind = "book" /\ request[p].state = "sent"
  BY DEF HandleBook
<1>2. /\ IsDB(r.db) /\ TicketsAreNumbered(r.db)
      /\ \/ \E t : Books(db, r.db, p, t) /\ a = Ticketed(t)
         \/ r.db = db /\ a = NoTicket("error")
  BY OutcomeMeaning DEF SessionInv
<1> HIDE DEF r, a
<1>3. CASE \E t : Books(db, db', p, t) /\ a = Ticketed(t)
  <2>1. PICK t : Books(db, db', p, t) /\ a = Ticketed(t)
    BY <1>3
  <2>2. /\ \A q : q # p => TicketsIn(db', q) = TicketsIn(db, q)
        /\ TicketsIn(db', p) = TicketsIn(db, p) \cup {t}
        /\ Cardinality(TicketsIn(db', p)) = Cardinality(TicketsIn(db, p)) + 1
    BY <2>1, BookedTickets DEF SessionInv
  <2>3. Claimed(db', orphans, p) = Claimed(db, orphans, p) + 1
    BY <2>2, CountsAreNumbers DEF Claimed, SessionInv
  <2>4. a \in Showing /\ a.result = "ticket" /\ a.ticket = t
    <3>1. t \in TicketId
      BY <2>1 DEF Books
    <3>2. QED
      BY <2>1, <3>1, NotesAreShown
  <2>5. a \in Answers
    BY <2>4 DEF Answers
  <2>6. /\ request' \in [Page -> RequestRecord]
        /\ \A q \in Page : q # p => request'[q] = request[q]
        /\ request'[p].kind = "book"
        /\ request'[p].state = "answered" /\ request'[p].answer = a
    BY <1>1, <2>5, AnsweredMeaning
  <2>7. OnlyPage(p)
    BY <1>1, <2>6, ThisPage DEF OnlyPage
  <2>8. page[p].step = "booking" /\ page[p].clicks \in Nat
    BY <1>1, ThisPage DEF InStep, PageRecord
  <2>9. page[p].shown.result = "none"
    BY <2>8, ThisPage DEF InStep
  <2>10. InStep(page[p], request'[p])
    BY <2>4, <2>6, <2>8, <2>9, ThisPage DEF InStep
  <2>11. ~Underway(page[p], request'[p])
    BY <2>6, <2>8 DEF Underway
  <2>12. Claimed(db, orphans, p) < page[p].clicks
    BY <1>1, ThisPage DEF PageOK, Underway
  <2>13. Claimed(db', orphans, p) <= page[p].clicks
    BY <2>3, <2>8, <2>12, ThisPage
  <2>14. IsTrue(db', orphans, p, page[p].clicks, request'[p].answer)
    BY <2>2, <2>4, <2>6 DEF IsTrue
  <2>15. IsTrue(db', orphans, p, page[p].clicks, page[p].shown)
    BY <2>9 DEF IsTrue
  <2>16. PageOK(db', orphans', p, page'[p], request'[p])
    BY <1>1, <2>10, <2>11, <2>13, <2>14, <2>15 DEF PageOK
  <2>17. IsFiniteSet(orphans') /\ \A o \in orphans' : o \in Page \X Nat \X Pick
    BY <1>1 DEF SessionInv
  <2>18. \A q \in Page : q # p => /\ TicketsIn(db', q) = TicketsIn(db, q)
                                  /\ Lost(orphans', q) = Lost(orphans, q)
    BY <1>1, <2>2
  <2>19. QED
    BY <1>1, <1>2, <2>7, <2>16, <2>17, <2>18, PageStep
<1>4. CASE db' = db /\ a = NoTicket("error")
  BY <1>1, <1>4, RefusalIsTrue
<1>5. QED
  BY <1>1, <1>2, <1>3, <1>4

LEMMA RefuseKeeps ==
  ASSUME SessionInv, NEW p \in Page, Refuse(p)
  PROVE  SessionInv'
BY RefusalIsTrue DEF Refuse

\* A booking whose page is gone becomes one of the page's tickets, or nothing.
LEMMA HandleOrphanKeeps ==
  ASSUME SessionInv, NEW o \in orphans, HandleOrphan(o)
  PROVE  SessionInv'
<1> DEFINE p == o[1]
           r == Outcome(p, o[3])
<1>1. p \in Page
  BY DEF SessionInv
<1>2. db' = r.db /\ orphans' = orphans \ {o} /\ page' = page /\ request' = request
  BY DEF HandleOrphan
<1>3. /\ IsDB(r.db) /\ TicketsAreNumbered(r.db)
      /\ \/ \E t : Books(db, r.db, p, t)
         \/ r.db = db
  BY <1>1, OutcomeMeaning DEF SessionInv
<1> HIDE DEF r
<1>4. /\ IsFiniteSet(orphans')
      /\ \A q : q # p => Lost(orphans', q) = Lost(orphans, q)
      /\ Cardinality(Lost(orphans', p)) = Cardinality(Lost(orphans, p)) - 1
  BY <1>2, OneLostLess DEF SessionInv
<1>5. /\ \A q : q # p => TicketsIn(db', q) = TicketsIn(db, q)
      /\ TicketsIn(db, p) \subseteq TicketsIn(db', p)
      /\ Cardinality(TicketsIn(db', p)) \in
           {Cardinality(TicketsIn(db, p)), Cardinality(TicketsIn(db, p)) + 1}
  <2>1. CASE \E t : Books(db, db', p, t)
    BY <2>1, BookedTickets DEF SessionInv
  <2>2. CASE db' = db
    BY <2>2
  <2>3. QED
    BY <1>2, <1>3, <2>1, <2>2
<1> HIDE DEF p
<1>6. Claimed(db', orphans', p) <= Claimed(db, orphans, p)
      /\ Claimed(db', orphans', p) \in Nat
  <2>1. /\ Cardinality(TicketsIn(db, p)) \in Nat
        /\ Cardinality(Lost(orphans, p)) \in Nat
        /\ Claimed(db', orphans', p) \in Nat
    BY <1>2, <1>3, <1>4, CountsAreNumbers DEF SessionInv
  <2>2. QED
    BY <1>4, <1>5, <2>1 DEF Claimed
<1>7. OnlyPage(p)
  BY <1>1, <1>2, ThisPage DEF OnlyPage
<1>8. PageOK(db', orphans', p, page'[p], request'[p])
  <2>1. /\ PageOK(db, orphans, p, page[p], request[p])
        /\ Claimed(db, orphans, p) \in Nat /\ page[p].clicks \in Nat
    BY <1>1, ThisPage DEF PageRecord
  <2>2. ASSUME NEW shown, IsTrue(db, orphans, p, page[p].clicks, shown)
        PROVE  IsTrue(db', orphans', p, page[p].clicks, shown)
    BY <1>5, <1>6, <2>1, <2>2 DEF IsTrue
  <2>3. /\ Claimed(db', orphans', p) <= page[p].clicks
        /\ Underway(page[p], request[p]) => Claimed(db', orphans', p) < page[p].clicks
    BY <1>6, <2>1 DEF PageOK
  <2>4. QED
    BY <1>2, <2>1, <2>2, <2>3 DEF PageOK
<1>9. \A x \in orphans' : x \in Page \X Nat \X Pick
  BY <1>2 DEF SessionInv
<1>10. QED
  BY <1>1, <1>2, <1>3, <1>4, <1>5, <1>7, <1>8, <1>9, PageStep

-----------------------------------------------------------------------------
(* Connections. *)

\* A booking that is cut off while it is under way may be left to the server.
LEMMA BreakKeeps ==
  ASSUME SessionInv, NEW p \in Page, Break(p)
  PROVE  SessionInv'
<1> DEFINE o == <<p, page[p].clicks, request[p].pick>>
<1>1. /\ request' = [request EXCEPT ![p].state = "broken"]
      /\ request[p].state \in {"sent", "answered"}
      /\ db' = db /\ page' = page
      /\ \/ orphans' = orphans
         \/ /\ orphans' = orphans \cup {o}
            /\ request[p].kind = "book" /\ request[p].state = "sent"
  BY DEF Break
<1>2. /\ request' \in [Page -> RequestRecord]
      /\ \A q \in Page : q # p => request'[q] = request[q]
      /\ request'[p].kind = request[p].kind
      /\ request'[p].state = "broken"
  BY <1>1, ThisPage DEF RequestRecord
<1>3. OnlyPage(p)
  BY <1>1, <1>2, ThisPage DEF OnlyPage
<1>4. InStep(page[p], request'[p])
  BY <1>1, <1>2, ThisPage DEF InStep
<1>5. CASE orphans' = orphans
  <2>1. Underway(page[p], request'[p]) => Underway(page[p], request[p])
    BY <1>2 DEF Underway
  <2>2. PageOK(db, orphans, p, page[p], request'[p])
    BY <1>2, <1>4, <2>1, ThisPage DEF PageOK
  <2>3. QED
    BY <1>1, <1>3, <1>5, <2>2, QuietStep
<1>6. CASE /\ orphans' = orphans \cup {o}
           /\ request[p].kind = "book" /\ request[p].state = "sent"
  <2>1. page[p].step = "booking" /\ page[p].clicks \in Nat /\ request[p].pick \in Pick
    BY <1>6, ThisPage DEF InStep, PageRecord, RequestRecord
  <2>2. page[p].shown.result = "none"
    BY <2>1, ThisPage DEF InStep
  <2>3. o[1] = p /\ o \in Page \X Nat \X Pick
    BY <2>1
  <2> HIDE DEF o
  <2>4. /\ IsFiniteSet(orphans')
        /\ \A q : q # p => Lost(orphans', q) = Lost(orphans, q)
        /\ Cardinality(Lost(orphans', p)) <= Cardinality(Lost(orphans, p)) + 1
    BY <1>6, <2>3, OneMoreLost DEF SessionInv
  <2>5. /\ Cardinality(TicketsIn(db, p)) \in Nat
        /\ Cardinality(Lost(orphans, p)) \in Nat
        /\ Cardinality(Lost(orphans', p)) \in Nat
    BY <2>4, CountsAreNumbers DEF SessionInv
  <2>6. Claimed(db, orphans, p) < page[p].clicks
    BY <1>6, ThisPage DEF PageOK, Underway
  <2>7. Claimed(db, orphans', p) <= page[p].clicks
    BY <2>1, <2>4, <2>5, <2>6 DEF Claimed
  <2>8. ~Underway(page[p], request'[p])
    BY <1>2, <2>1 DEF Underway
  <2>9. IsTrue(db, orphans', p, page[p].clicks, page[p].shown)
    BY <2>2 DEF IsTrue
  <2>10. PageOK(db', orphans', p, page'[p], request'[p])
    BY <1>1, <1>2, <1>4, <2>7, <2>8, <2>9 DEF PageOK
  <2>11. /\ IsDB(db') /\ TicketsAreNumbered(db')
         /\ \A x \in orphans' : x \in Page \X Nat \X Pick
    BY <1>1, <1>6, <2>3 DEF SessionInv
  <2>12. \A q \in Page : q # p => /\ TicketsIn(db', q) = TicketsIn(db, q)
                                  /\ Lost(orphans', q) = Lost(orphans, q)
    BY <1>1, <2>4
  <2>13. QED
    BY <1>3, <2>4, <2>10, <2>11, <2>12, PageStep
<1>7. QED
  BY <1>1, <1>5, <1>6

-----------------------------------------------------------------------------
(* The page. *)

LEMMA SelectKeeps ==
  ASSUME SessionInv, NEW p \in Page, NEW pick \in Pick, Select(p, pick)
  PROVE  SessionInv'
<1>1. /\ page[p].step = "idle" /\ Ask(p, "list", AutoAllocation)
      /\ page' = [page EXCEPT ![p].step = "viewing", ![p].pick = pick]
      /\ db' = db /\ orphans' = orphans
  BY DEF Select
<1>2. AutoAllocation \in Pick
  BY DEF Pick
<1>3. /\ request' \in [Page -> RequestRecord]
      /\ \A q \in Page : q # p => request'[q] = request[q]
      /\ request'[p].kind = "list" /\ request'[p].state = "sent"
  BY <1>1, <1>2, AskMeaning
<1>4. /\ page' \in [Page -> PageRecord]
      /\ \A q \in Page : q # p => page'[q] = page[q]
      /\ page'[p].step = "viewing"
      /\ page'[p].clicks = page[p].clicks /\ page'[p].shown = page[p].shown
  BY <1>1, ThisPage DEF PageRecord
<1>5. OnlyPage(p)
  BY <1>3, <1>4 DEF OnlyPage
<1>6. InStep(page'[p], request'[p]) /\ ~Underway(page'[p], request'[p])
  BY <1>3, <1>4 DEF InStep, Underway
<1>7. PageOK(db, orphans, p, page'[p], request'[p])
  BY <1>3, <1>4, <1>6, ThisPage DEF PageOK
<1>8. QED
  BY <1>1, <1>5, <1>7, QuietStep

\* A click may book once more than the clicks before it.
LEMMA ClickKeeps ==
  ASSUME SessionInv, NEW p \in Page, Click(p)
  PROVE  SessionInv'
<1> DEFINE n == NoTicket("none")
<1>1. /\ page[p].step = "idle" /\ Ask(p, "list", AutoAllocation)
      /\ page' = [page EXCEPT ![p].step = "clicked", ![p].meant = page[p].pick,
                              ![p].clicks = @ + 1, ![p].shown = n]
      /\ db' = db /\ orphans' = orphans
  BY DEF Click
<1>2. AutoAllocation \in Pick /\ n \in Showing /\ n.result = "none"
  BY NotesAreShown DEF Pick
<1> HIDE DEF n
<1>3. /\ request' \in [Page -> RequestRecord]
      /\ \A q \in Page : q # p => request'[q] = request[q]
      /\ request'[p].kind = "list" /\ request'[p].state = "sent"
  BY <1>1, <1>2, AskMeaning
<1>4. /\ page' \in [Page -> PageRecord]
      /\ \A q \in Page : q # p => page'[q] = page[q]
      /\ page'[p].step = "clicked"
      /\ page'[p].clicks = page[p].clicks + 1 /\ page'[p].shown = n
  BY <1>1, <1>2, ThisPage DEF PageRecord
<1>5. OnlyPage(p)
  BY <1>3, <1>4 DEF OnlyPage
<1>6. InStep(page'[p], request'[p])
  BY <1>2, <1>3, <1>4 DEF InStep
<1>7. page[p].clicks \in Nat /\ Claimed(db, orphans, p) <= page[p].clicks
  BY ThisPage DEF PageOK, PageRecord
<1>8. Claimed(db, orphans, p) < page'[p].clicks
  BY <1>4, <1>7, ThisPage
<1>9. IsTrue(db, orphans, p, page'[p].clicks, page'[p].shown)
  BY <1>2, <1>4 DEF IsTrue
<1>10. PageOK(db, orphans, p, page'[p], request'[p])
  BY <1>3, <1>4, <1>6, <1>7, <1>8, <1>9, ThisPage DEF PageOK
<1>11. QED
  BY <1>1, <1>5, <1>10, QuietStep

LEMMA NoRequestMeaning ==
  ASSUME SessionInv, NEW p \in Page, request' = [request EXCEPT ![p] = NoRequest]
  PROVE  /\ request' \in [Page -> RequestRecord]
         /\ \A q \in Page : q # p => request'[q] = request[q]
         /\ request'[p].kind = "none" /\ request'[p].state = "none"
<1> DEFINE r == NoRequest
<1>1. r \in RequestRecord /\ r.kind = "none" /\ r.state = "none"
  <2>1. None \in Answers /\ AutoAllocation \in Pick
    BY DEF Answers, Pick
  <2>2. QED
    BY <2>1 DEF RequestRecord, NoRequest
<1> HIDE DEF r
<1>2. request' = [request EXCEPT ![p] = r]
  BY DEF r
<1>3. QED
  BY <1>1, <1>2, ThisPage

\* The script goes on with a list: a run that a click started books, and a run
\* that a selection started ends.
LEMMA ContinueKeeps ==
  ASSUME SessionInv, NEW p \in Page, NEW options \in SUBSET Number,
         page[p].step \in {"viewing", "clicked"}, Continue(p, options)
  PROVE  SessionInv'
<1> DEFINE next == IF page[p].step = "clicked" THEN "booking" ELSE "idle"
<1>1. PICK pick \in Picked(p, options) :
        /\ page' = [page EXCEPT ![p].options = options, ![p].pick = pick,
                                ![p].step = next]
        /\ IF next = "booking" THEN Ask(p, "book", pick)
                               ELSE request' = [request EXCEPT ![p] = NoRequest]
        /\ db' = db /\ orphans' = orphans
  BY DEF Continue
<1>2. pick \in Pick
  <2>1. page[p].pick \in Pick
    BY ThisPage DEF PageRecord
  <2>2. QED
    BY <2>1 DEF Picked, Pick
<1>3. next \in {"idle", "booking"}
  OBVIOUS
<1>4. /\ page' \in [Page -> PageRecord]
      /\ \A q \in Page : q # p => page'[q] = page[q]
      /\ page'[p].step = next
      /\ page'[p].clicks = page[p].clicks /\ page'[p].shown = page[p].shown
  <2> HIDE DEF next
  <2>1. QED
    BY <1>1, <1>2, <1>3, ThisPage DEF PageRecord
<1>5. CASE page[p].step = "clicked"
  <2>1. next = "booking" /\ Ask(p, "book", pick)
    BY <1>1, <1>5
  <2> HIDE DEF next
  <2>2. /\ request' \in [Page -> RequestRecord]
        /\ \A q \in Page : q # p => request'[q] = request[q]
        /\ request'[p].kind = "book" /\ request'[p].state = "sent"
    BY <1>2, <2>1, AskMeaning
  <2>3. OnlyPage(p)
    BY <1>4, <2>2 DEF OnlyPage
  <2>4. InStep(page'[p], request'[p])
    BY <1>4, <1>5, <2>1, <2>2, ThisPage DEF InStep
  <2>5. Claimed(db, orphans, p) < page'[p].clicks
    BY <1>4, <1>5, ThisPage DEF PageOK, Underway
  <2>6. PageOK(db, orphans, p, page'[p], request'[p])
    BY <1>4, <2>2, <2>4, <2>5, ThisPage DEF PageOK
  <2>7. QED
    BY <1>1, <2>3, <2>6, QuietStep
<1>6. CASE page[p].step = "viewing"
  <2>1. next = "idle" /\ request' = [request EXCEPT ![p] = NoRequest]
    BY <1>1, <1>6
  <2> HIDE DEF next
  <2>2. /\ request' \in [Page -> RequestRecord]
        /\ \A q \in Page : q # p => request'[q] = request[q]
        /\ request'[p].kind = "none" /\ request'[p].state = "none"
    BY <2>1, NoRequestMeaning
  <2>3. OnlyPage(p)
    BY <1>4, <2>2 DEF OnlyPage
  <2>4. InStep(page'[p], request'[p]) /\ ~Underway(page'[p], request'[p])
    BY <1>4, <2>1, <2>2 DEF InStep, Underway
  <2>5. PageOK(db, orphans, p, page'[p], request'[p])
    BY <1>4, <2>2, <2>4, ThisPage DEF PageOK
  <2>6. QED
    BY <1>1, <2>3, <2>5, QuietStep
<1>7. QED
  BY <1>5, <1>6

\* The script ends with something to show that is true.
LEMMA ShowsKeeps ==
  ASSUME SessionInv, NEW p \in Page, NEW what \in Showing,
         IsTrue(db, orphans, p, page[p].clicks, what), Shows(p, what)
  PROVE  SessionInv'
<1>1. /\ page' = [page EXCEPT ![p].step = "idle", ![p].shown = what]
      /\ request' = [request EXCEPT ![p] = NoRequest]
      /\ db' = db /\ orphans' = orphans
  BY DEF Shows
<1>2. /\ request' \in [Page -> RequestRecord]
      /\ \A q \in Page : q # p => request'[q] = request[q]
      /\ request'[p].kind = "none" /\ request'[p].state = "none"
  BY <1>1, NoRequestMeaning
<1>3. /\ page' \in [Page -> PageRecord]
      /\ \A q \in Page : q # p => page'[q] = page[q]
      /\ page'[p].step = "idle"
      /\ page'[p].clicks = page[p].clicks /\ page'[p].shown = what
  BY <1>1, ThisPage DEF PageRecord
<1>4. OnlyPage(p)
  BY <1>2, <1>3 DEF OnlyPage
<1>5. InStep(page'[p], request'[p]) /\ ~Underway(page'[p], request'[p])
  BY <1>2, <1>3 DEF InStep, Underway
<1>6. PageOK(db, orphans, p, page'[p], request'[p])
  BY <1>2, <1>3, <1>5, ThisPage DEF PageOK
<1>7. QED
  BY <1>1, <1>4, <1>6, QuietStep

LEMMA ScriptKeeps ==
  ASSUME SessionInv, NEW p \in Page, Script(p)
  PROVE  SessionInv'
<1>1. CASE Listed(p)
  <2>1. /\ page[p].step \in {"viewing", "clicked"}
        /\ request[p].state = "answered" /\ Continue(p, request[p].answer)
    BY <1>1 DEF Listed
  <2>2. request[p].answer \in SUBSET Number
    BY <2>1, ThisPage DEF InStep
  <2>3. QED
    BY <2>1, <2>2, ContinueKeeps
<1>2. CASE ListFails(p)
  BY <1>2, ContinueKeeps DEF ListFails
<1>3. CASE Booked(p)
  <2>1. /\ page[p].step = "booking" /\ request[p].state = "answered"
        /\ Shows(p, request[p].answer)
    BY <1>3 DEF Booked
  <2>2. request[p].kind = "book"
    BY <2>1, ThisPage DEF InStep, RequestRecord
  <2>3. /\ request[p].answer \in Showing
        /\ IsTrue(db, orphans, p, page[p].clicks, request[p].answer)
    BY <2>1, <2>2, ThisPage DEF PageOK, InStep
  <2>4. QED
    BY <2>1, <2>3, ShowsKeeps
<1>4. CASE BookFails(p)
  <2> DEFINE what == NoTicket("failed")
  <2>1. what \in Showing /\ what.result = "failed" /\ Shows(p, what)
    BY <1>4, NotesAreShown DEF BookFails
  <2> HIDE DEF what
  <2>2. IsTrue(db, orphans, p, page[p].clicks, what)
    BY <2>1 DEF IsTrue
  <2>3. QED
    BY <2>1, <2>2, ShowsKeeps
<1>5. QED
  BY <1>1, <1>2, <1>3, <1>4 DEF Script

-----------------------------------------------------------------------------
(* The theorems. *)

LEMMA SessionInvInitially == Init => SessionInv
<1> SUFFICES ASSUME Init PROVE SessionInv
  OBVIOUS
<1> DEFINE n == NoTicket("none")
           r == NoRequest
           g == [step |-> "idle", options |-> {}, pick |-> AutoAllocation,
                 meant |-> AutoAllocation, clicks |-> 0, shown |-> n]
<1>1. n \in Showing /\ n.result = "none"
  BY NotesAreShown
<1>2. None \in Answers /\ AutoAllocation \in Pick
  BY DEF Answers, Pick
<1>3. r \in RequestRecord /\ r.kind = "none" /\ r.state = "none"
  BY <1>2 DEF RequestRecord, NoRequest
<1>4. /\ db = FreshDB /\ orphans = {}
      /\ page = [p \in Page |-> g] /\ request = [p \in Page |-> r]
  BY DEF Init
<1> HIDE DEF n, r
<1>5. /\ g \in PageRecord
      /\ g.step = "idle" /\ g.clicks = 0 /\ g.shown = n
  BY <1>1, <1>2 DEF PageRecord
<1> HIDE DEF g
<1>6. /\ page \in [Page -> PageRecord] /\ request \in [Page -> RequestRecord]
      /\ \A p \in Page : page[p] = g /\ request[p] = r
  BY <1>3, <1>4, <1>5
<1>7. DOMAIN db.tickets = {}
  BY <1>4 DEF FreshDB
<1>8. IsDB(db) /\ TicketsAreNumbered(db)
  BY <1>4, <1>7, FreshDBType DEF TicketsAreNumbered
<1>9. \A p : Claimed(db, orphans, p) = 0
  <2>1. Cardinality({}) = 0
    BY FS_EmptySet
  <2>2. \A p : TicketsIn(db, p) = {} /\ Lost(orphans, p) = {}
    BY <1>4, <1>7 DEF TicketsIn, Lost
  <2>3. QED
    BY <2>1, <2>2 DEF Claimed
<1>10. \A p \in Page : PageOK(db, orphans, p, g, r)
  <2>1. InStep(g, r) /\ ~Underway(g, r)
    BY <1>1, <1>3, <1>5 DEF InStep, Underway
  <2>2. \A p : IsTrue(db, orphans, p, g.clicks, g.shown)
    BY <1>1, <1>5 DEF IsTrue
  <2>3. QED
    BY <1>3, <1>5, <1>9, <2>1, <2>2 DEF PageOK
<1>11. IsFiniteSet(orphans)
  BY <1>4, FS_EmptySet
<1>12. QED
  BY <1>4, <1>6, <1>8, <1>10, <1>11 DEF SessionInv

\* For every page: a booking under way, or left to the server, is one of its
\* clicks and not a ticket yet; pages, requests and the server stay in step.
THEOREM SessionInvariant == SafeSpec => []SessionInv
<1>1. SessionInv /\ [Next]_vars => SessionInv'
  <2> SUFFICES ASSUME SessionInv, [Next]_vars PROVE SessionInv'
    OBVIOUS
  <2>1. CASE \E p \in Page : Server(p)
    BY <2>1, HandleListKeeps, HandleBookKeeps, RefuseKeeps DEF Server
  <2>2. CASE \E p \in Page : Break(p)
    BY <2>2, BreakKeeps
  <2>3. CASE \E p \in Page : Script(p)
    BY <2>3, ScriptKeeps
  <2>4. CASE \E p \in Page : Click(p)
    BY <2>4, ClickKeeps
  <2>5. CASE \E p \in Page, pick \in Pick : Select(p, pick)
    BY <2>5, SelectKeeps
  <2>6. CASE \E o \in orphans : HandleOrphan(o)
    BY <2>6, HandleOrphanKeeps
  <2>7. CASE UNCHANGED vars
    BY <2>7 DEF vars, SessionInv
  <2>8. QED
    BY <2>1, <2>2, <2>3, <2>4, <2>5, <2>6, <2>7 DEF Next
<1>2. QED
  BY <1>1, SessionInvInitially, PTL DEF SafeSpec

\* A click books once at most, whatever is lost (the Streamlit page sends
\* nothing twice, and the server carries out what it receives once).
THEOREM OneTicketPerClickCorrect == SafeSpec => []OneTicketPerClick
<1>1. SessionInv => OneTicketPerClick
  <2> SUFFICES ASSUME SessionInv, NEW p \in Page
               PROVE  Cardinality(TicketsOf(p)) <= page[p].clicks
    BY DEF OneTicketPerClick
  <2>1. TicketsOf(p) = TicketsIn(db, p)
    BY DEF TicketsOf, TicketsIn
  <2>2. Claimed(db, orphans, p) <= page[p].clicks /\ page[p].clicks \in Nat
    BY ThisPage DEF PageOK, PageRecord
  <2>3. /\ Cardinality(TicketsIn(db, p)) \in Nat
        /\ Cardinality(Lost(orphans, p)) \in Nat
    BY CountsAreNumbers DEF SessionInv
  <2>4. QED
    BY <2>1, <2>2, <2>3 DEF Claimed
<1>2. QED
  BY <1>1, SessionInvariant, PTL

\* A ticket that a page shows is the client's own, and a refusal that it shows
\* left no ticket behind.
THEOREM ShownIsTrueCorrect == SafeSpec => []ShownIsTrue
<1>1. SessionInv => ShownIsTrue
  <2> SUFFICES ASSUME SessionInv, NEW p \in Page
               PROVE  /\ page[p].shown.result = "ticket" =>
                           page[p].shown.ticket \in TicketsOf(p)
                      /\ page[p].shown.result = "error" =>
                           Cardinality(TicketsOf(p)) < page[p].clicks
    BY DEF ShownIsTrue
  <2>1. TicketsOf(p) = TicketsIn(db, p)
    BY DEF TicketsOf, TicketsIn
  <2>2. /\ IsTrue(db, orphans, p, page[p].clicks, page[p].shown)
        /\ page[p].clicks \in Nat
    BY ThisPage DEF PageOK, PageRecord
  <2>3. /\ Cardinality(TicketsIn(db, p)) \in Nat
        /\ Cardinality(Lost(orphans, p)) \in Nat
    BY CountsAreNumbers DEF SessionInv
  <2>4. QED
    BY <2>1, <2>2, <2>3 DEF IsTrue, Claimed
<1>2. QED
  BY <1>1, SessionInvariant, PTL
=============================================================================
