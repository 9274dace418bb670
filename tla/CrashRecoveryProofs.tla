------------------------ MODULE CrashRecoveryProofs ------------------------
(***************************************************************************)
(* What durability promises, for any layout of seats, any number of        *)
(* tickets and restarts, and whatever write, fsync or process fails: what  *)
(* a client was told is in the file, memory is the file and the entries    *)
(* left behind, and the file keeps the seats consistent.                   *)
(*                                                                         *)
(* None of this is inductive by itself: the next append writes the lines   *)
(* that earlier failures left in the file object, and a crash writes any   *)
(* number of them.  The invariant is about every database that the file    *)
(* may come to hold that way: the one it holds now, and what each of the   *)
(* pending entries makes of it in turn.                                    *)
(***************************************************************************)
EXTENDS CrashRecovery, DBStateProofs

-----------------------------------------------------------------------------
(* The inductive invariant. *)

TierEntry ==
  [op : {"BOOK_TIER"}, ticket_id : TicketId, client : Client,
   tier : Tier, seat_id : Seat]
  \cup [op : {"WAITLIST_ADD"}, ticket_id : TicketId, client : Client,
        tier : Tier]
  \cup [op : {"CANCEL_TICKET"}, ticket_id : TicketId, tier : Tier,
        seat_id : Seat \cup {None}]
  \cup [op : {"PROMOTE_TICKET"}, ticket_id : TicketId, tier : Tier,
        seat_id : Seat]

Statuses == {"confirmed", "waiting", "cancelled"}

AnswerOf == TicketId \X Statuses \X (Seat \cup {None})

LockKey == {<<k>> : k \in Tier} \cup (Tier \X Nat)

CallRecord == [key : LockKey \cup {None}, todo : Seq(TierEntry),
               changed : BOOLEAN, answer : AnswerOf \cup {<<>>}]

\* The entries that are not known to be in the file.
Pending == buffer \o call.todo

\* How many of them are in memory already.
Done == Len(buffer) + (IF call.changed THEN 1 ELSE 0)

\* D[n] is what the first n of the entries make of d.
IsTrace(D, d, entries) ==
  /\ D[0] = d
  /\ \A n \in 1..Len(entries) : D[n] = ApplyEntry(D[n - 1], entries[n])

Sound(d) ==
  IsDB(d) /\ SeatsAreOwned(d) /\ SeatsInUse(d) /\ ListsAreInStep(d)

\* What was said of ticket t is so in d.
IsSo(d, t, status, seat) ==
  /\ t \in DOMAIN d.tickets
  /\ status = "cancelled" => d.tickets[t].status = "cancelled"
  /\ status = "confirmed" =>
       d.tickets[t].status = "confirmed" /\ d.tickets[t].seat_id = seat
  /\ status = "waiting" => d.tickets[t].status \in {"waiting", "confirmed"}

Keeps(d, said) == \A t \in DOMAIN said : IsSo(d, t, said[t][2], said[t][3])

\* Every database that the file may come to hold is sound and has what the
\* clients were told; memory is one of them; the last has what the operation
\* under way will answer.
Recoverable(D) ==
  /\ IsTrace(D, wal.rebuilt, Pending)
  /\ \A n \in 0..Len(Pending) : Sound(D[n]) /\ Keeps(D[n], told)
  /\ up => db = D[Done]
  /\ call # Idle =>
       IsSo(D[Len(Pending)], call.answer[1], call.answer[2], call.answer[3])

CrashTypes ==
  /\ boots \in 1..MaxBoots
  /\ up \in BOOLEAN /\ torn \in BOOLEAN
  /\ wal = WalState(TRUE, wal.rebuilt)
  /\ buffer \in Seq(TierEntry)
  /\ call \in CallRecord
  /\ \A t \in DOMAIN told : t \in TicketId /\ told[t][2] \in Statuses

CrashInv ==
  /\ CrashTypes
  /\ ~up => buffer = <<>> /\ call = Idle /\ db = FreshDB
  /\ call.changed => call.todo # <<>>
  /\ call # Idle => call.answer \in AnswerOf
  /\ call # Idle /\ call.todo = <<>> => buffer = <<>>
  /\ \E D : Recoverable(D)

-----------------------------------------------------------------------------
(* Entries, and what a sequence of them makes of a log. *)

LEMMA TierEntries ==
  /\ \A t \in TicketId, c \in Client, k \in Tier, s \in Seat :
       BookTierEntry(t, c, k, s) \in TierEntry
  /\ \A t \in TicketId, c \in Client, k \in Tier :
       WaitlistAddEntry(t, c, k) \in TierEntry
  /\ \A t \in TicketId, k \in Tier, s \in Seat \cup {None} :
       CancelEntry(t, k, s) \in TierEntry
  /\ \A t \in TicketId, k \in Tier, s \in Seat :
       PromoteEntry(t, k, s) \in TierEntry
<1>1. ASSUME NEW t \in TicketId, NEW c \in Client, NEW k \in Tier, NEW s \in Seat
      PROVE  BookTierEntry(t, c, k, s) \in TierEntry
  BY DEF BookTierEntry, TierEntry
<1>2. ASSUME NEW t \in TicketId, NEW c \in Client, NEW k \in Tier
      PROVE  WaitlistAddEntry(t, c, k) \in TierEntry
  BY DEF WaitlistAddEntry, TierEntry
<1>3. ASSUME NEW t \in TicketId, NEW k \in Tier, NEW s \in Seat \cup {None}
      PROVE  CancelEntry(t, k, s) \in TierEntry
  BY DEF CancelEntry, TierEntry
<1>4. ASSUME NEW t \in TicketId, NEW k \in Tier, NEW s \in Seat
      PROVE  PromoteEntry(t, k, s) \in TierEntry
  BY DEF PromoteEntry, TierEntry
<1>5. QED
  BY <1>1, <1>2, <1>3, <1>4

\* The replay of such an entry never raises.
LEMMA TierEntryIsLogged ==
  ASSUME NEW d, NEW e \in TierEntry
  PROVE  Logged(WalState(TRUE, d), e) = WalState(TRUE, ApplyEntry(d, e))
<1>1. e.op \in {"BOOK_TIER", "WAITLIST_ADD", "CANCEL_TICKET", "PROMOTE_TICKET"}
  BY DEF TierEntry
<1>2. ~Raises(d, e)
  BY <1>1 DEF Raises
<1> DEFINE a == ApplyEntry(d, e)
<1>3. Logged(WalState(TRUE, d), e) = [WalState(TRUE, d) EXCEPT !.rebuilt = a]
  BY <1>2 DEF Logged, WalState
<1> HIDE DEF a
<1>4. [WalState(TRUE, d) EXCEPT !.rebuilt = a] = WalState(TRUE, a)
  <2>1. ASSUME NEW r
        PROVE  [[replays |-> r, rebuilt |-> d] EXCEPT !.rebuilt = a] =
                 [replays |-> r, rebuilt |-> a]
    OBVIOUS
  <2>2. QED
    BY <2>1, Zenon DEF WalState
<1>5. QED
  BY <1>3, <1>4 DEF a

\* Two functions that are equal at 0, and equal at n if they are at n - 1, are
\* equal up to any bound: otherwise there is a least place where they differ.
LEMMA EqualUpTo ==
  ASSUME NEW N \in Nat, NEW f, NEW g, f[0] = g[0],
         \A n \in 1..N : f[n - 1] = g[n - 1] => f[n] = g[n]
  PROVE  \A n \in 0..N : f[n] = g[n]
<1> DEFINE Bad == {n \in 0..N : f[n] # g[n]}
<1> SUFFICES ASSUME Bad # {} PROVE FALSE
  OBVIOUS
<1>1. Bad \in SUBSET Nat
  OBVIOUS
<1>2. PICK m \in Bad : \A n \in Bad : m <= n
  <2> HIDE DEF Bad
  <2>1. QED
    BY <1>1, MinIsElement
<1>3. m # 0 /\ m \in 0..N
  BY <1>2
<1>4. m - 1 \in 0..N /\ m \in 1..N /\ m - 1 \notin Bad
  BY <1>2, <1>3
<1>5. f[m - 1] = g[m - 1]
  BY <1>4
<1>6. QED
  BY <1>2, <1>4, <1>5

\* The log of a sequence of entries replays to the end of its trace.
LEMMA LoggedAllOfTrace ==
  ASSUME NEW D, NEW d, NEW s \in Seq(TierEntry), IsTrace(D, d, s)
  PROVE  LoggedAll(WalState(TRUE, d), s) = WalState(TRUE, D[Len(s)])
<1> DEFINE w == WalState(TRUE, d)
           Eq(g) == g = [n \in 0..Len(s) |->
                           IF n = 0 THEN w ELSE Logged(g[n - 1], s[n])]
           M == [n \in 0..Len(s) |-> WalState(TRUE, D[n])]
<1>1. LoggedAll(w, s) = (CHOOSE f : Eq(f))[Len(s)]
  BY DEF LoggedAll
<1>2. Len(s) \in Nat
  BY LenProperties
<1>3. \A n \in 1..Len(s) : M[n] = Logged(M[n - 1], s[n])
  <2> SUFFICES ASSUME NEW n \in 1..Len(s) PROVE M[n] = Logged(M[n - 1], s[n])
    OBVIOUS
  <2>1. s[n] \in TierEntry
    BY ElementOfSeq
  <2>2. D[n] = ApplyEntry(D[n - 1], s[n])
    BY DEF IsTrace
  <2>3. n \in 0..Len(s) /\ n - 1 \in 0..Len(s)
    BY <1>2
  <2>4. M[n] = WalState(TRUE, D[n]) /\ M[n - 1] = WalState(TRUE, D[n - 1])
    BY <2>3
  <2>5. QED
    BY <2>1, <2>2, <2>4, TierEntryIsLogged
<1>4. M[0] = w
  <2>1. D[0] = d /\ 0 \in 0..Len(s)
    BY <1>2 DEF IsTrace
  <2>2. QED
    BY <2>1
<1>5. Eq(M)
  <2>1. \A n \in 0..Len(s) : M[n] = IF n = 0 THEN w ELSE Logged(M[n - 1], s[n])
    <3> HIDE DEF M, w
    <3> QED
      BY <1>2, <1>3, <1>4
  <2>2. M = [n \in 0..Len(s) |-> M[n]]
    OBVIOUS
  <2> HIDE DEF M, w
  <2>3. QED
    BY <2>1, <2>2
<1>6. ASSUME NEW g, Eq(g) PROVE g = M
  <2>1. /\ g[0] = w
        /\ \A n \in 1..Len(s) : g[n] = Logged(g[n - 1], s[n])
        /\ DOMAIN g = 0..Len(s)
        /\ g = [n \in DOMAIN g |-> g[n]]
    <3> HIDE DEF w
    <3> QED
      BY <1>2, <1>6
  <2>2. DOMAIN M = 0..Len(s) /\ M = [n \in DOMAIN M |-> M[n]]
    OBVIOUS
  <2> HIDE DEF M, w, Eq
  <2>3. \A n \in 1..Len(s) : g[n - 1] = M[n - 1] => g[n] = M[n]
    BY <1>3, <2>1
  <2>4. \A n \in 0..Len(s) : g[n] = M[n]
    <3>1. g[0] = M[0]
      BY <1>4, <2>1
    <3>2. QED
      BY <1>2, <2>3, <3>1, EqualUpTo, ZenonT(60)
  <2>5. QED
    BY <2>1, <2>2, <2>4
<1>7. M[Len(s)] = WalState(TRUE, D[Len(s)])
  BY <1>2
<1> HIDE DEF Eq, M, w
<1>8. (CHOOSE f : Eq(f)) = M
  BY <1>5, <1>6
<1>9. QED
  BY <1>1, <1>7, <1>8 DEF w

\* A trace of two sequences, one after the other: its first part is a trace of
\* the one, and the rest is a trace of the other.
LEMMA TraceOfParts ==
  ASSUME NEW D, NEW d, NEW a \in Seq(TierEntry), NEW b \in Seq(TierEntry),
         IsTrace(D, d, a \o b)
  PROVE  /\ IsTrace(D, d, a)
         /\ \A E : (\A n \in Nat : E[n] = D[n + Len(a)])
                     => IsTrace(E, D[Len(a)], b)
<1>1. Len(a) \in Nat /\ Len(b) \in Nat
  BY LenProperties
<1>2. /\ Len(a \o b) = Len(a) + Len(b)
      /\ \A i \in 1..Len(a) + Len(b) :
           (a \o b)[i] = IF i <= Len(a) THEN a[i] ELSE b[i - Len(a)]
  BY ConcatProperties
<1>3. \A i \in 1..Len(a) + Len(b) : D[i] = ApplyEntry(D[i - 1], (a \o b)[i])
  BY <1>2 DEF IsTrace
<1>4. IsTrace(D, d, a)
  <2>1. \A i \in 1..Len(a) : D[i] = ApplyEntry(D[i - 1], a[i])
    BY <1>1, <1>2, <1>3
  <2>2. QED
    BY <2>1 DEF IsTrace
<1>5. ASSUME NEW E, \A n \in Nat : E[n] = D[n + Len(a)]
      PROVE  IsTrace(E, D[Len(a)], b)
  <2>1. E[0] = D[Len(a)]
    BY <1>1, <1>5
  <2>2. ASSUME NEW i \in 1..Len(b) PROVE E[i] = ApplyEntry(E[i - 1], b[i])
    <3> DEFINE j == i + Len(a)
    <3>1. j \in 1..Len(a) + Len(b) /\ ~(j <= Len(a)) /\ j - Len(a) = i
      BY <1>1
    <3>2. E[i] = D[j] /\ E[i - 1] = D[j - 1]
      <4>1. i \in Nat /\ i - 1 \in Nat /\ (i - 1) + Len(a) = j - 1
        BY <1>1
      <4> HIDE DEF j
      <4>2. QED
        BY <1>5, <4>1 DEF j
    <3> HIDE DEF j
    <3>3. (a \o b)[j] = b[i]
      BY <1>2, <3>1
    <3>4. QED
      BY <1>3, <3>1, <3>2, <3>3
  <2>3. QED
    BY <2>1, <2>2 DEF IsTrace
<1>6. QED
  BY <1>4, <1>5

\* Where one trace ends another may go on.
LEMMA TraceOfConcat ==
  ASSUME NEW D, NEW d, NEW a \in Seq(TierEntry), NEW b \in Seq(TierEntry),
         NEW F, IsTrace(D, d, a), IsTrace(F, D[Len(a)], b),
         NEW E,
         \A n \in Nat : E[n] = IF n <= Len(a) THEN D[n] ELSE F[n - Len(a)]
  PROVE  IsTrace(E, d, a \o b)
<1>1. Len(a) \in Nat /\ Len(b) \in Nat
  BY LenProperties
<1>2. /\ Len(a \o b) = Len(a) + Len(b)
      /\ \A i \in 1..Len(a) + Len(b) :
           (a \o b)[i] = IF i <= Len(a) THEN a[i] ELSE b[i - Len(a)]
  BY ConcatProperties
<1>3. \A n \in Nat : n <= Len(a) => E[n] = D[n]
  OBVIOUS
<1>4. \A n \in Nat : n >= Len(a) => E[n] = F[n - Len(a)]
  <2>1. F[0] = D[Len(a)]
    BY DEF IsTrace
  <2>2. QED
    BY <1>1, <2>1
<1>5. ASSUME NEW i \in 1..Len(a) + Len(b)
      PROVE  E[i] = ApplyEntry(E[i - 1], (a \o b)[i])
  <2>0. i \in Nat /\ i - 1 \in Nat
    BY <1>1
  <2>1. CASE i <= Len(a)
    <3>1. i \in 1..Len(a)
      BY <1>1, <2>1
    <3>2. D[i] = ApplyEntry(D[i - 1], a[i])
      BY <3>1 DEF IsTrace
    <3>3. E[i] = D[i] /\ E[i - 1] = D[i - 1]
      BY <1>1, <1>3, <2>0, <2>1
    <3>4. QED
      BY <1>2, <2>1, <3>2, <3>3
  <2>2. CASE ~(i <= Len(a))
    <3> DEFINE j == i - Len(a)
    <3>1. j \in 1..Len(b) /\ (i - 1) - Len(a) = j - 1
      BY <1>1, <2>2
    <3>2. E[i] = F[j] /\ E[i - 1] = F[j - 1]
      <4>1. i >= Len(a) /\ i - 1 >= Len(a)
        BY <1>1, <2>2
      <4>2. E[i] = F[i - Len(a)] /\ E[i - 1] = F[(i - 1) - Len(a)]
        BY <1>4, <2>0, <4>1
      <4>3. QED
        BY <3>1, <4>2
    <3>3. (a \o b)[i] = b[j]
      BY <1>2, <2>2
    <3> HIDE DEF j
    <3>4. F[j] = ApplyEntry(F[j - 1], b[j])
      BY <3>1 DEF IsTrace
    <3>5. QED
      BY <3>2, <3>3, <3>4
  <2>3. QED
    BY <2>1, <2>2
<1>6. E[0] = d
  BY <1>1, <1>3 DEF IsTrace
<1>7. QED
  BY <1>2, <1>5, <1>6 DEF IsTrace

-----------------------------------------------------------------------------
(* The steps of Wal.append, crashes and restarts. *)

LEMMA CallRecords ==
  /\ Idle \in CallRecord
  /\ \A c \in CallRecord :
       /\ c.todo \in Seq(TierEntry) /\ c.changed \in BOOLEAN
       /\ [c EXCEPT !.changed = TRUE] \in CallRecord
       /\ [c EXCEPT !.changed = TRUE].changed = TRUE
       /\ [c EXCEPT !.changed = TRUE].todo = c.todo
       /\ [c EXCEPT !.changed = TRUE].answer = c.answer
<1>1. Idle \in CallRecord
  <2>1. <<>> \in Seq(TierEntry)
    BY EmptySeq
  <2>2. QED
    BY <2>1 DEF Idle, CallRecord
<1>2. ASSUME NEW c \in CallRecord
      PROVE  /\ c.todo \in Seq(TierEntry) /\ c.changed \in BOOLEAN
             /\ [c EXCEPT !.changed = TRUE] \in CallRecord
             /\ [c EXCEPT !.changed = TRUE].changed = TRUE
             /\ [c EXCEPT !.changed = TRUE].todo = c.todo
             /\ [c EXCEPT !.changed = TRUE].answer = c.answer
  BY DEF CallRecord
<1>3. QED
  BY <1>1, <1>2

\* The lines of a flush are the first of the pending entries: as many as are in
\* memory.
LEMMA LinesArePending ==
  ASSUME CrashInv
  PROVE  /\ Lines \in Seq(TierEntry) /\ Len(Lines) = Done
         /\ Done \in 0..Len(Pending)
         /\ Pending \in Seq(TierEntry)
         /\ call.changed =>
              /\ call.todo # <<>> /\ Tail(call.todo) \in Seq(TierEntry)
              /\ Pending = Lines \o Tail(call.todo)
              /\ Pending[Len(buffer) + 1] = Head(call.todo)
         /\ call.todo # <<>> /\ ~call.changed =>
              /\ Len(buffer) + 1 \in 1..Len(Pending)
              /\ Pending[Len(buffer) + 1] = Head(call.todo)
         /\ ~call.changed => Lines = buffer /\ Pending = Lines \o call.todo
         /\ call = Idle => Pending = buffer /\ Done = Len(buffer)
<1>1. /\ buffer \in Seq(TierEntry) /\ call.todo \in Seq(TierEntry)
      /\ call.changed \in BOOLEAN
      /\ call.changed => call.todo # <<>>
  BY CallRecords DEF CrashInv, CrashTypes
<1> DEFINE todo == call.todo
<1>2. /\ Pending \in Seq(TierEntry) /\ Len(Pending) = Len(buffer) + Len(todo)
      /\ \A i \in 1..Len(buffer) + Len(todo) :
           Pending[i] = IF i <= Len(buffer) THEN buffer[i] ELSE todo[i - Len(buffer)]
  BY <1>1, ConcatProperties DEF Pending
<1>3. Len(buffer) \in Nat /\ Len(todo) \in Nat
  BY <1>1, LenProperties
<1>4. ASSUME todo # <<>>
      PROVE  /\ Len(todo) >= 1 /\ Head(todo) = todo[1]
             /\ Head(todo) \in TierEntry /\ Tail(todo) \in Seq(TierEntry)
             /\ todo = <<Head(todo)>> \o Tail(todo)
             /\ Len(buffer) + 1 \in 1..Len(Pending)
             /\ Pending[Len(buffer) + 1] = Head(todo)
  <2>1. Len(todo) >= 1
    BY <1>1, <1>3, <1>4, EmptySeq
  <2>2. /\ Head(todo) \in TierEntry /\ Tail(todo) \in Seq(TierEntry)
        /\ Head(todo) = todo[1]
    BY <1>1, <1>4, HeadTailProperties
  <2>3. todo = <<Head(todo)>> \o Tail(todo)
    BY <1>1, <1>4
  <2>4. /\ Len(buffer) + 1 \in 1..Len(buffer) + Len(todo)
        /\ ~(Len(buffer) + 1 <= Len(buffer))
        /\ (Len(buffer) + 1) - Len(buffer) = 1
    BY <1>3, <2>1
  <2>5. Pending[Len(buffer) + 1] = todo[1]
    BY <1>2, <2>4
  <2>6. QED
    BY <1>2, <2>1, <2>2, <2>3, <2>4, <2>5
<1>5. CASE call.changed
  <2>1. todo # <<>>
    BY <1>1, <1>5
  <2>2. Lines = Append(buffer, Head(todo)) /\ Done = Len(buffer) + 1
    BY <1>5 DEF Lines, Done
  <2>3. Lines = buffer \o <<Head(todo)>>
    BY <1>1, <1>4, <2>1, <2>2, AppendIsConcat
  <2>4. Lines \in Seq(TierEntry) /\ Len(Lines) = Len(buffer) + 1
    BY <1>1, <1>4, <2>1, <2>2, AppendProperties
  <2>5. <<Head(todo)>> \in Seq(TierEntry)
    BY <1>4, <2>1
  <2>6. Pending = Lines \o Tail(todo)
    <3> DEFINE h == <<Head(todo)>>
               r == Tail(todo)
    <3>1. h \in Seq(TierEntry) /\ r \in Seq(TierEntry) /\ todo = h \o r
      BY <1>4, <2>1, <2>5
    <3> HIDE DEF h, r
    <3>2. (buffer \o h) \o r = buffer \o (h \o r)
      BY <1>1, <3>1, ConcatAssociative
    <3>3. Lines = buffer \o h
      BY <2>3 DEF h
    <3>4. Pending = buffer \o todo
      BY DEF Pending
    <3>5. Pending = Lines \o r
      BY <3>1, <3>2, <3>3, <3>4
    <3>6. QED
      BY <3>5 DEF r
  <2>7. call # Idle
    BY <2>1 DEF Idle
  <2>8. Done \in 0..Len(Pending) /\ Len(Lines) = Done
    <3>1. Len(todo) >= 1
      BY <1>4, <2>1
    <3>2. QED
      BY <1>2, <1>3, <2>2, <2>4, <3>1
  <2> HIDE DEF todo
  <2>9. /\ Tail(todo) \in Seq(TierEntry)
        /\ Pending[Len(buffer) + 1] = Head(todo)
    BY <1>4, <2>1
  <2>10. QED
    BY <1>2, <1>5, <2>1, <2>4, <2>6, <2>7, <2>8, <2>9 DEF todo
<1>6. CASE ~call.changed
  <2>1. Lines = buffer /\ Done = Len(buffer) /\ Pending = Lines \o todo
    BY <1>3, <1>6 DEF Lines, Done, Pending
  <2>2. Done \in 0..Len(Pending)
    BY <1>2, <1>3, <2>1
  <2>3. call = Idle => Pending = buffer
    BY <1>1, ConcatEmptySeq DEF Pending, Idle
  <2>4. QED
    BY <1>1, <1>2, <1>4, <1>6, <2>1, <2>2, <2>3
<1>7. QED
  BY <1>1, <1>5, <1>6

\* What the file holds once the first of the pending entries are in it.
LEMMA SomeLinesLogged ==
  ASSUME CrashInv, NEW D, Recoverable(D), NEW n \in 0..Len(Lines)
  PROVE  /\ LoggedAll(wal, SubSeq(Lines, 1, n)) = WalState(TRUE, D[n])
         /\ n \in 0..Len(Pending) /\ Sound(D[n]) /\ Keeps(D[n], told)
<1>1. Lines \in Seq(TierEntry) /\ Len(Lines) \in 0..Len(Pending)
  BY LinesArePending
<1>2. PICK rest \in Seq(TierEntry) : Pending = Lines \o rest
  <2>1. CASE call.changed
    BY <2>1, LinesArePending
  <2>2. CASE ~call.changed
    BY <2>2, LinesArePending, CallRecords DEF CrashInv, CrashTypes
  <2>3. QED
    BY <2>1, <2>2
<1>3. IsTrace(D, wal.rebuilt, Lines)
  BY <1>1, <1>2, TraceOfParts DEF Recoverable
<1> DEFINE s == SubSeq(Lines, 1, n)
<1>4. Len(Lines) \in Nat /\ n \in Nat /\ n <= Len(Lines)
  BY <1>1, LenProperties
<1>5. /\ s \in Seq(TierEntry) /\ Len(s) = n
      /\ \A i \in 1..n : s[i] = Lines[i]
  <2>1. \A i \in 1..n : Lines[i] \in TierEntry
    BY <1>1, <1>4, ElementOfSeq
  <2>2. 1 \in Int /\ n \in Int
    BY <1>4
  <2>3. /\ s \in Seq(TierEntry)
        /\ Len(s) = IF 1 <= n THEN n - 1 + 1 ELSE 0
        /\ \A i \in 1..n - 1 + 1 : s[i] = Lines[1 + i - 1]
    BY <2>1, <2>2, SubSeqProperties
  <2> HIDE DEF s
  <2>4. QED
    BY <1>4, <2>3
<1> HIDE DEF s
<1>6. IsTrace(D, wal.rebuilt, s)
  <2>1. \A i \in 1..n : i \in 1..Len(Lines)
    BY <1>4
  <2>2. QED
    BY <1>3, <1>5, <2>1 DEF IsTrace
<1>7. LoggedAll(WalState(TRUE, wal.rebuilt), s) = WalState(TRUE, D[n])
  BY <1>5, <1>6, LoggedAllOfTrace
<1>8. wal = WalState(TRUE, wal.rebuilt)
  BY DEF CrashInv, CrashTypes
<1>9. n \in 0..Len(Pending)
  BY <1>1
<1>10. QED
  BY <1>7, <1>8, <1>9 DEF Recoverable, s

LEMMA AllLinesLogged ==
  ASSUME CrashInv, NEW D, Recoverable(D)
  PROVE  /\ LoggedAll(wal, Lines) = WalState(TRUE, D[Done])
         /\ Done \in 0..Len(Pending) /\ Sound(D[Done]) /\ Keeps(D[Done], told)
<1>1. Lines \in Seq(TierEntry) /\ Len(Lines) = Done
  BY LinesArePending
<1>2. SubSeq(Lines, 1, Len(Lines)) = Lines
  BY <1>1, SubSeqFull
<1>3. Len(Lines) \in 0..Len(Lines)
  BY <1>1, LenProperties
<1>4. QED
  BY <1>1, <1>2, <1>3, SomeLinesLogged

LEMMA WalStateFields ==
  ASSUME NEW d
  PROVE  LET w == WalState(TRUE, d) IN w.rebuilt = d /\ w = WalState(TRUE, w.rebuilt)
BY DEF WalState

\* With nothing pending, one database is all there is to recover.
LEMMA NothingPending ==
  ASSUME NEW d, buffer' = <<>>, call' = Idle, wal' = WalState(TRUE, d),
         Sound(d), Keeps(d, told'), up' => db' = d
  PROVE  \E D : Recoverable(D)'
<1> DEFINE D == [n \in {0} |-> d]
<1>1. Pending' = <<>> /\ Done' = 0
  BY DEF Pending, Done, Idle
<1>2. D[0] = d /\ \A n \in 0..0 : D[n] = d
  OBVIOUS
<1> HIDE DEF D
<1>3. IsTrace(D, wal'.rebuilt, <<>>)
  <2>1. Len(<<>>) = 0 /\ 1..0 = {}
    OBVIOUS
  <2>2. D[0] = wal'.rebuilt
    BY <1>2, WalStateFields
  <2>3. QED
    BY <2>1, <2>2, Zenon DEF IsTrace
<1>4. Recoverable(D)'
  BY <1>1, <1>2, <1>3 DEF Recoverable
<1>5. QED
  BY <1>4

LEMMA ChangeKeeps ==
  ASSUME CrashInv, Change
  PROVE  CrashInv'
<1> USE DEF Change, file
<1>1. PICK D : Recoverable(D)
  BY DEF CrashInv
<1>2. /\ Len(buffer) + 1 \in 1..Len(Pending)
      /\ Pending[Len(buffer) + 1] = Head(call.todo)
      /\ Len(buffer) \in Nat
  BY LinesArePending, LenProperties DEF CrashInv, CrashTypes
<1>3. /\ call' \in CallRecord /\ call'.changed = TRUE
      /\ call'.todo = call.todo /\ call'.answer = call.answer
  BY CallRecords DEF CrashInv, CrashTypes
<1>4. call # Idle /\ call' # Idle /\ call' # Idle
  BY <1>3 DEF Idle
<1>5. Pending' = Pending /\ Done = Len(buffer) /\ Done' = Len(buffer) + 1
  BY <1>2, <1>3 DEF Pending, Done
<1>6. db' = D[Done']
  <2>1. D[Len(buffer) + 1] = ApplyEntry(D[Len(buffer) + 1 - 1], Pending[Len(buffer) + 1])
    BY <1>1, <1>2 DEF Recoverable, IsTrace
  <2>2. Len(buffer) + 1 - 1 = Len(buffer)
    BY <1>2
  <2>3. db = D[Len(buffer)]
    BY <1>1, <1>5 DEF Recoverable
  <2>4. QED
    BY <1>2, <1>5, <2>1, <2>2, <2>3
<1>7. Recoverable(D)'
  BY <1>1, <1>3, <1>4, <1>5, <1>6 DEF Recoverable
<1>8. QED
  BY <1>3, <1>4, <1>7 DEF CrashInv, CrashTypes

LEMMA AppendSucceedsKeeps ==
  ASSUME CrashInv, AppendSucceeds
  PROVE  CrashInv'
<1> USE DEF AppendSucceeds, Appending
<1>1. PICK D : Recoverable(D)
  BY DEF CrashInv
<1>2. /\ Lines \in Seq(TierEntry) /\ Len(Lines) = Done
      /\ call.todo # <<>> /\ Tail(call.todo) \in Seq(TierEntry)
      /\ Pending = Lines \o Tail(call.todo)
      /\ Len(Pending) = Done + Len(Tail(call.todo))
      /\ Done \in Nat /\ Len(Tail(call.todo)) \in Nat
  <2>1. /\ Lines \in Seq(TierEntry) /\ Len(Lines) = Done
        /\ call.todo # <<>> /\ Tail(call.todo) \in Seq(TierEntry)
        /\ Pending = Lines \o Tail(call.todo)
    BY LinesArePending
  <2>2. Len(Lines) \in Nat /\ Len(Tail(call.todo)) \in Nat
    BY <2>1, LenProperties
  <2>3. Len(Lines \o Tail(call.todo)) = Len(Lines) + Len(Tail(call.todo))
    BY <2>1, ConcatProperties
  <2>4. QED
    BY <2>1, <2>2, <2>3
<1>3. /\ call' \in CallRecord /\ call'.changed = FALSE
      /\ call'.todo = Tail(call.todo) /\ call'.answer = call.answer
  <2> DEFINE s == Tail(call.todo)
  <2>1. call' = [call EXCEPT !.todo = s, !.changed = FALSE]
    OBVIOUS
  <2>2. call \in CallRecord
    BY DEF CrashInv, CrashTypes
  <2>3. s \in Seq(TierEntry)
    BY <1>2
  <2> HIDE DEF s
  <2>4. /\ call' \in CallRecord /\ call'.changed = FALSE
        /\ call'.todo = s /\ call'.answer = call.answer
    <3> HIDE DEF AppendSucceeds
    <3>1. QED
      BY <2>1, <2>2, <2>3 DEF CallRecord
  <2>5. QED
    BY <2>4 DEF s
<1>4. call # Idle
  BY <1>2 DEF Idle
<1>5. Pending' = Tail(call.todo) /\ Done' = 0
  BY <1>2, <1>3, ConcatEmptySeq, EmptySeq DEF Pending, Done
<1>6. wal' = WalState(TRUE, D[Done])
  BY <1>1, AllLinesLogged
<1> PICK E : E = [n \in Nat |-> D[n + Len(Lines)]]
  OBVIOUS
<1>7. IsTrace(E, D[Done], Pending')
  <2>1. IsTrace(D, wal.rebuilt, Lines \o Tail(call.todo))
    BY <1>1, <1>2 DEF Recoverable
  <2>2. \A n \in Nat : E[n] = D[n + Len(Lines)]
    OBVIOUS
  <2>3. IsTrace(E, D[Len(Lines)], Tail(call.todo))
    BY <1>2, <2>1, <2>2, TraceOfParts
  <2>4. QED
    BY <1>2, <1>5, <2>3
<1>8. \A n \in 0..Len(Pending') : E[n] = D[n + Done] /\ n + Done \in 0..Len(Pending)
  BY <1>2, <1>5
<1>9. E[0] = D[Done] /\ E[Len(Pending')] = D[Len(Pending)]
  BY <1>2, <1>5
<1>10. Recoverable(E)'
  <2>1. IsTrace(E, wal'.rebuilt, Pending')
    BY <1>6, <1>7, WalStateFields
  <2>2. \A n \in 0..Len(Pending') : Sound(E[n]) /\ Keeps(E[n], told')
    BY <1>1, <1>8 DEF Recoverable
  <2>3. db' = E[Done']
    BY <1>1, <1>5, <1>9 DEF Recoverable
  <2>4. IsSo(E[Len(Pending')], call'.answer[1], call'.answer[2], call'.answer[3])
    BY <1>1, <1>3, <1>4, <1>9 DEF Recoverable
  <2> HIDE DEF AppendSucceeds
  <2>5. QED
    BY <2>1, <2>2, <2>3, <2>4, Zenon DEF Recoverable
<1>11. wal' = WalState(TRUE, wal'.rebuilt)
  BY <1>6, WalStateFields
<1>12. buffer' \in Seq(TierEntry)
  BY EmptySeq
<1>13. QED
  BY <1>3, <1>4, <1>10, <1>11, <1>12 DEF CrashInv, CrashTypes

LEMMA WriteFailsKeeps ==
  ASSUME CrashInv, WriteFails
  PROVE  CrashInv'
<1> USE DEF WriteFails, Appending, Escapes
<1>1. PICK D : Recoverable(D)
  BY DEF CrashInv
<1>2. /\ Lines \in Seq(TierEntry) /\ Len(Lines) = Done
      /\ Tail(call.todo) \in Seq(TierEntry)
      /\ Pending = Lines \o Tail(call.todo)
      /\ Done \in 0..Len(Pending)
  BY LinesArePending
<1>3. Pending' = Lines /\ Done' = Done /\ Len(Pending') = Done
  <2>1. Pending' = Lines \o <<>> /\ Done' = Len(Lines) + 0
    BY DEF Pending, Done, Idle
  <2>2. QED
    BY <1>2, <2>1, ConcatEmptySeq, LenProperties
<1>4. IsTrace(D, wal'.rebuilt, Pending')
  BY <1>1, <1>2, <1>3, TraceOfParts DEF Recoverable
<1>5. Recoverable(D)'
  <2>1. \A n \in 0..Done : n \in 0..Len(Pending)
    BY <1>2, LinesArePending, LenProperties
  <2>2. QED
    BY <1>1, <1>3, <1>4, <2>1 DEF Recoverable
<1>6. QED
  BY <1>2, <1>5, CallRecords DEF CrashInv, CrashTypes, Idle

LEMMA SyncFailsKeeps ==
  ASSUME CrashInv, SyncFails
  PROVE  CrashInv'
<1> USE DEF SyncFails, Appending, Escapes
<1>1. PICK D : Recoverable(D)
  BY DEF CrashInv
<1>2. /\ wal' = WalState(TRUE, D[Done])
      /\ Sound(D[Done]) /\ Keeps(D[Done], told)
  BY <1>1, AllLinesLogged
<1>3. db' = D[Done]
  BY <1>1 DEF Recoverable
<1>4. \E E : Recoverable(E)'
  BY <1>2, <1>3, NothingPending
<1>5. wal' = WalState(TRUE, wal'.rebuilt)
  BY <1>2, WalStateFields
<1>6. QED
  BY <1>4, <1>5, CallRecords, EmptySeq DEF CrashInv, CrashTypes, Idle

LEMMA CrashKeeps ==
  ASSUME CrashInv, Crash
  PROVE  CrashInv'
<1> USE DEF Crash
<1>1. PICK D : Recoverable(D)
  BY DEF CrashInv
<1>2. PICK n \in 0..Len(Lines) :
        /\ wal' = LoggedAll(wal, SubSeq(Lines, 1, n))
        /\ torn' \in {FALSE, n < Len(Lines)}
  OBVIOUS
<1>3. /\ wal' = WalState(TRUE, D[n])
      /\ Sound(D[n]) /\ Keeps(D[n], told)
  BY <1>1, <1>2, SomeLinesLogged
<1>4. \E E : Recoverable(E)'
  BY <1>3, NothingPending
<1>5. wal' = WalState(TRUE, wal'.rebuilt)
  BY <1>3, WalStateFields
<1>6. torn' \in BOOLEAN
  <2>1. (n < Len(Lines)) \in BOOLEAN
    OBVIOUS
  <2>2. QED
    BY <1>2, <2>1, Zenon
<1>7. QED
  BY <1>4, <1>5, <1>6, CallRecords, EmptySeq DEF CrashInv, CrashTypes, Idle

LEMMA RestartKeeps ==
  ASSUME CrashInv, Restart
  PROVE  CrashInv'
<1> USE DEF Restart, file
<1>1. PICK D : Recoverable(D)
  BY DEF CrashInv
<1>2. buffer = <<>> /\ call = Idle
  BY DEF CrashInv
<1>3. Pending = <<>> /\ Done = 0
  BY <1>2 DEF Pending, Done, Idle
<1>4. /\ wal = WalState(TRUE, D[0]) /\ Sound(D[0]) /\ Keeps(D[0], told)
      /\ wal.rebuilt = D[0]
  <2>1. D[0] = wal.rebuilt /\ 0 \in 0..Len(Pending)
    BY <1>1, <1>3 DEF Recoverable, IsTrace
  <2>2. QED
    BY <1>1, <2>1 DEF Recoverable, CrashInv, CrashTypes
<1>5. \E E : Recoverable(E)'
  BY <1>2, <1>4, NothingPending
<1>6. boots' \in 1..MaxBoots
  BY CrashBoundsAssumption DEF CrashInv, CrashTypes
<1>7. QED
  BY <1>2, <1>5, <1>6 DEF CrashInv, CrashTypes

LEMMA AnswerKeeps ==
  ASSUME CrashInv, Answer
  PROVE  CrashInv'
<1> USE DEF Answer, file
<1> DEFINE a == call.answer
<1>1. PICK D : Recoverable(D)
  BY DEF CrashInv
<1>2. buffer = <<>> /\ a \in AnswerOf
  BY DEF CrashInv
<1>3. Pending = <<>> /\ Done = 0
  <2>1. ~call.changed
    BY DEF CrashInv
  <2>2. QED
    BY <1>2, <2>1 DEF Pending, Done
<1>4. /\ wal = WalState(TRUE, D[0]) /\ Sound(D[0]) /\ Keeps(D[0], told)
      /\ db = D[0] /\ IsSo(D[0], a[1], a[2], a[3])
  <2>1. D[0] = wal.rebuilt /\ 0 \in 0..Len(Pending) /\ Len(Pending) = 0
    BY <1>1, <1>3 DEF Recoverable, IsTrace
  <2>2. QED
    BY <1>1, <1>3, <2>1 DEF Recoverable, CrashInv, CrashTypes
<1>5. /\ DOMAIN told' = DOMAIN told \cup {a[1]}
      /\ \A t \in DOMAIN told' : told'[t] = IF t = a[1] THEN a ELSE told[t]
  OBVIOUS
<1>6. a[1] \in TicketId /\ a[2] \in Statuses
  BY <1>2 DEF AnswerOf
<1> HIDE DEF a
<1>7. Keeps(D[0], told')
  BY <1>4, <1>5 DEF Keeps
<1>8. \E E : Recoverable(E)'
  BY <1>2, <1>4, <1>7, NothingPending
<1>9. \A t \in DOMAIN told' : t \in TicketId /\ told'[t][2] \in Statuses
  BY <1>5, <1>6 DEF CrashInv, CrashTypes
<1>10. QED
  BY <1>2, <1>8, <1>9, CallRecords DEF CrashInv, CrashTypes, Idle

-----------------------------------------------------------------------------
(* The steps that begin an operation. *)

\* What is memory between two operations.
LEMMA MemoryWhenIdle ==
  ASSUME CrashInv, up, call = Idle
  PROVE  Sound(db) /\ Keeps(db, told)
<1>1. PICK D : Recoverable(D)
  BY DEF CrashInv
<1>2. Sound(D[Done]) /\ Keeps(D[Done], told)
  BY <1>1, AllLinesLogged
<1>3. QED
  BY <1>1, <1>2 DEF Recoverable

\* An operation may begin if every database that its entries lead through is
\* sound and agrees with what is told of the other tickets, and the last agrees
\* with the answer.
LEMMA BeginKeeps ==
  ASSUME CrashInv, NEW key \in LockKey, NEW entries \in Seq(TierEntry),
         entries # <<>>, NEW answer \in AnswerOf, Begin(key, entries, answer),
         NEW F, IsTrace(F, db, entries),
         \A n \in 1..Len(entries) :
           /\ Sound(F[n])
           /\ \A u \in DOMAIN told \ {answer[1]} :
                IsSo(F[n], u, told[u][2], told[u][3]),
         IsSo(F[Len(entries)], answer[1], answer[2], answer[3])
  PROVE  CrashInv'
<1> USE DEF Begin, file
<1>1. PICK D : Recoverable(D)
  BY DEF CrashInv
<1>2. /\ Pending = buffer /\ Done = Len(buffer) /\ db = D[Len(buffer)]
      /\ buffer \in Seq(TierEntry) /\ Len(buffer) \in Nat
  <2>1. Pending = buffer /\ Done = Len(buffer)
    BY LinesArePending
  <2>2. db = D[Done]
    BY <1>1 DEF Recoverable
  <2>3. QED
    BY <2>1, <2>2, LenProperties DEF CrashInv, CrashTypes
<1>3. Len(entries) \in Nat /\ Len(entries) >= 1
  BY LenProperties, EmptySeq
<1>4. /\ call' = [key |-> key, todo |-> entries, changed |-> FALSE,
                  answer |-> answer]
      /\ call' \in CallRecord
  BY DEF CallRecord
<1>5. /\ call'.todo = entries /\ call'.changed = FALSE
      /\ call'.answer = answer
  BY <1>4
<1>6. /\ Pending' = buffer \o entries /\ Done' = Len(buffer)
      /\ Len(Pending') = Len(buffer) + Len(entries)
  BY <1>2, <1>5, ConcatProperties DEF Pending, Done
<1>7. /\ \A u \in DOMAIN told' : u \in DOMAIN told \ {answer[1]} /\ told'[u] = told[u]
  OBVIOUS
<1>8. PICK E : E = [n \in Nat |->
                      IF n <= Len(buffer) THEN D[n] ELSE F[n - Len(buffer)]]
  OBVIOUS
<1>9. \A n \in Nat : E[n] = IF n <= Len(buffer) THEN D[n] ELSE F[n - Len(buffer)]
  BY <1>8
<1>10. IsTrace(E, wal.rebuilt, Pending')
  BY <1>1, <1>2, <1>6, <1>9, TraceOfConcat DEF Recoverable
<1>11. ASSUME NEW n \in 0..Len(Pending')
       PROVE  Sound(E[n]) /\ Keeps(E[n], told')
  <2>1. CASE n <= Len(buffer)
    <3>1. E[n] = D[n] /\ n \in 0..Len(buffer)
      BY <1>2, <1>6, <1>9, <2>1
    <3>2. Sound(D[n]) /\ Keeps(D[n], told)
      BY <1>1, <1>2, <3>1 DEF Recoverable
    <3>3. QED
      BY <1>7, <3>1, <3>2 DEF Keeps
  <2>2. CASE ~(n <= Len(buffer))
    <3>1. E[n] = F[n - Len(buffer)] /\ n - Len(buffer) \in 1..Len(entries)
      <4>1. n \in Nat /\ n - Len(buffer) \in 1..Len(entries)
        BY <1>2, <1>3, <1>6, <2>2
      <4>2. QED
        BY <1>9, <2>2, <4>1
    <3>2. QED
      BY <1>7, <3>1 DEF Keeps
  <2>3. QED
    BY <2>1, <2>2
<1>12. db' = E[Done']
  BY <1>2, <1>6, <1>9
<1>13. IsSo(E[Len(Pending')], answer[1], answer[2], answer[3])
  <2>1. E[Len(Pending')] = F[Len(entries)]
    <3>1. /\ Len(buffer) + Len(entries) \in Nat
          /\ ~(Len(buffer) + Len(entries) <= Len(buffer))
          /\ (Len(buffer) + Len(entries)) - Len(buffer) = Len(entries)
      BY <1>2, <1>3
    <3>2. QED
      BY <1>6, <1>9, <3>1
  <2>2. QED
    BY <2>1
<1>14. Recoverable(E)'
  BY <1>5, <1>10, <1>11, <1>12, <1>13 DEF Recoverable
<1>15. \A t \in DOMAIN told' : t \in TicketId /\ told'[t][2] \in Statuses
  BY <1>7 DEF CrashInv, CrashTypes
<1>16. QED
  BY <1>4, <1>5, <1>14, <1>15 DEF CrashInv, CrashTypes

\* What holds of a ticket holds as long as the ticket is left alone.
LEMMA SameTicketIsSo ==
  ASSUME NEW d, NEW e, NEW t, t \in DOMAIN e.tickets,
         e.tickets[t] = d.tickets[t], NEW status, NEW seat,
         IsSo(d, t, status, seat)
  PROVE  IsSo(e, t, status, seat)
BY DEF IsSo

\* An operation of one entry, which adds a ticket.
LEMMA BeginTicketKeeps ==
  ASSUME CrashInv, NEW key \in LockKey, NEW entry \in TierEntry,
         NEW answer \in AnswerOf, Begin(key, <<entry>>, answer),
         NEW e, e = ApplyEntry(db, entry), Sound(e),
         \A u \in DOMAIN db.tickets : u # answer[1] =>
           u \in DOMAIN e.tickets /\ e.tickets[u] = db.tickets[u],
         IsSo(e, answer[1], answer[2], answer[3])
  PROVE  CrashInv'
<1>1. up /\ call = Idle
  BY DEF Begin
<1>2. Keeps(db, told)
  BY <1>1, MemoryWhenIdle
<1>3. \A u \in DOMAIN told \ {answer[1]} : IsSo(e, u, told[u][2], told[u][3])
  <2> SUFFICES ASSUME NEW u \in DOMAIN told \ {answer[1]}
               PROVE  IsSo(e, u, told[u][2], told[u][3])
    OBVIOUS
  <2>1. IsSo(db, u, told[u][2], told[u][3])
    BY <1>2 DEF Keeps
  <2>2. u \in DOMAIN db.tickets
    BY <2>1 DEF IsSo
  <2>3. QED
    BY <2>1, <2>2, SameTicketIsSo
<1>4. <<entry>> \in Seq(TierEntry) /\ Len(<<entry>>) = 1 /\ <<entry>>[1] = entry
  OBVIOUS
<1>5. PICK F : F = [n \in {0, 1} |-> IF n = 0 THEN db ELSE e]
  OBVIOUS
<1>6. F[0] = db /\ F[1] = e
  BY <1>5
<1>7. IsTrace(F, db, <<entry>>)
  <2>1. \A n \in 1..1 : n = 1 /\ n - 1 = 0
    OBVIOUS
  <2>2. QED
    BY <1>4, <1>6, <2>1 DEF IsTrace
<1>8. \A n \in 1..Len(<<entry>>) :
        /\ Sound(F[n])
        /\ \A u \in DOMAIN told \ {answer[1]} :
             IsSo(F[n], u, told[u][2], told[u][3])
  <2>1. \A n \in 1..1 : n = 1
    OBVIOUS
  <2>2. QED
    BY <1>3, <1>4, <1>6, <2>1
<1>9. <<entry>> # <<>>
  BY <1>4
<1>10. IsSo(F[Len(<<entry>>)], answer[1], answer[2], answer[3])
  BY <1>4, <1>6
<1> DEFINE entries == <<entry>>
<1>11. /\ entries \in Seq(TierEntry) /\ entries # <<>> /\ Begin(key, entries, answer)
       /\ IsTrace(F, db, entries)
       /\ \A n \in 1..Len(entries) :
            /\ Sound(F[n])
            /\ \A u \in DOMAIN told \ {answer[1]} :
                 IsSo(F[n], u, told[u][2], told[u][3])
       /\ IsSo(F[Len(entries)], answer[1], answer[2], answer[3])
  BY <1>4, <1>7, <1>8, <1>9, <1>10
<1> HIDE DEF entries
<1>12. QED
  BY <1>11, BeginKeeps

\* The id of the next ticket.
LEMMA NewTicketFacts ==
  ASSUME CrashInv, up, call = Idle
  PROVE  /\ boots \in Nat /\ NewTicket \in TicketId
         /\ NewTicket \notin DOMAIN db.tickets
<1>1. boots \in Nat
  BY CrashBoundsAssumption DEF CrashInv, CrashTypes
<1>2. IsDB(db) /\ TicketsAreNumbered(db)
  BY MemoryWhenIdle DEF Sound, ListsAreInStep
<1>3. QED
  BY <1>1, <1>2, NewTicketIsLast DEF NewTicket

LEMMA ConfirmKeeps ==
  ASSUME CrashInv, NEW key \in LockKey, NEW k \in Tier, NEW c \in Client,
         NEW seats, seats \subseteq AvailableIn(db, k),
         ConfirmFrom(key, seats, k, c)
  PROVE  CrashInv'
<1> DEFINE t == NewTicket
           s == Min(seats)
           e == BookTierNoLog(db, t, c, k, s)
           entry == BookTierEntry(t, c, k, s)
           answer == <<t, "confirmed", s>>
<1>1. up /\ call = Idle /\ seats # {} /\ Begin(key, <<entry>>, answer)
  BY DEF ConfirmFrom, Begin
<1>2. Sound(db)
  BY <1>1, MemoryWhenIdle
<1>3. t \in TicketId /\ t \notin DOMAIN db.tickets /\ boots \in Nat
  BY <1>1, NewTicketFacts
<1>4. s \in Seat /\ TierOf[s] = k /\ db.seats[s].state = "available"
  <2>1. seats \in SUBSET Nat
    BY DBAssumption DEF AvailableIn
  <2>2. s \in seats
    BY <1>1, <2>1, MinIsElement
  <2>3. QED
    BY <2>2 DEF AvailableIn
<1>5. db.seats[s] # BookedSeat
  BY <1>4 DEF BookedSeat
<1>6. Sound(e)
  <2>1. IsDB(e)
    BY <1>2, <1>3, <1>4, BookTierType DEF Sound
  <2>2. SeatsAreOwned(e)
    BY <1>2, <1>4, <1>5, BookTierKeepsOwners DEF Sound
  <2>3. SeatsInUse(e)
    BY <1>2, <1>3, BookTierKeepsInUse DEF Sound
  <2>4. ListsAreInStep(e)
    BY <1>2, <1>3, <1>4, BookTierStaysInStep DEF Sound, NewTicket
  <2> HIDE DEF e
  <2>5. QED
    BY <2>1, <2>2, <2>3, <2>4 DEF Sound
<1>7. /\ DOMAIN e.tickets = DOMAIN db.tickets \cup {t}
      /\ e.tickets[t].status = "confirmed" /\ e.tickets[t].seat_id = s
      /\ \A u \in DOMAIN db.tickets : u # t => e.tickets[u] = db.tickets[u]
  BY <1>2, BookTierMeaning DEF Sound
<1>8. e = ApplyEntry(db, entry)
  BY ApplyEntryMeaning
<1>9. entry \in TierEntry
  BY <1>3, <1>4, TierEntries
<1> HIDE DEF t, s, e, entry
<1>10. /\ answer \in AnswerOf
       /\ answer[1] = t /\ answer[2] = "confirmed" /\ answer[3] = s
  BY <1>3, <1>4 DEF AnswerOf, Statuses
<1> HIDE DEF answer
<1>11. IsSo(e, answer[1], answer[2], answer[3])
  BY <1>7, <1>10 DEF IsSo
<1>12. QED
  BY <1>1, <1>6, <1>7, <1>8, <1>9, <1>10, <1>11, BeginTicketKeeps

LEMMA JoinWaitingListKeeps ==
  ASSUME CrashInv, NEW k \in Tier, NEW c \in Client, JoinWaitingList(k, c)
  PROVE  CrashInv'
<1> DEFINE t == NewTicket
           e == WaitlistAddNoLog(db, t, c, k)
           entry == WaitlistAddEntry(t, c, k)
           answer == <<t, "waiting", None>>
           key == <<k>>
<1>1. up /\ call = Idle /\ Begin(key, <<entry>>, answer)
  BY DEF JoinWaitingList, Begin
<1>2. Sound(db)
  BY <1>1, MemoryWhenIdle
<1>3. t \in TicketId /\ t \notin DOMAIN db.tickets /\ boots \in Nat
  BY <1>1, NewTicketFacts
<1>4. key \in LockKey
  BY DEF LockKey
<1>6. Sound(e)
  <2>1. IsDB(e)
    BY <1>2, <1>3, WaitlistAddType DEF Sound
  <2>2. SeatsAreOwned(e)
    BY <1>2, WaitlistAddKeepsOwners DEF Sound
  <2>3. SeatsInUse(e)
    BY <1>2, <1>3, WaitlistAddKeepsInUse DEF Sound
  <2>4. ListsAreInStep(e)
    BY <1>2, <1>3, WaitlistAddStaysInStep DEF Sound, NewTicket
  <2> HIDE DEF e
  <2>5. QED
    BY <2>1, <2>2, <2>3, <2>4 DEF Sound
<1>7. /\ DOMAIN e.tickets = DOMAIN db.tickets \cup {t}
      /\ e.tickets[t].status = "waiting"
      /\ \A u \in DOMAIN db.tickets : u # t => e.tickets[u] = db.tickets[u]
  BY <1>2, WaitlistAddMeaning DEF Sound
<1>8. e = ApplyEntry(db, entry)
  BY ApplyEntryMeaning
<1>9. entry \in TierEntry
  BY <1>3, TierEntries
<1> HIDE DEF t, e, entry, key
<1>10. /\ answer \in AnswerOf
       /\ answer[1] = t /\ answer[2] = "waiting" /\ answer[3] = None
  BY <1>3 DEF AnswerOf, Statuses
<1> HIDE DEF answer
<1>11. IsSo(e, answer[1], answer[2], answer[3])
  BY <1>7, <1>10 DEF IsSo
<1>12. QED
  BY <1>1, <1>4, <1>6, <1>7, <1>8, <1>9, <1>10, <1>11, BeginTicketKeeps

\* A cancellation: the ticket is cancelled, and then, if its seat came free and
\* a ticket waits, the first of the waiting is promoted.
LEMMA CancelTicketKeeps ==
  ASSUME CrashInv, NEW t \in DOMAIN told, CancelTicket(t)
  PROVE  CrashInv'
<1> DEFINE k == db.tickets[t].tier
           s == db.tickets[t].seat_id
           d == CancelTicketNoLog(db, t, k, s)
           queue == Dequeue(db.waiting_lists, k, t)[k]
           h == Head(queue)
           e == PromoteTicketNoLog(d, h, k, s)
           cancel == CancelEntry(t, k, s)
           promote == PromoteEntry(h, k, s)
           key == <<k>>
           answer == <<t, "cancelled", None>>
           Others(x) == \A u \in DOMAIN told \ {t} :
                          IsSo(x, u, told[u][2], told[u][3])
           promotes == ~(s = None \/ queue = <<>>)
           entries == CancelEntries(t)
<1>1. /\ up /\ call = Idle /\ told[t][2] # "cancelled"
      /\ Begin(key, entries, answer)
  BY DEF CancelTicket, Begin
<1>2. Sound(db) /\ Keeps(db, told)
  BY <1>1, MemoryWhenIdle
<1>3. t \in TicketId /\ told[t][2] \in Statuses
  BY DEF CrashInv, CrashTypes
<1>4. /\ t \in DOMAIN db.tickets /\ db.tickets[t].status # "cancelled"
  <2>1. IsSo(db, t, told[t][2], told[t][3])
    BY <1>2 DEF Keeps
  <2>2. QED
    BY <1>1, <1>3, <2>1 DEF IsSo, Statuses
<1>5. k \in Tier /\ s \in Seat \cup {None} /\ (s # None => TierOf[s] = k)
  BY <1>2, <1>4 DEF Sound, IsDB, Ticket, ListsAreInStep, SeatsFit
<1>6. Sound(d)
  <2>1. IsDB(d) /\ ListsAreInStep(d)
    BY <1>2, <1>4, CancelTicketStaysInStep DEF Sound
  <2>2. SeatsAreOwned(d)
    BY <1>2, <1>4, CancelTicketKeepsOwners DEF Sound
  <2>3. SeatsInUse(d)
    BY <1>2, <1>4, CancelKeepsInUse DEF Sound
  <2> HIDE DEF d
  <2>4. QED
    BY <2>1, <2>2, <2>3 DEF Sound
<1>7. \A u \in DOMAIN d.tickets :
        d.tickets[u].status = "confirmed" => s = None \/ d.tickets[u].seat_id # s
  BY <1>2, <1>4, CancelTicketKeepsOwners DEF Sound
<1>8. /\ DOMAIN d.tickets = DOMAIN db.tickets
      /\ d.tickets[t].status = "cancelled" /\ d.tickets[t].tier = k
      /\ \A u \in DOMAIN db.tickets : u # t => d.tickets[u] = db.tickets[u]
      /\ d.waiting_lists[k] = queue
  BY <1>2, <1>4, CancelMeaning DEF Sound
<1>9. d = ApplyEntry(db, cancel) /\ e = ApplyEntry(d, promote)
  BY ApplyEntryMeaning
<1>10. entries = IF promotes THEN <<cancel, promote>> ELSE <<cancel>>
  BY DEF CancelEntries
<1>11. cancel \in TierEntry
  BY <1>3, <1>5, TierEntries
<1>12. key \in LockKey
  BY <1>5 DEF LockKey
<1> HIDE DEF d, cancel, key, entries
<1>13. Others(d) /\ IsSo(d, t, "cancelled", None)
  <2>1. ASSUME NEW u \in DOMAIN told \ {t}
        PROVE  IsSo(d, u, told[u][2], told[u][3])
    <3>1. IsSo(db, u, told[u][2], told[u][3])
      BY <1>2 DEF Keeps
    <3>2. u \in DOMAIN db.tickets
      BY <3>1 DEF IsSo
    <3>3. QED
      BY <1>8, <3>1, <3>2, SameTicketIsSo
  <2>2. IsSo(d, t, "cancelled", None)
    BY <1>4, <1>8 DEF IsSo
  <2>3. QED
    BY <2>1, <2>2
<1>14. /\ answer \in AnswerOf
       /\ answer[1] = t /\ answer[2] = "cancelled" /\ answer[3] = None
  BY <1>3 DEF AnswerOf, Statuses
<1> HIDE DEF answer
<1>15. CASE ~promotes
  <2>1. entries = <<cancel>>
    BY <1>10, <1>15
  <2>2. PICK F : F = [n \in {0, 1} |-> IF n = 0 THEN db ELSE d]
    OBVIOUS
  <2>3. F[0] = db /\ F[1] = d
    BY <2>2
  <2>4. /\ entries \in Seq(TierEntry) /\ entries # <<>>
        /\ Len(entries) = 1 /\ entries[1] = cancel
    BY <1>11, <2>1
  <2>5. \A n \in 1..1 : n = 1 /\ n - 1 = 0
    OBVIOUS
  <2>6. IsTrace(F, db, entries)
    BY <1>9, <2>3, <2>4, <2>5 DEF IsTrace
  <2>7. \A n \in 1..Len(entries) : Sound(F[n]) /\ Others(F[n])
    BY <1>6, <1>13, <2>3, <2>4, <2>5
  <2>8. IsSo(F[Len(entries)], answer[1], answer[2], answer[3])
    BY <1>13, <1>14, <2>3, <2>4
  <2>9. QED
    BY <1>1, <1>12, <1>14, <2>4, <2>6, <2>7, <2>8, BeginKeeps
<1>16. CASE promotes
  <2>1. s \in Seat /\ TierOf[s] = k /\ queue # <<>>
    BY <1>5, <1>16
  <2>2. queue \in Seq(TicketId) /\ Ascending(queue)
    BY <1>5, <1>6, <1>8 DEF Sound, IsDB, ListsAreInStep, ListsAscend
  <2>3. Contains(queue, h) /\ h \in TicketId
    BY <2>1, <2>2, HeadIsOldest, HeadTailProperties
  <2>4. ListsMatchTickets(d)
    BY <1>6 DEF Sound, ListsAreInStep
  <2> HIDE DEF k, s, queue, h
  <2>5. /\ h \in DOMAIN d.tickets
        /\ d.tickets[h].status = "waiting" /\ d.tickets[h].tier = k
    BY <1>5, <1>8, <2>3, <2>4, ListedIffWaiting
  <2>6. h # t
    BY <1>8, <2>5
  <2>7. Sound(e)
    <3>1. IsDB(e)
      BY <1>6, <2>1, PromoteType DEF Sound
    <3>2. SeatsAreOwned(e)
      <4>1. s # None
        BY <1>16
      <4>2. \A u \in DOMAIN d.tickets :
              d.tickets[u].status = "confirmed" => d.tickets[u].seat_id # s
        BY <1>7, <4>1
      <4>3. QED
        BY <1>6, <2>1, <4>2, PromoteKeepsOwners DEF Sound
    <3>3. SeatsInUse(e)
      BY <1>6, <2>5, PromoteKeepsInUse DEF Sound
    <3>4. ListsAreInStep(e)
      BY <1>6, <2>1, <2>5, PromoteStaysInStep DEF Sound
    <3> HIDE DEF e
    <3>5. QED
      BY <3>1, <3>2, <3>3, <3>4 DEF Sound
  <2>8. /\ DOMAIN e.tickets = DOMAIN d.tickets
        /\ e.tickets[h].status = "confirmed"
        /\ \A u \in DOMAIN d.tickets : u # h => e.tickets[u] = d.tickets[u]
    BY <1>6, <2>5, PromoteMeaning DEF Sound
  <2>9. promote \in TierEntry
    BY <1>5, <2>1, <2>3, TierEntries
  <2> HIDE DEF e, promote
  <2>10. Others(e)
    <3> SUFFICES ASSUME NEW u \in DOMAIN told \ {t}
                 PROVE  IsSo(e, u, told[u][2], told[u][3])
      OBVIOUS
    <3>1. IsSo(d, u, told[u][2], told[u][3])
      BY <1>13
    <3>2. CASE u # h
      BY <2>8, <3>1, <3>2, SameTicketIsSo DEF IsSo
    <3>3. CASE u = h
      BY <2>5, <2>8, <3>1, <3>3 DEF IsSo
    <3>4. QED
      BY <3>2, <3>3
  <2>11. IsSo(e, t, "cancelled", None)
    BY <1>13, <2>6, <2>8 DEF IsSo
  <2>12. entries = <<cancel, promote>>
    BY <1>10, <1>16
  <2>13. PICK F : F = [n \in {0, 1, 2} |->
                         IF n = 0 THEN db ELSE IF n = 1 THEN d ELSE e]
    OBVIOUS
  <2>14. F[0] = db /\ F[1] = d /\ F[2] = e
    BY <2>13
  <2>15. /\ entries \in Seq(TierEntry) /\ entries # <<>>
         /\ Len(entries) = 2 /\ entries[1] = cancel /\ entries[2] = promote
    BY <1>11, <2>9, <2>12
  <2>16. (\A n \in 1..2 : n = 1 \/ n = 2) /\ 1 - 1 = 0 /\ 2 - 1 = 1
    OBVIOUS
  <2>17. IsTrace(F, db, entries)
    BY <1>9, <2>14, <2>15, <2>16 DEF IsTrace
  <2>18. \A n \in 1..Len(entries) : Sound(F[n]) /\ Others(F[n])
    BY <1>6, <1>13, <2>7, <2>10, <2>14, <2>15, <2>16
  <2>19. IsSo(F[Len(entries)], answer[1], answer[2], answer[3])
    BY <1>14, <2>11, <2>14, <2>15
  <2>20. QED
    BY <1>1, <1>12, <1>14, <2>15, <2>17, <2>18, <2>19, BeginKeeps
<1>17. QED
  BY <1>15, <1>16

-----------------------------------------------------------------------------
(* The theorems. *)

LEMMA FreshDBIsSound == Sound(FreshDB)
<1>1. /\ FreshDB.tickets = [t \in {} |-> None] /\ DOMAIN FreshDB.tickets = {}
      /\ FreshDB.seats = [s \in Seat |-> FreeSeat]
      /\ FreshDB.waiting_lists = [k \in Tier |-> <<>>]
  BY DEF FreshDB
<1>2. SeatsAreOwned(FreshDB) /\ TicketsAreNumbered(FreshDB) /\ SeatsFit(FreshDB)
  BY <1>1 DEF SeatsAreOwned, TicketsAreNumbered, SeatsFit
<1>3. SeatsInUse(FreshDB)
  BY <1>1 DEF SeatsInUse, FreeSeat
<1>4. ListsMatchTickets(FreshDB) /\ ListsAscend(FreshDB)
  <2>1. \A k \in Tier : FreshDB.waiting_lists[k] = <<>>
    BY <1>1
  <2>2. 1..Len(<<>>) = {}
    OBVIOUS
  <2>3. QED
    BY <1>1, <2>1, <2>2 DEF ListsMatchTickets, ListsAscend, Ascending
<1>5. QED
  BY <1>2, <1>3, <1>4, FreshDBType DEF Sound, ListsAreInStep

LEMMA CrashInit == Init => CrashInv
<1> SUFFICES ASSUME Init PROVE CrashInv
  OBVIOUS
<1> USE DEF Init
<1>1. wal = WalState(TRUE, wal.rebuilt) /\ wal.rebuilt = FreshDB
  BY WalStateFields
<1>2. Pending = <<>> /\ Done = 0 /\ Len(Pending) = 0
  BY DEF Pending, Done, Idle
<1>3. DOMAIN told = {}
  OBVIOUS
<1>4. Keeps(FreshDB, told)
  BY <1>3 DEF Keeps
<1>5. PICK D : D = [n \in {0} |-> FreshDB]
  OBVIOUS
<1>6. D[0] = FreshDB /\ 0..0 = {0} /\ 1..0 = {}
  BY <1>5
<1>7. Recoverable(D)
  <2>1. IsTrace(D, wal.rebuilt, Pending)
    BY <1>1, <1>2, <1>6 DEF IsTrace
  <2>2. \A n \in 0..Len(Pending) : Sound(D[n]) /\ Keeps(D[n], told)
    BY <1>2, <1>4, <1>6, FreshDBIsSound
  <2>3. db = D[Done]
    BY <1>2, <1>6
  <2>4. QED
    BY <2>1, <2>2, <2>3 DEF Recoverable
<1>8. call.changed = FALSE
  BY DEF Idle
<1>9. boots \in 1..MaxBoots
  BY CrashBoundsAssumption
<1>10. buffer \in Seq(TierEntry) /\ call \in CallRecord
  BY CallRecords, EmptySeq
<1>11. \E E : Recoverable(E)
  BY <1>7
<1> HIDE DEF Init
<1>12. Init => up /\ call = Idle /\ torn = FALSE
  BY DEF Init
<1>13. QED
  BY <1>1, <1>3, <1>8, <1>9, <1>10, <1>11, <1>12 DEF CrashInv, CrashTypes

LEMMA CrashNext == CrashInv /\ [Next]_vars => CrashInv'
<1> SUFFICES ASSUME CrashInv, [Next]_vars PROVE CrashInv'
  OBVIOUS
<1>1. ASSUME NEW k \in Tier, NEW c \in Client, BookByTier(k, c) PROVE CrashInv'
  <2> DEFINE key == <<k>>
             seats == AvailableIn(db, k)
  <2>1. key \in LockKey /\ seats \subseteq AvailableIn(db, k)
    BY DEF LockKey
  <2>2. ConfirmFrom(key, seats, k, c)
    BY <1>1 DEF BookByTier
  <2> HIDE DEF key, seats
  <2>3. QED
    BY <2>1, <2>2, ConfirmKeeps
<1>2. ASSUME NEW k \in Tier, NEW c \in Client, JoinWaitingList(k, c) PROVE CrashInv'
  BY <1>2, JoinWaitingListKeeps
<1>3. ASSUME NEW k \in Tier, NEW c \in Client, NEW n \in {NumberOf[s] : s \in Seat},
             BookByTierAndSeatNumber(k, n, c)
      PROVE  CrashInv'
  <2> DEFINE key == <<k, n>>
             seats == AvailableNumbered(db, k, n)
  <2>1. n \in Nat
    BY DBAssumption
  <2>2. key \in LockKey /\ seats \subseteq AvailableIn(db, k)
    BY <2>1 DEF LockKey, AvailableNumbered
  <2>3. ConfirmFrom(key, seats, k, c)
    BY <1>3 DEF BookByTierAndSeatNumber
  <2> HIDE DEF key, seats
  <2>4. QED
    BY <2>2, <2>3, ConfirmKeeps
<1>4. ASSUME NEW t \in DOMAIN told, CancelTicket(t) PROVE CrashInv'
  BY <1>4, CancelTicketKeeps
<1>5. CASE Change
  BY <1>5, ChangeKeeps
<1>6. CASE AppendSucceeds
  BY <1>6, AppendSucceedsKeeps
<1>7. CASE WriteFails
  BY <1>7, WriteFailsKeeps
<1>8. CASE SyncFails
  BY <1>8, SyncFailsKeeps
<1>9. CASE Answer
  BY <1>9, AnswerKeeps
<1>10. CASE Crash
  BY <1>10, CrashKeeps
<1>11. CASE Restart
  BY <1>11, RestartKeeps
<1>12. CASE UNCHANGED vars
  BY <1>12 DEF vars, file, CrashInv, CrashTypes, Recoverable, Pending, Done
<1>13. QED
  BY <1>1, <1>2, <1>3, <1>4, <1>5, <1>6, <1>7, <1>8, <1>9, <1>10, <1>11, <1>12
  DEF Next

\* Whatever write, fsync or process fails, and wherever: every database that
\* the file holds, or may come to hold, is sound and has what was answered.
THEOREM CrashInvariant == CrashSpec => []CrashInv
<1>1. QED
  BY CrashInit, CrashNext, PTL DEF CrashSpec

LEMMA FileIsSound ==
  ASSUME CrashInv
  PROVE  Sound(wal.rebuilt) /\ Keeps(wal.rebuilt, told)
<1>1. PICK D : Recoverable(D)
  BY DEF CrashInv
<1>2. 0 \in 0..Len(Pending)
  BY LinesArePending, LenProperties
<1>3. D[0] = wal.rebuilt
  BY <1>1 DEF Recoverable, IsTrace
<1>4. QED
  BY <1>1, <1>2, <1>3 DEF Recoverable

\* Memory and the log keep their types through failed writes and restarts.
THEOREM CrashTypeCorrect == CrashSpec => []CrashTypeOK
<1>1. ASSUME CrashInv PROVE CrashTypeOK
  <2>1. IsDB(db)
    <3>1. CASE ~up
      BY <1>1, <3>1, FreshDBType DEF CrashInv
    <3>2. CASE up
      <4>1. PICK D : Recoverable(D)
        BY <1>1 DEF CrashInv
      <4>2. Sound(D[Done]) /\ db = D[Done]
        BY <1>1, <3>2, <4>1, AllLinesLogged DEF Recoverable
      <4>3. QED
        BY <4>2 DEF Sound
    <3>3. QED
      BY <3>1, <3>2
  <2>2. IsWal(wal)
    <3>1. wal = WalState(TRUE, wal.rebuilt) /\ IsDB(wal.rebuilt)
      BY <1>1, FileIsSound DEF CrashInv, CrashTypes, Sound
    <3>2. wal.replays = TRUE
      BY <3>1 DEF WalState
    <3>3. QED
      BY <3>1, <3>2 DEF IsWal
  <2>3. call.changed \in BOOLEAN
    BY <1>1, CallRecords DEF CrashInv, CrashTypes
  <2>4. QED
    BY <1>1, <2>1, <2>2, <2>3 DEF CrashInv, CrashTypes, CrashTypeOK
<1>2. QED
  BY <1>1, CrashInvariant, PTL

\* Wal.append comes before the answer: what a client was told is in the file,
\* whatever fails later.
THEOREM ToldIsDurableCorrect == CrashSpec => []ToldIsDurable
<1>1. ASSUME CrashInv PROVE ToldIsDurable
  <2>1. Keeps(wal.rebuilt, told)
    BY <1>1, FileIsSound
  <2>2. QED
    BY <2>1 DEF Keeps, IsSo, ToldIsDurable
<1>2. QED
  BY <1>1, CrashInvariant, PTL

\* Between operations memory is what the file and the entries that failed
\* writes left in the file object add up to.
THEOREM MemoryIsLogAndBufferCorrect == CrashSpec => []MemoryIsLogAndBuffer
<1>1. ASSUME CrashInv, up, call = Idle
      PROVE  LoggedAll(wal, buffer) = WalState(TRUE, db)
  <2>1. PICK D : Recoverable(D)
    BY <1>1 DEF CrashInv
  <2>2. Lines = buffer
    <3>1. ~call.changed
      BY <1>1 DEF Idle
    <3>2. QED
      BY <3>1 DEF Lines
  <2>3. LoggedAll(wal, Lines) = WalState(TRUE, D[Done])
    BY <1>1, <2>1, AllLinesLogged
  <2>4. db = D[Done]
    BY <1>1, <2>1 DEF Recoverable
  <2>5. QED
    BY <2>2, <2>3, <2>4
<1>2. CrashInv => MemoryIsLogAndBuffer
  BY <1>1 DEF MemoryIsLogAndBuffer
<1>3. QED
  BY <1>2, CrashInvariant, PTL

\* Wherever the process dies, the log never gives a seat to two tickets, and
\* books none without a ticket.
THEOREM CrashKeepsSeatsConsistentCorrect ==
  CrashSpec => []CrashKeepsSeatsConsistent
<1>1. ASSUME CrashInv PROVE CrashKeepsSeatsConsistent
  <2> DEFINE d == wal.rebuilt
             H(s) == {t \in DOMAIN d.tickets :
                        d.tickets[t].status = "confirmed" /\ d.tickets[t].seat_id = s}
  <2>1. Sound(d)
    BY <1>1, FileIsSound
  <2>2. ASSUME NEW s \in Seat
        PROVE  Cardinality(H(s)) = IF d.seats[s] = BookedSeat THEN 1 ELSE 0
    <3>1. CASE d.seats[s] = BookedSeat
      <4>1. d.seats[s].state # "available"
        BY <3>1 DEF BookedSeat
      <4>2. PICK t \in DOMAIN d.tickets :
              d.tickets[t].status = "confirmed" /\ d.tickets[t].seat_id = s
        BY <2>1, <4>1 DEF Sound, SeatsInUse
      <4>3. H(s) = {t}
        BY <2>1, <4>2 DEF Sound, SeatsAreOwned
      <4>4. QED
        BY <3>1, <4>3, FS_Singleton
    <3>2. CASE d.seats[s] # BookedSeat
      <4>1. H(s) = {}
        BY <2>1, <3>2 DEF Sound, SeatsAreOwned
      <4>2. QED
        BY <3>2, <4>1, FS_EmptySet
    <3>3. QED
      BY <3>1, <3>2
  <2>3. QED
    BY <2>2 DEF CrashKeepsSeatsConsistent
<1>2. QED
  BY <1>1, CrashInvariant, PTL
=============================================================================
