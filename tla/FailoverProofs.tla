--------------------------- MODULE FailoverProofs ---------------------------
(***************************************************************************)
(* What Failover promises about safety, for every interval, timeout and    *)
(* bound of the delay.  Only the two facts about timing need to know that  *)
(* the timeout leaves room for an interval and a delay.                    *)
(***************************************************************************)
EXTENDS Failover, SequenceTheorems, TLAPS

-----------------------------------------------------------------------------
(* The invariant: first where everybody stands, then the ages. *)

\* The link belongs to the attempt or the connection that run is busy with,
\* and a server that serves was told to stop by the promotion.
StandsFit ==
  /\ link = "none" <=> run \in {"connecting", "ended"}
  /\ link = "open" => primary = "up"
  /\ run = "streaming" => monitor # "none"
  /\ main # "waiting" => promoted
  /\ main = "serving" => run = "ended"

FailoverInv == FailoverTypeOK /\ StandsFit

\* While nothing was late, a primary that runs has been heard of lately: since
\* its last heartbeat if none is under way, or an interval before the oldest of
\* those that are.  Time stands still at the end of a stream until it is read.
HeardOf ==
  ~late /\ run = "streaming" /\ primary = "up" =>
    /\ link # "orphan"
    /\ age <= HbInterval + MaxDelay
    /\ link = "open" /\ flight = <<>> => age <= due
    /\ link = "open" /\ flight # <<>> => age <= Head(flight) + HbInterval

\* While nothing was late, whoever was promoted has lost its primary.
PromotedAlone == ~late /\ promoted => primary = "down"

TimingInv == FailoverInv /\ HeardOf /\ PromotedAlone

-----------------------------------------------------------------------------
(* Heartbeats under way. *)

Flights == Seq(0..MaxDelay)

LEMMA FunctionIsSeq ==
  ASSUME NEW S, NEW n \in Nat, NEW f \in [1..n -> S]
  PROVE  f \in Seq(S) /\ Len(f) = n
OBVIOUS

LEMMA HeadOfAppend ==
  ASSUME NEW S, NEW f \in Seq(S), NEW x \in S
  PROVE  /\ Append(f, x) # <<>>
         /\ Head(Append(f, x)) = IF f = <<>> THEN x ELSE Head(f)
<1>1. /\ Append(f, x) \in Seq(S) /\ Len(Append(f, x)) = Len(f) + 1
      /\ Append(f, x)[1] = IF Len(f) = 0 THEN x ELSE f[1]
  OBVIOUS
<1>2. \A s \in Seq(S) : s = <<>> <=> Len(s) = 0
  OBVIOUS
<1>3. \A s \in Seq(S) : s # <<>> => Head(s) = s[1]
  OBVIOUS
<1>4. Len(f) \in Nat
  OBVIOUS
<1> DEFINE a == Append(f, x)
<1>5. a \in Seq(S) /\ Len(a) # 0
  BY <1>1, <1>4
<1>6. a[1] = IF Len(f) = 0 THEN x ELSE f[1]
  BY <1>1
<1> HIDE DEF a
<1>7. a # <<>> /\ Head(a) = a[1]
  BY <1>2, <1>3, <1>5
<1>8. QED
  BY <1>2, <1>3, <1>6, <1>7 DEF a

LEMMA HeadIsFirst ==
  ASSUME NEW S, NEW f \in Seq(S), f # <<>>
  PROVE  Head(f) = f[1] /\ 1 \in DOMAIN f
OBVIOUS

LEMMA FlightFacts ==
  ASSUME NEW f \in Flights
  PROVE  /\ <<>> \in Flights /\ Append(f, 0) \in Flights
         /\ Append(f, 0) # <<>>
         /\ Head(Append(f, 0)) = IF f = <<>> THEN 0 ELSE Head(f)
         /\ f # <<>> => Tail(f) \in Flights /\ Head(f) \in 0..MaxDelay
<1>1. 0 \in 0..MaxDelay
  BY FailoverAssumption
<1>2. <<>> \in Flights /\ Append(f, 0) \in Flights
  BY <1>1 DEF Flights
<1>3. ASSUME f # <<>>
      PROVE  Tail(f) \in Flights /\ Head(f) \in 0..MaxDelay
  <2>1. f \in Seq(0..MaxDelay)
    BY DEF Flights
  <2>2. QED
    BY <1>3, <2>1, HeadTailProperties DEF Flights
<1>4. Append(f, 0) # <<>> /\ Head(Append(f, 0)) = IF f = <<>> THEN 0 ELSE Head(f)
  BY <1>1, HeadOfAppend DEF Flights
<1>5. QED
  BY <1>2, <1>3, <1>4

\* They all grow older by one, and stay within the delay.
LEMMA FlightsAge ==
  ASSUME flight \in Flights, Tick
  PROVE  /\ flight' \in Flights
         /\ flight' = <<>> <=> flight = <<>>
         /\ flight # <<>> => Head(flight') = AtMost(Head(flight) + 1, MaxDelay)
<1> DEFINE n == Len(flight)  Aged(i) == AtMost(flight[i] + 1, MaxDelay)
<1>1. n \in Nat /\ DOMAIN flight = 1..n /\ flight \in [1..n -> 0..MaxDelay]
  BY LenProperties DEF Flights
<1>2. \A i \in 1..n : Aged(i) \in 0..MaxDelay
  BY <1>1, FailoverAssumption DEF AtMost
<1>3. flight' = [i \in 1..n |-> Aged(i)]
  BY <1>1 DEF Tick
<1>4. flight = <<>> <=> n = 0
  BY DEF Flights
<1>5. n # 0 => Aged(1) = AtMost(Head(flight) + 1, MaxDelay)
  BY <1>1
<1> HIDE DEF n, Aged
<1>6. flight' \in [1..n -> 0..MaxDelay]
  BY <1>2, <1>3
<1>7. flight' \in Flights /\ Len(flight') = n
  BY <1>1, <1>6, FunctionIsSeq DEF Flights
<1>8. ASSUME n # 0 PROVE Head(flight') = Aged(1)
  <2>1. flight'[1] = Aged(1)
    BY <1>1, <1>3, <1>8
  <2>2. QED
    BY <1>7, <1>8, <2>1 DEF Flights
<1>9. QED
  BY <1>4, <1>5, <1>7, <1>8 DEF Flights

\* In every step they are let be, grow older, are joined by one, lose their
\* first or go with their connection.
LEMMA FlightsKeepType ==
  ASSUME FailoverTypeOK, [Next]_vars
  PROVE  flight' \in Flights
<1>1. flight \in Flights
  BY DEF FailoverTypeOK, Flights
<1>2. CASE Tick
  BY <1>1, <1>2, FlightsAge
<1>3. CASE UNCHANGED flight
  BY <1>1, <1>3
<1>4. CASE flight' = <<>>
  BY <1>1, <1>4, FlightFacts
<1>5. CASE flight' = Append(flight, 0)
  BY <1>1, <1>5, FlightFacts
<1>6. CASE flight # <<>> /\ flight' = Tail(flight)
  BY <1>1, <1>6, FlightFacts
<1>7. QED
  BY <1>2, <1>3, <1>4, <1>5, <1>6
  DEF Next, Backup, vars, Heartbeat, HeartbeatTaskDies, PrimaryCrashes,
      PrimaryVanishes, PrimaryRestarts, LinkBreaks, Dial, Connected,
      HandshakeFails, ReadHeartbeat, StreamEnds, RunEnds, MonitorFires,
      MainWakes, Serves

-----------------------------------------------------------------------------
(* Types and places. *)

LEMMA StartFits == Init => FailoverInv
<1>1. Init => flight \in Seq(0..MaxDelay)
  BY FailoverAssumption DEF Init
<1>2. Init => age \in 0..(HbTimeout + 1) /\ due \in 0..HbInterval
  BY FailoverAssumption DEF Init
<1>3. QED
  BY <1>1, <1>2 DEF Init, FailoverInv, FailoverTypeOK, StandsFit

\* Clocks stay within their bounds.
LEMMA ClocksKeepType ==
  ASSUME FailoverTypeOK, [Next]_vars
  PROVE  due' \in 0..HbInterval /\ age' \in 0..(HbTimeout + 1)
<1>1. due \in 0..HbInterval /\ age \in 0..(HbTimeout + 1)
  BY DEF FailoverTypeOK
<1>2. CASE Tick
  BY <1>1, <1>2, FailoverAssumption DEF Tick, AtMost
<1>3. CASE due' \in {0, due} /\ age' \in {0, age}
  BY <1>1, <1>3, FailoverAssumption
<1>4. QED
  BY <1>2, <1>3
  DEF Next, Backup, vars, Heartbeat, HeartbeatTaskDies, PrimaryCrashes,
      PrimaryVanishes, PrimaryRestarts, LinkBreaks, Dial, Connected,
      HandshakeFails, ReadHeartbeat, StreamEnds, RunEnds, MonitorFires,
      MainWakes, Serves, primaryVars

LEMMA StepsFit == FailoverInv /\ [Next]_vars => FailoverInv'
<1> SUFFICES ASSUME FailoverInv, [Next]_vars
             PROVE  FailoverInv'
  OBVIOUS
<1>1. flight' \in Seq(0..MaxDelay)
  BY FlightsKeepType DEF FailoverInv, Flights
<1>2. due' \in 0..HbInterval /\ age' \in 0..(HbTimeout + 1)
  BY ClocksKeepType DEF FailoverInv
<1> USE <1>1, <1>2 DEF FailoverInv, FailoverTypeOK, StandsFit,
        primaryVars, serverVars
<1>3. CASE Tick
  BY <1>3 DEF Tick
<1>4. CASE Heartbeat
  BY <1>4 DEF Heartbeat
<1>5. CASE HeartbeatTaskDies
  BY <1>5 DEF HeartbeatTaskDies
<1>6. CASE PrimaryCrashes
  BY <1>6 DEF PrimaryCrashes
<1>7. CASE PrimaryVanishes
  BY <1>7 DEF PrimaryVanishes
<1>8. CASE PrimaryRestarts
  BY <1>8 DEF PrimaryRestarts
<1>9. CASE LinkBreaks
  BY <1>9 DEF LinkBreaks
<1>10. CASE Dial
  BY <1>10 DEF Dial
<1>11. CASE Connected
  BY <1>11 DEF Connected
<1>12. CASE HandshakeFails
  BY <1>12 DEF HandshakeFails
<1>13. CASE ReadHeartbeat
  BY <1>13 DEF ReadHeartbeat
<1>14. CASE StreamEnds
  BY <1>14 DEF StreamEnds
<1>15. CASE RunEnds
  BY <1>15 DEF RunEnds
<1>16. CASE MonitorFires
  BY <1>16 DEF MonitorFires
<1>17. CASE MainWakes
  BY <1>17 DEF MainWakes
<1>18. CASE Serves
  BY <1>18 DEF Serves
<1>19. CASE UNCHANGED vars
  BY <1>19 DEF vars
<1>20. QED
  BY <1>3, <1>4, <1>5, <1>6, <1>7, <1>8, <1>9, <1>10, <1>11, <1>12, <1>13,
     <1>14, <1>15, <1>16, <1>17, <1>18, <1>19 DEF Next, Backup

\* Types; and every connection has its monitor, every server that serves its
\* promotion behind it.
THEOREM FailoverInvariant == FailoverSpec => []FailoverInv
BY StartFits, StepsFit, PTL DEF FailoverSpec

\* A backup that has taken over reads from no primary and has no monitor
\* (server.py start: await task before _start_primary).
THEOREM TakesOverDisconnectedCorrect == FailoverSpec => []TakesOverDisconnected
<1>1. FailoverInv => TakesOverDisconnected
  BY DEF FailoverInv, FailoverTypeOK, StandsFit, TakesOverDisconnected
<1>2. QED
  BY <1>1, FailoverInvariant, PTL

-----------------------------------------------------------------------------
(* Timing.  In what follows the timeout leaves room for an interval and a   *)
(* delay: hb_interval_s is 1.0 and hb_timeout_s 3.5 by default.             *)

TimeoutLeavesRoom == HbInterval + MaxDelay <= HbTimeout

\* The monitor does not raise while its primary runs and nothing was late.
LEMMA FiresForAReason ==
  ASSUME TimeoutLeavesRoom, TimingInv, MonitorFires, ~late
  PROVE  primary = "down"
<1>1. run = "streaming" /\ primary \in {"up", "down"}
  BY DEF TimingInv, FailoverInv, FailoverTypeOK, MonitorFires
<1>2. age > HbInterval + MaxDelay
  BY FailoverAssumption DEF TimeoutLeavesRoom, MonitorFires, TimingInv,
     FailoverInv, FailoverTypeOK
<1>3. ~(age <= HbInterval + MaxDelay)
  BY <1>2, FailoverAssumption DEF TimingInv, FailoverInv, FailoverTypeOK
<1>4. QED
  BY <1>1, <1>3 DEF TimingInv, HeardOf

LEMMA TickKeepsHeardOf ==
  ASSUME TimingInv, Tick
  PROVE  HeardOf'
<1> SUFFICES ASSUME ~late', run' = "streaming", primary' = "up"
             PROVE  /\ link' # "orphan"
                    /\ age' <= HbInterval + MaxDelay
                    /\ link' = "open" /\ flight' = <<>> => age' <= due'
                    /\ link' = "open" /\ flight' # <<>> =>
                         age' <= Head(flight') + HbInterval
  BY DEF HeardOf
<1>1. ~late /\ Punctual /\ UNCHANGED <<run, primary, link>>
  BY DEF Tick
<1>2. flight \in Flights /\ age \in Nat /\ due \in Nat
  BY DEF TimingInv, FailoverInv, FailoverTypeOK, Flights
<1>3. link = "open"
  BY <1>1 DEF TimingInv, FailoverInv, FailoverTypeOK, StandsFit, HeardOf, Punctual
<1>4. age' <= age + 1
  BY <1>2, FailoverAssumption DEF Tick, AtMost
<1>5. CASE flight = <<>>
  <2>1. age <= due /\ due < HbInterval
    BY <1>1, <1>3, <1>5 DEF TimingInv, HeardOf, Punctual
  <2>2. due' = due + 1
    BY <1>2, <2>1, FailoverAssumption DEF Tick, AtMost
  <2>3. flight' = <<>>
    BY <1>2, <1>5, FlightsAge
  <2>4. age' \in Nat /\ age' <= due' /\ age' <= HbInterval + MaxDelay
    BY <1>2, <1>4, <2>1, <2>2, FailoverAssumption DEF Tick, AtMost
  <2>5. QED
    BY <1>1, <1>3, <2>3, <2>4
<1>6. CASE flight # <<>>
  <2>1. Head(flight) \in 0..MaxDelay
    BY <1>2, <1>6, FlightFacts
  <2>2. Head(flight) < MaxDelay
    BY <1>1, <1>2, <1>6, HeadIsFirst DEF Punctual, Flights
  <2>3. age <= Head(flight) + HbInterval
    BY <1>1, <1>3, <1>6 DEF TimingInv, HeardOf
  <2>4. flight' # <<>> /\ Head(flight') = AtMost(Head(flight) + 1, MaxDelay)
    BY <1>2, <1>6, FlightsAge
  <2>5. Head(flight') = Head(flight) + 1
    BY <2>1, <2>2, <2>4, FailoverAssumption DEF AtMost
  <2>6. age' <= Head(flight') + HbInterval /\ age' <= HbInterval + MaxDelay
    BY <1>2, <1>4, <2>1, <2>2, <2>3, <2>5, FailoverAssumption DEF Tick, AtMost
  <2>7. QED
    BY <1>1, <1>3, <2>4, <2>6
<1>7. QED
  BY <1>5, <1>6

\* A heartbeat that is sent is the only one under way, or behind the oldest.
LEMMA HeartbeatKeepsHeardOf ==
  ASSUME TimingInv, Heartbeat
  PROVE  HeardOf'
<1>1. flight \in Flights /\ age \in Nat /\ due \in Nat
  BY DEF TimingInv, FailoverInv, FailoverTypeOK, Flights
<1>2. UNCHANGED <<late, run, primary, link, age>> /\ due = HbInterval
  BY DEF Heartbeat, serverVars
<1>3. CASE link = "open"
  <2>1. flight' # <<>> /\ Head(flight') = IF flight = <<>> THEN 0 ELSE Head(flight)
    BY <1>1, <1>3, FlightFacts DEF Heartbeat
  <2>2. QED
    BY <1>1, <1>2, <1>3, <2>1, FailoverAssumption DEF TimingInv, HeardOf
<1>4. CASE link # "open"
  BY <1>2, <1>4 DEF TimingInv, HeardOf
<1>5. QED
  BY <1>3, <1>4

LEMMA ReadKeepsHeardOf ==
  ASSUME TimingInv, ReadHeartbeat
  PROVE  HeardOf'
<1>1. flight' \in Flights /\ due \in Nat
  BY FlightFacts DEF ReadHeartbeat, TimingInv, FailoverInv, FailoverTypeOK, Flights
<1>2. flight' # <<>> => Head(flight') \in 0..MaxDelay
  BY <1>1, FlightFacts
<1>3. age' = 0 /\ UNCHANGED <<late, run, primary, link, due>>
  BY DEF ReadHeartbeat, serverVars, primaryVars
<1>4. QED
  BY <1>1, <1>2, <1>3, FailoverAssumption DEF TimingInv, HeardOf

LEMMA ConnectedKeepsHeardOf ==
  ASSUME TimingInv, Connected
  PROVE  HeardOf'
<1>1. flight \in Flights /\ due \in Nat
  BY DEF TimingInv, FailoverInv, FailoverTypeOK, Flights
<1>2. flight # <<>> => Head(flight) \in 0..MaxDelay
  BY <1>1, FlightFacts
<1>3. age' = 0 /\ UNCHANGED <<late, primary, link, due, flight>> /\ link = "open"
  BY DEF Connected, serverVars, primaryVars
<1>4. QED
  BY <1>1, <1>2, <1>3, FailoverAssumption DEF HeardOf

LEMMA StepsKeepHeardOf ==
  ASSUME TimingInv, [Next]_vars
  PROVE  HeardOf'
<1> USE DEF TimingInv, HeardOf, primaryVars, serverVars
<1>1. CASE Tick
  BY <1>1, TickKeepsHeardOf
<1>2. CASE Heartbeat
  BY <1>2, HeartbeatKeepsHeardOf
<1>3. CASE HeartbeatTaskDies
  BY <1>3 DEF HeartbeatTaskDies
<1>4. CASE PrimaryCrashes
  BY <1>4 DEF PrimaryCrashes
<1>5. CASE PrimaryVanishes
  BY <1>5 DEF PrimaryVanishes
<1>6. CASE PrimaryRestarts
  <2>1. run = "streaming" => late'
    BY <1>6 DEF PrimaryRestarts, FailoverInv, StandsFit
  <2>2. QED
    BY <1>6, <2>1 DEF PrimaryRestarts
<1>7. CASE LinkBreaks
  BY <1>7 DEF LinkBreaks
<1>8. CASE Dial
  BY <1>8 DEF Dial
<1>9. CASE Connected
  BY <1>9, ConnectedKeepsHeardOf
<1>10. CASE HandshakeFails
  BY <1>10 DEF HandshakeFails
<1>11. CASE ReadHeartbeat
  BY <1>11, ReadKeepsHeardOf
<1>12. CASE StreamEnds
  BY <1>12 DEF StreamEnds
<1>13. CASE RunEnds
  BY <1>13 DEF RunEnds
<1>14. CASE MonitorFires
  BY <1>14 DEF MonitorFires
<1>15. CASE MainWakes
  BY <1>15 DEF MainWakes
<1>16. CASE Serves
  BY <1>16 DEF Serves
<1>17. CASE UNCHANGED vars
  BY <1>17 DEF vars
<1>18. QED
  BY <1>1, <1>2, <1>3, <1>4, <1>5, <1>6, <1>7, <1>8, <1>9, <1>10, <1>11,
     <1>12, <1>13, <1>14, <1>15, <1>16, <1>17 DEF Next, Backup

LEMMA StepsKeepPromotedAlone ==
  ASSUME TimeoutLeavesRoom, TimingInv, [Next]_vars
  PROVE  PromotedAlone'
<1> USE DEF PromotedAlone, primaryVars, serverVars
<1>1. PromotedAlone
  BY DEF TimingInv
<1>2. CASE MonitorFires
  BY <1>2, FiresForAReason DEF MonitorFires
<1>3. CASE PrimaryRestarts
  BY <1>3 DEF PrimaryRestarts
<1>4. CASE Tick
  BY <1>1, <1>4 DEF Tick
<1>5. CASE UNCHANGED <<late, promoted>> /\ primary' \in {primary, "down"}
  BY <1>1, <1>5
<1>6. QED
  BY <1>2, <1>3, <1>4, <1>5
  DEF Next, Backup, vars, Heartbeat, HeartbeatTaskDies, PrimaryCrashes,
      PrimaryVanishes, LinkBreaks, Dial, Connected, HandshakeFails,
      ReadHeartbeat, StreamEnds, RunEnds, MainWakes, Serves

LEMMA StartIsTimely == Init => TimingInv
<1>1. Init => HeardOf
  BY DEF Init, HeardOf
<1>2. Init => PromotedAlone
  BY DEF Init, PromotedAlone
<1>3. QED
  BY <1>1, <1>2, StartFits DEF TimingInv

LEMMA StepsStayTimely ==
  ASSUME TimeoutLeavesRoom
  PROVE  TimingInv /\ [Next]_vars => TimingInv'
BY StepsFit, StepsKeepHeardOf, StepsKeepPromotedAlone DEF TimingInv

\* While nothing is late, a primary that runs has been heard of, and who was
\* promoted has none.
THEOREM TimingInvariant == TimeoutLeavesRoom => (FailoverSpec => []TimingInv)
<1> SUFFICES ASSUME TimeoutLeavesRoom PROVE FailoverSpec => []TimingInv
  OBVIOUS
<1>1. TimingInv /\ [Next]_vars => TimingInv'
  BY StepsStayTimely
<1>2. QED
  BY <1>1, StartIsTimely, PTL DEF FailoverSpec

\* No two servers take bookings at once while nothing is late (replication.py
\* _monitor_heartbeat, server.py start), whatever interval and timeout the
\* command line gives, as long as the timeout leaves room.
THEOREM OneServerCorrect == TimeoutLeavesRoom => (FailoverSpec => []OneServer)
<1>1. TimingInv => OneServer
  BY DEF TimingInv, FailoverInv, StandsFit, PromotedAlone, OneServer
<1>2. QED
  BY <1>1, TimingInvariant, PTL

\* No backup decides to replace a primary it is connected to while nothing is
\* late (_last_hb is set anew by every connection).
THEOREM NoFalseAlarmCorrect == TimeoutLeavesRoom => (FailoverSpec => NoFalseAlarm)
<1> SUFFICES ASSUME TimeoutLeavesRoom PROVE FailoverSpec => NoFalseAlarm
  OBVIOUS
<1>1. TimingInv /\ [Next]_vars =>
        [~late /\ ~promoted /\ promoted' => ~(primary = "up" /\ link = "open")]_vars
  <2> SUFFICES ASSUME TimingInv, [Next]_vars, ~late, ~promoted, promoted'
               PROVE  ~(primary = "up" /\ link = "open")
    OBVIOUS
  <2>1. CASE MonitorFires
    BY <2>1, FiresForAReason
  <2>2. CASE promoted' = promoted
    BY <2>2
  <2>3. QED
    BY <2>1, <2>2
    DEF Next, Backup, vars, Tick, Heartbeat, HeartbeatTaskDies, PrimaryCrashes,
        PrimaryVanishes, PrimaryRestarts, LinkBreaks, Dial, Connected,
        HandshakeFails, ReadHeartbeat, StreamEnds, RunEnds, MainWakes, Serves,
        primaryVars, serverVars
<1>2. QED
  BY <1>1, TimingInvariant, PTL DEF FailoverSpec, NoFalseAlarm
=============================================================================
