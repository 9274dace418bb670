------------------------------ MODULE Failover ------------------------------
(***************************************************************************)
(* A backup server that takes over from its primary: BackupReplicator.run  *)
(* and its heartbeat monitor (server/replication.py), and the main         *)
(* coroutine of a server started as a backup (server/server.py), against a *)
(* primary that may crash, vanish or lose its heartbeat task and a         *)
(* connection that may break.  The entries that are replicated are the     *)
(* subject of Replication; here only heartbeats travel.                    *)
(*                                                                         *)
(* Time is discrete.  A process that crashes closes its connections (the   *)
(* peer reads the end of the stream); a host that vanishes, or whose       *)
(* network does, leaves its peer with a connection on which nothing comes  *)
(* any more, and the backup, which only reads, never finds out.            *)
(*                                                                         *)
(* Heartbeats may be delayed at will.  The variable late remembers whether *)
(* a delay was beyond the bounds that the timeout is meant for, or an old  *)
(* primary was started again beside a backup that takes over.              *)
(***************************************************************************)
EXTENDS Naturals, Sequences

CONSTANTS
  HbInterval,  \* hb_interval_s, in clock units
  HbTimeout,   \* hb_timeout_s
  MaxDelay,    \* time that a heartbeat travels at most, unless late
  MaxFlight    \* bound: heartbeats under way at once

ASSUME FailoverAssumption ==
  /\ HbInterval \in Nat \ {0}
  /\ HbTimeout \in Nat
  /\ MaxDelay \in Nat
  /\ MaxFlight \in Nat \ {0}

VARIABLES
  primary,   \* the primary's process: "up" or "down"
  beating,   \* its heartbeat task is alive
  due,       \* time since it last sent a heartbeat, up to HbInterval
  link,      \* the connection as the backup's host knows it
  flight,    \* ages of the heartbeats under way on it
  run,       \* where BackupReplicator.run stands
  monitor,   \* the heartbeat monitor of the present connection
  age,       \* time.time() - _last_hb, up to HbTimeout + 1
  promoted,  \* the event ReservationServer._promoted
  stop,      \* the event BackupReplicator._stop
  main,      \* where ReservationServer.start stands
  late       \* history: some delay was beyond the bounds (see Punctual)

primaryVars == <<primary, beating, due>>
serverVars == <<promoted, stop, main, late>>
vars == <<primary, beating, due, link, flight, run, monitor, age,
          promoted, stop, main, late>>

\* Types; and a monitor watches the connection that run reads from, no other.
FailoverTypeOK ==
  /\ primary \in {"up", "down"}
  /\ beating \in BOOLEAN
  /\ due \in 0..HbInterval
  /\ link \in {"none", "open", "orphan", "cut"}
  /\ flight \in Seq(0..MaxDelay)
  /\ run \in {"connecting", "handshake", "streaming", "ended"}
  /\ monitor \in {"none", "running", "raised"}
  /\ age \in 0..(HbTimeout + 1)
  /\ promoted \in BOOLEAN
  /\ stop \in BOOLEAN
  /\ main \in {"waiting", "stopping", "serving"}
  /\ late \in BOOLEAN
  /\ monitor # "none" => run = "streaming"

Init ==
  /\ primary = "up" /\ beating = TRUE /\ due = 0
  /\ link = "none" /\ flight = <<>>
  /\ run = "connecting" /\ monitor = "none"
  /\ age = HbTimeout + 1                    \* _last_hb = 0.0
  /\ promoted = FALSE /\ stop = FALSE /\ main = "waiting"
  /\ late = FALSE

AtMost(n, max) == IF n > max THEN max ELSE n

-----------------------------------------------------------------------------
(* The primary. *)

\* One round of _heartbeat_loop.
Heartbeat ==
  /\ primary = "up" /\ beating
  /\ due = HbInterval
  /\ link = "open" => Len(flight) < MaxFlight
  /\ due' = 0
  /\ flight' = IF link = "open" THEN Append(flight, 0) ELSE flight
  /\ UNCHANGED <<primary, beating, link, run, monitor, age, serverVars>>

\* RuntimeError in the loop over the writers (see Replication).
HeartbeatTaskDies ==
  /\ primary = "up" /\ beating
  /\ beating' = FALSE
  /\ UNCHANGED <<primary, due, link, flight, run, monitor, age, serverVars>>

\* It is stopped (PrimaryReplicator.stop), or it crashes.
PrimaryCrashes ==
  /\ primary = "up"
  /\ primary' = "down"
  /\ link' = IF link = "open" THEN "cut" ELSE link
  /\ UNCHANGED <<beating, due, flight, run, monitor, age, serverVars>>

PrimaryVanishes ==
  /\ primary = "up"
  /\ primary' = "down"
  /\ link' = IF link = "open" THEN "orphan" ELSE link
  /\ UNCHANGED <<beating, due, flight, run, monitor, age, serverVars>>

\* In time, if its backup has given the connection up and not decided to
\* replace it.
PrimaryRestarts ==
  /\ primary = "down"
  /\ primary' = "up" /\ beating' = TRUE /\ due' = 0
  /\ late' = (late \/ promoted \/ monitor # "none")
  /\ UNCHANGED <<link, flight, run, monitor, age, promoted, stop, main>>

-----------------------------------------------------------------------------
(* The connection and the clock. *)

LinkBreaks ==
  /\ link \in {"open", "orphan"}
  /\ link' = "cut"
  /\ UNCHANGED <<primaryVars, flight, run, monitor, age, serverVars>>

\* The bounds: a heartbeat is sent when it is due, travels for MaxDelay at
\* most, and the end of a stream is read at once.
Punctual ==
  /\ primary = "up" => due < HbInterval
  /\ \A i \in DOMAIN flight : flight[i] < MaxDelay
  /\ run = "streaming" => link # "cut"

Tick ==
  /\ late' = (late \/ ~Punctual)
  /\ due' = AtMost(due + 1, HbInterval)
  /\ age' = AtMost(age + 1, HbTimeout + 1)
  /\ flight' = [i \in DOMAIN flight |-> AtMost(flight[i] + 1, MaxDelay)]
  /\ UNCHANGED <<primary, beating, link, run, monitor, promoted, stop, main>>

-----------------------------------------------------------------------------
(* BackupReplicator.run and _monitor_heartbeat. *)

\* After an error run sleeps for a second, longer than the main coroutine
\* takes to wake up: it never dials between on_promote and stop.
Dial ==
  /\ run = "connecting" /\ ~stop
  /\ promoted => main # "waiting"
  /\ primary = "up"
  /\ run' = "handshake"
  /\ link' = "open" /\ flight' = <<>>
  /\ UNCHANGED <<primaryVars, monitor, age, serverVars>>

\* Mutants: _last_hb is kept from the last connection; nobody watches.
ConnectedStale ==
  /\ run = "handshake" /\ link = "open"
  /\ run' = "streaming" /\ monitor' = "running"
  /\ UNCHANGED <<primaryVars, link, flight, age, serverVars>>
ConnectedUnwatched ==
  /\ run = "handshake" /\ link = "open"
  /\ run' = "streaming" /\ age' = 0
  /\ UNCHANGED <<primaryVars, link, flight, monitor, serverVars>>

\* ACK arrives.  There is no timeout: on an orphan link run waits for ever.
Connected ==
  /\ run = "handshake" /\ link = "open"
  /\ run' = "streaming" /\ monitor' = "running"
  /\ age' = 0
  /\ UNCHANGED <<primaryVars, link, flight, serverVars>>

\* The connection breaks before ACK, or a heartbeat arrives in its place.
HandshakeFails ==
  /\ run = "handshake"
  /\ link = "cut" \/ flight # <<>>
  /\ run' = "connecting"
  /\ link' = "none" /\ flight' = <<>>
  /\ UNCHANGED <<primaryVars, monitor, age, serverVars>>

ReadHeartbeat ==
  /\ run = "streaming" /\ flight # <<>>
  /\ age' = 0
  /\ flight' = Tail(flight)
  /\ UNCHANGED <<primaryVars, link, run, monitor, serverVars>>

\* Mutant: the monitor outlives its connection.
StreamEndsMonitored ==
  /\ run = "streaming" /\ link = "cut"
  /\ run' = "connecting"
  /\ link' = "none" /\ flight' = <<>>
  /\ UNCHANGED <<primaryVars, monitor, age, serverVars>>

\* The read raises; the monitor is cancelled with the connection.
StreamEnds ==
  /\ run = "streaming" /\ link = "cut"
  /\ run' = "connecting" /\ monitor' = "none"
  /\ link' = "none" /\ flight' = <<>>
  /\ UNCHANGED <<primaryVars, age, serverVars>>

\* The loop's condition is looked at only between two connections.
RunEnds ==
  /\ run = "connecting" /\ stop
  /\ run' = "ended"
  /\ UNCHANGED <<primaryVars, link, flight, monitor, age, serverVars>>

\* PromotionTriggered ends the monitor's task and nothing else: run does not
\* await that task.
MonitorFires ==
  /\ monitor = "running"
  /\ age > HbTimeout
  /\ monitor' = "raised" /\ promoted' = TRUE
  /\ UNCHANGED <<primaryVars, link, flight, run, age, stop, main, late>>

-----------------------------------------------------------------------------
(* ReservationServer.start with role "backup". *)

\* Mutant: the replication client is not told to stop.
MainWakesOnly ==
  /\ main = "waiting" /\ promoted
  /\ main' = "stopping"
  /\ UNCHANGED <<primaryVars, link, flight, run, monitor, age, promoted, stop, late>>

MainWakes ==
  /\ main = "waiting" /\ promoted
  /\ stop' = TRUE /\ main' = "stopping"
  /\ UNCHANGED <<primaryVars, link, flight, run, monitor, age, promoted, late>>

\* Mutant: the main coroutine does not wait for run.
ServesAtOnce ==
  /\ main = "stopping"
  /\ main' = "serving"
  /\ UNCHANGED <<primaryVars, link, flight, run, monitor, age, promoted, stop, late>>

\* await task, then _start_primary.
Serves ==
  /\ main = "stopping" /\ run = "ended"
  /\ main' = "serving"
  /\ UNCHANGED <<primaryVars, link, flight, run, monitor, age, promoted, stop, late>>

-----------------------------------------------------------------------------
Backup == \/ Dial \/ Connected \/ HandshakeFails \/ ReadHeartbeat \/ StreamEnds
          \/ RunEnds \/ MonitorFires \/ MainWakes \/ Serves

Next ==
  \/ Backup \/ Tick \/ Heartbeat \/ HeartbeatTaskDies
  \/ PrimaryCrashes \/ PrimaryVanishes \/ PrimaryRestarts \/ LinkBreaks

\* Time passes and what an event loop has ready it runs; that an attempt to
\* connect ends in one way rather than the other is nobody's promise.
Fairness ==
  /\ WF_vars(Tick) /\ WF_vars(Heartbeat)
  /\ WF_vars(Dial) /\ WF_vars(Connected \/ HandshakeFails)
  /\ WF_vars(ReadHeartbeat) /\ WF_vars(StreamEnds)
  /\ WF_vars(RunEnds) /\ WF_vars(MonitorFires)
  /\ WF_vars(MainWakes) /\ WF_vars(Serves)

FailoverSpec == Init /\ [][Next]_vars /\ Fairness

-----------------------------------------------------------------------------
(* What failover promises. *)

\* A server that has taken over has left its old primary: no entry of the
\* old primary is applied, and no monitor runs, beside its own clients.
TakesOverDisconnected ==
  main = "serving" => run = "ended" /\ link = "none" /\ monitor # "running"

\* Within the bounds, a backup connected to a primary that runs and beats
\* never decides to replace it, however often the connection was lost and
\* found before: _last_hb says something about the present connection.
NoFalseAlarm ==
  [][~late /\ ~promoted /\ promoted' => ~(primary = "up" /\ link = "open")]_vars

\* Within the bounds, no two servers take bookings at the same time.
OneServer == ~late => ~(primary = "up" /\ main = "serving")

\* A backup to whom no heartbeat comes any more, because the primary's host has
\* gone or its heartbeat task has died, is promoted, or sees its connection
\* break.
SilenceIsNoticed ==
  run = "streaming" /\ (link = "orphan" \/ (link = "open" /\ ~beating))
    ~> promoted \/ link = "cut"

\* Once promoted, a backup whose connection breaks serves.
TakeoverCompletes == promoted /\ link = "cut" ~> main = "serving"

\* src/docs/DESIGN.md:116: "If heartbeats stop for more than a configured
\* timeout, it promotes itself to primary."  A connected backup whose primary
\* stays down serves in the end.
DeathPromotes ==
  run = "streaming" /\ primary = "down" ~> promoted \/ primary = "up"

\* src/server/replication.py:139: "Runs until promotion or explicit stop."
RunsUntilPromotion == promoted ~> run = "ended"
=============================================================================
