----------------------------- MODULE ScanService -----------------------------
(***************************************************************************)
(* The scanner service as a whole: its main thread and its delivery worker *)
(* over one SQLite file, the scanner that comes and goes, the logger that  *)
(* comes and goes, systemd that stops and restarts the process, crashes,   *)
(* and the operator who clears the queue.                                  *)
(***************************************************************************)
EXTENDS ScannerLoop, DeliveryLoop

EmptyTable == [i \in RowIds |-> Absent]

\* A fresh installation; "stopped" stands for status keys that do not exist yet.
Init ==
    /\ rows = EmptyTable /\ lastId = 0
    /\ status = [scanner |-> "stopped", server |-> "stopped"]
    /\ mpc = "initialize" /\ stop = FALSE /\ runtime = "starting"
    /\ dpc = "off" /\ scan = NoScan /\ sock = "none" /\ sleep = 0
    /\ plugged \in BOOLEAN /\ serverUp \in BOOLEAN /\ calm = FALSE
    /\ captured = 0 /\ handed = {}
    /\ dropped = {} /\ cleared = {}

-----------------------------------------------------------------------------
(* The world *)

PlugOrUnplug ==
    /\ ~calm
    /\ plugged' = ~plugged
    /\ UNCHANGED <<db, main, worker, serverUp, calm, history>>

(* The logger goes away, and an open connection with it: at once or when   *)
(* the next segment is refused, but not in a way an idle client would see. *)
ServerComesOrGoes ==
    /\ ~calm
    /\ serverUp' = ~serverUp
    /\ sock' = IF serverUp /\ sock = "open" THEN "broken" ELSE sock
    /\ UNCHANGED <<db, main, dpc, scan, sleep, plugged, calm, history>>

(* Time passes for sleeps and retry times alike.                           *)
Tick ==
    /\ sleep > 0 \/ \E i \in RowIds : rows[i].wait > 0
    /\ rows' = Elapse(rows)
    /\ sleep' = IF sleep > 0 THEN sleep - 1 ELSE 0
    /\ UNCHANGED <<lastId, status, main, dpc, scan, sock, world, history>>

\* How long a row waits that waited n ticks before the clock was set back by d
\* (forward, if d is negative).  How long ago a time was reached is not kept, so
\* that it may lie ahead again by anything up to d.
NewWaits(n, d) ==
    LET Clip(k) == IF k < 0 THEN 0 ELSE IF k > RetryTicks THEN RetryTicks ELSE k
    IN  IF n > 0 THEN {Clip(n + d)} ELSE 0 .. Clip(d)

(* The wall clock is set: next_attempt_at is compared with it, while the   *)
(* sleeps are measured by the monotonic clock.  A wait beyond RetryTicks   *)
(* is one within it and a clock that is set again.                         *)
SetClock ==
    /\ ClockMoves /\ ~calm
    /\ \E d \in (0 - RetryTicks) .. RetryTicks, w \in [RowIds -> 0 .. RetryTicks] :
          /\ \A i \in RowIds : w[i] \in NewWaits(rows[i].wait, d)
          /\ rows' = Reschedule(rows, w)
    /\ UNCHANGED <<lastId, status, main, worker, world, history>>

(* SIGTERM once the handler is installed.                                  *)
RequestStop ==
    /\ ~calm
    /\ mpc \notin {"off", "initialize"} /\ ~stop
    /\ stop' = TRUE
    /\ UNCHANGED <<db, mpc, runtime, worker, world, history>>

(* SIGKILL, a power failure, the end of systemd's patience.                *)
Crash ==
    /\ ~calm
    /\ mpc # "off"
    /\ ProcessGone
    /\ UNCHANGED <<db, world, history>>

(* Restart=always, or systemctl start.                                     *)
Restart ==
    /\ Restarts
    /\ mpc = "off"
    /\ mpc' = "initialize"
    /\ UNCHANGED <<db, stop, runtime, worker, world, history>>

(* clear-scan-queue.sh: after it stopped the service, or with --no-restart *)
(* at any moment of its life.                                              *)
OperatorClears ==
    /\ Clears /\ ~calm
    /\ Present(rows) # {}
    /\ \E includeSent \in BOOLEAN : rows' = ClearQueue(rows, includeSent)
    /\ cleared' = cleared \cup {rows[i].scan : i \in Pending(rows)}
    /\ UNCHANGED <<lastId, status, main, worker, world, captured, handed, dropped>>

(* Not the code's: the moment from which the scanner stays plugged in, the *)
(* logger stays up, a scanner is configured and nothing fails any more.    *)
CalmBegins ==
    /\ CalmComes /\ ~calm /\ runtime # "misconfigured"
    /\ calm' = TRUE /\ plugged' = TRUE /\ serverUp' = TRUE
    /\ UNCHANGED <<db, main, worker, history>>

World == \/ PlugOrUnplug \/ ServerComesOrGoes \/ Tick \/ SetClock
         \/ RequestStop \/ Crash \/ Restart \/ OperatorClears \/ CalmBegins

Next == MainNext \/ WorkerNext \/ World

Spec == Init /\ [][Next]_vars

\* Both threads are scheduled and none of their calls blocks for ever (every
\* wait has a timeout), the clock runs, and systemd restarts the unit.
Fairness == WF_vars(MainStep) /\ WF_vars(WorkerNext) /\ WF_vars(Tick) /\ WF_vars(Restart)

FairSpec == Spec /\ Fairness

-----------------------------------------------------------------------------
(* Safety, with every failure and any number of restarts *)

PendingScans == {rows[i].scan : i \in Pending(rows)}

\* A completed scan is in the queue as pending until it was written to a
\* socket; the only exceptions are a failed insert and an operator's clear.
\* (enqueue_scan, mark_sent, mark_failed, cleanup_sent over all restarts.)
RetainedUntilSent ==
    \A s \in 1 .. captured :
        s \in PendingScans \/ s \in handed \/ s \in dropped \cup cleared

\* The worker is between fetch_next_due and the update of the row it fetched.
Holding == dpc \in {"send", "mark_sent", "mark_failed"}

\* The scan the worker holds is the scan of the row it is about to update, as
\* long as that row exists, whatever was inserted, cleaned up or cleared since
\* it was fetched; and no row is 'sent' whose scan was not written to a socket
\* (AUTOINCREMENT, fetch_next_due, mark_sent).
QueueConsistent ==
    /\ lastId <= captured
    /\ \A i \in Present(rows) : i <= lastId /\ rows[i].scan \in 1 .. captured
    /\ \A i \in Sent(rows) : rows[i].scan \in handed
    /\ Holding => /\ scan.id \in 1 .. lastId /\ scan.scan \in 1 .. captured
                  /\ scan.id \in Present(rows) => rows[scan.id].scan = scan.scan
    /\ dpc = "mark_sent" => scan.scan \in handed

\* A worker that ended, by the stop event or by an exception, has closed its
\* connection: no socket is held by nobody (_delivery_loop's exits).
EndedWorkerHoldsNoSocket == dpc \in {"off", "done", "dead"} => sock = "none"

-----------------------------------------------------------------------------
(* Safety within one life of the process (Restarts = FALSE) whose database  *)
(* does not fail (Faults = FALSE) and whose worker is joined               *)
(* (JoinTimeouts = FALSE)                                                  *)

Sends == dpc = "send" /\ dpc' = "mark_sent"

\* Scans are sent in capture order: whatever is pending when a scan is written
\* to the socket was captured later (fetch_next_due, mark_failed, the sleeps).
DrainOrder == [][Sends => \A s \in PendingScans : scan.scan <= s]_vars

\* No scan is written to a socket twice: mark_sent follows every send before
\* the queue is read again, whatever the scanner and the server do meanwhile.
AtMostOnce == [][Sends => scan.scan \notin handed]_vars

\* The attempt that mark_failed counts belongs to the row whose send failed,
\* although the handler fetches the row anew.
BlamesWhatWasSent ==
    [][dpc = "refetch" /\ scan # NoScan /\ dpc' # "off"
       => dpc' = "mark_failed" /\ scan' = scan]_<<dpc, scan>>

\* "stopped" is the last word: no write of the worker follows it.
StoppedIsFinal ==
    [][mpc = "exit" /\ status.server = "stopped" => UNCHANGED status]_status

\* The status says "connected" without a connection only while the worker is
\* on its way to correct that, or is gone and the main thread will.
StaleConnectedIsBrief ==
    status.server = "yes" /\ sock = "none"
        => dpc \in {"idle_status", "tcp_error", "done", "off"}

-----------------------------------------------------------------------------
(* Liveness *)

\* Once nothing fails any more a pending scan leaves the queue, retry times,
\* reconnections and restarts included; only a dead worker keeps it there.
Drains ==
    \A s \in Scans :
        (calm /\ s \in PendingScans) ~> (s \notin PendingScans \/ dpc = "dead")

\* A scanner that stays away costs the service its connection, whatever the
\* snapshot the worker was acting on when it went.
SocketReleased == <>[]~plugged => <>[](sock = "none")

\* Once nothing fails any more the status comes to tell the truth about the
\* scanner, and about the server if the worker is alive.
StatusConverges ==
    <>calm => <>[](status.scanner = "yes" /\ (status.server = "yes" \/ dpc = "dead"))

-----------------------------------------------------------------------------
(* What the documents say and the code does not do                         *)

\* "scanner, delivery, and heartbeat loops keep running through recoverable
\* failures" (CHANGELOG): no failing database call ends the worker.
DeliveryKeepsRunning == dpc # "dead"

\* "If the TCP server is unavailable or a send fails, the row stays pending"
\* (README): a send succeeds only on a connection the server still holds.
SendsReachServer == [][Sends => sock = "open"]_vars

\* The alert for a server that is "not contactable" (README) is raised from
\* server_connected, which must not stay true when the server stays away while
\* the service runs and reads its scanner.
LostServerNoticed ==
    <>[](~serverUp /\ plugged /\ mpc \in {"read", "last_scan_id"})
        => <>[](status.server # "yes")

-----------------------------------------------------------------------------
(* Refinement: the service is an at-least-once, oldest-first forwarder. *)

IsNew(s) == \E i \in Pending(rows) : rows[i].scan = s /\ ~rows[i].failed
IsDeferred(s) == \E i \in Pending(rows) : rows[i].scan = s /\ rows[i].failed

Fate(s) ==
    IF s > captured THEN "none"
    ELSE IF s \in dropped \cup cleared THEN "gone"
    ELSE IF IsNew(s) THEN "new"
    ELSE IF IsDeferred(s) THEN "deferred"
    ELSE "sent"

Fates == [s \in Scans |-> Fate(s)]

Forwarding == INSTANCE ScanForwarding WITH fate <- Fates

\* The service implements ScanForwarding: a scan is retired only after it was
\* handed over, and overtaken only by way of a recorded failure of its own.
ForwardsScans == Forwarding!Spec

=============================================================================
