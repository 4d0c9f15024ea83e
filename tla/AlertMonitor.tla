---------------------------- MODULE AlertMonitor ----------------------------
(***************************************************************************)
(* The monitor that beeps when the service is degraded (alert_monitor.py,  *)
(* health.py), and the heartbeat it listens to (service.py), in discrete   *)
(* time: a tick is a second.  The two processes share the status table     *)
(* only.  What the service's other threads write there is any value: it is *)
(* ScanService that says which.                                            *)
(*                                                                         *)
(* A write waits for the lock of the database before it commits, up to     *)
(* MaxWait ticks, or fails.  Between its waits a thread takes no time,     *)
(* except for the commands that beep: a pattern takes up to MaxBeep ticks, *)
(* or blocks.  The clock that the timestamps come from may be set.         *)
(***************************************************************************)
EXTENDS BeepPlayer

CONSTANTS
    Interval,   \* alerting.interval_seconds
    MaxWait,    \* bound: how long a write that succeeds waits for its lock
    MaxBeep,    \* bound: how long a beep pattern takes that does not block
    MaxBack     \* bound: how far the clock is set, and how far ahead a stamp may be

ASSUME MonitorAssumption ==
    /\ Interval \in Nat \ {0} /\ MaxWait \in Nat /\ MaxBeep \in Nat /\ MaxBack \in Nat

HeartbeatPeriod == 5
TwoPeriods == 10           \* mutation: a heartbeat that is a beat late is stale
StaleAfter == 15
Stale == StaleAfter + 1    \* bound: heartbeats older than this are not told apart
Never == Stale             \* nor from a heartbeat that was never written

Alerts == {"none", "app_not_running", "scanner_unavailable", "server_unavailable"}

ASSUME AlertsAssumption == DOMAIN BeepCount = Alerts \ {"none"}

VARIABLES
    \* The service.
    alive,    \* its process runs
    hpc,      \* heartbeat worker: "off", "write", "storage", "sleep"
    hspent,   \* ticks it has spent there
    stamp,    \* age of the timestamp it is about to commit
    \* The status table.
    age,      \* age of heartbeat_at
    scanner,  \* scanner_available is true and scanner_state is connected
    server,   \* the same of the server
    shown,    \* monitor_state and monitor_alert
    \* The monitor.
    enabled,  \* alerting.enabled
    once,     \* --once
    mon,      \* its control point: "check", "record", "beep", "blocked", "error",
              \* "wait", or "done" where it has ended
    mspent,   \* ticks it has spent there
    alert,    \* the alert it has chosen and not yet recorded
    \* History.
    quiet     \* ticks since anything last changed or failed

service == <<alive, hpc, hspent, stamp>>
table == <<age, scanner, server, shown>>
monitor == <<enabled, once, mon, mspent, alert>>
vars == <<service, table, monitor, player, quiet>>

\* Anything that changed or failed this long ago is known to the monitor: at
\* worst the clock was set back after the last heartbeat, the monitor looked one
\* second before that went stale, beeped for another alert, and waits for the
\* lock once for each of its two records.
Bound == MaxBack + Stale + MaxBeep + Interval + 2 * MaxWait

Longest == IF MaxWait > HeartbeatPeriod THEN MaxWait ELSE HeartbeatPeriod

TypeOK ==
    /\ alive \in BOOLEAN /\ hpc \in {"off", "write", "storage", "sleep"}
    /\ hspent \in 0 .. Longest /\ stamp \in -MaxBack .. MaxWait + MaxBack + 1
    /\ age \in -MaxBack .. Stale /\ scanner \in BOOLEAN /\ server \in BOOLEAN
    /\ shown \in [state : {"disabled", "healthy", "alerting", "error"}, alert : Alerts]
    /\ enabled \in BOOLEAN /\ once \in BOOLEAN
    /\ mon \in {"check", "record", "beep", "blocked", "error", "wait", "done"}
    /\ mspent \in 0 .. Interval + MaxWait + MaxBeep /\ alert \in Alerts
    /\ PlayerTypeOK
    /\ quiet \in 0 .. Bound

-----------------------------------------------------------------------------
(* The heartbeat worker *)

At(p) == hpc' = p /\ hspent' = 0

\* An age as far as ages are told apart.
Capped(n) == IF n > Stale THEN Stale ELSE n

\* utc_timestamp() drops the fraction: the stamp may be a second old at once.
TakesStamp == At("write") /\ stamp' \in {0, 1}

(* The process starts; its scanner and server keys are those of last time. *)
ServiceStarts ==
    /\ ~alive /\ alive' = TRUE
    /\ TakesStamp
    /\ quiet' = 0
    /\ UNCHANGED <<table, monitor, player>>

ServiceEnds ==
    /\ alive /\ alive' = FALSE
    /\ At("off") /\ stamp' = 0
    /\ quiet' = 0
    /\ UNCHANGED <<table, monitor, player>>

(* store.heartbeat(): the stamp was taken before the wait for the lock.    *)
Heartbeat ==
    /\ hpc = "write"
    /\ age' = Capped(stamp)
    /\ At("storage") /\ stamp' = 0
    /\ UNCHANGED <<alive, scanner, server, shown, monitor, player, quiet>>

(* _persist_storage_status() *)
PersistStorage ==
    /\ hpc = "storage"
    /\ At("sleep")
    /\ UNCHANGED <<alive, stamp, table, monitor, player, quiet>>

HeartbeatFails ==
    /\ hpc \in {"write", "storage"}
    /\ At("sleep") /\ stamp' = 0
    /\ quiet' = 0
    /\ UNCHANGED <<alive, table, monitor, player>>

WakeHeartbeat ==
    /\ hpc = "sleep" /\ hspent = HeartbeatPeriod
    /\ TakesStamp
    /\ UNCHANGED <<alive, table, monitor, player, quiet>>

(* The service's other threads report of the scanner or the server.        *)
ServiceReports ==
    /\ alive
    /\ \/ scanner' = ~scanner /\ UNCHANGED server
       \/ server' = ~server /\ UNCHANGED scanner
    /\ quiet' = 0
    /\ UNCHANGED <<service, age, shown, monitor, player>>

-----------------------------------------------------------------------------
(* The monitor *)

\* Mutation: the heartbeat is stale as soon as one is late.
RunningIfPunctual == age <= HeartbeatPeriod

\* build_health_report: max(0, now - heartbeat_at) <= 15
ServiceRunning == age <= StaleAfter

\* choose_alert, of a service that is r, a scanner that is c, a server that is v
ChooseAlert(r, c, v) ==
    CASE ~enabled -> "none"
      [] enabled /\ ~r -> "app_not_running"
      [] enabled /\ r /\ ~c -> "scanner_unavailable"
      [] enabled /\ r /\ c /\ ~v -> "server_unavailable"
      [] OTHER -> "none"

StatusRow(a) == [state |-> CASE ~enabled -> "disabled"
                             [] enabled /\ a = "none" -> "healthy"
                             [] OTHER -> "alerting",
                 alert |-> a]

GoTo(p) == mon' = p /\ mspent' = 0

(* run_once: one SELECT of the whole status table.                         *)
Check ==
    /\ mon = "check"
    /\ GoTo("record") /\ alert' = ChooseAlert(ServiceRunning, scanner, server)
    /\ UNCHANGED <<service, table, enabled, once, player, quiet>>

(* An exception of the database, or of a command that cannot be started.   *)
IterationFails ==
    /\ mon \in {"check", "record", "beep"}
    /\ GoTo("error") /\ GiveUpPattern
    /\ quiet' = 0 /\ alert' = "none"
    /\ UNCHANGED <<service, table, enabled, once>>

\* Mutation: --once is tested where there is nothing to beep for.
RecordOnceIfHealthy ==
    /\ mon = "record"
    /\ shown' = StatusRow(alert) /\ alert' = "none"
    /\ IF alert = "none" THEN UNCHANGED player /\ GoTo(IF once THEN "done" ELSE "wait")
       ELSE GoTo("beep") /\ StartPattern(BeepCount[alert])
    /\ UNCHANGED <<service, age, scanner, server, enabled, once, quiet>>

Record ==
    /\ mon = "record"
    /\ shown' = StatusRow(alert) /\ alert' = "none"
    /\ \/ once /\ GoTo("done") /\ UNCHANGED player
       \/ ~once /\ alert = "none" /\ GoTo("wait") /\ UNCHANGED player
       \/ ~once /\ alert # "none" /\ GoTo("beep") /\ StartPattern(BeepCount[alert])
    /\ UNCHANGED <<service, age, scanner, server, enabled, once, quiet>>

(* One beep is played; after the last one the monitor waits.               *)
Beep ==
    /\ mon = "beep" /\ BeepWorks
    /\ IF left = 1 THEN GoTo("wait") ELSE UNCHANGED <<mon, mspent>>
    /\ UNCHANGED <<service, table, enabled, once, alert, quiet>>

(* A backend fails; the last one ends the iteration.                       *)
BackendFails ==
    /\ mon = "beep" /\ BeepFails
    /\ IF Len(candidates) = 1 THEN GoTo("error") /\ quiet' = 0
       ELSE UNCHANGED <<mon, mspent, quiet>>
    /\ UNCHANGED <<service, table, enabled, once, alert>>

(* subprocess.run and the console have no timeout.                         *)
PlayerBlocks ==
    /\ mon = "beep" /\ GoTo("blocked")
    /\ quiet' = 0
    /\ UNCHANGED <<service, table, enabled, once, alert, player>>

PlayerReturns ==
    /\ mon = "blocked" /\ GoTo("beep")
    /\ quiet' = 0
    /\ UNCHANGED <<service, table, enabled, once, alert, player>>

(* The except clause of run: it writes safely, and waits like any other    *)
(* iteration, --once or not.                                               *)
RecordError ==
    /\ mon = "error"
    /\ \/ shown' = [shown EXCEPT !.state = "error"] /\ UNCHANGED quiet
       \/ UNCHANGED shown /\ quiet' = 0
    /\ GoTo("wait") /\ GiveUpPattern
    /\ UNCHANGED <<service, age, scanner, server, enabled, once, alert>>

WakeMonitor ==
    /\ mon = "wait" /\ mspent = Interval
    /\ GoTo("check")
    /\ UNCHANGED <<service, table, enabled, once, alert, player, quiet>>

(* SIGTERM ends the wait, and an iteration under way is finished first; a  *)
(* kill ends the process anywhere.  With it goes what the player remembers. *)
MonitorEnds ==
    /\ mon # "done" /\ GoTo("done") /\ StartPlayer
    /\ quiet' = 0 /\ alert' = "none"
    /\ UNCHANGED <<service, table, enabled, once>>

(* Restart=always: a new process, unless it was --once.                    *)
MonitorStarts ==
    /\ mon = "done" /\ ~once /\ GoTo("check")
    /\ quiet' = 0
    /\ UNCHANGED <<service, table, enabled, once, alert, player>>

-----------------------------------------------------------------------------

\* Mutation: counters run on.
OlderForever(n, most) == n + 1

Older(n, most) == IF n < most THEN n + 1 ELSE n

\* How long a thread may still be where it is.
HeartbeatPatience ==
    CASE hpc = "off" -> TRUE
      [] hpc = "sleep" -> hspent < HeartbeatPeriod
      [] OTHER -> hspent < MaxWait

MonitorPatience ==
    CASE mon = "check" -> FALSE
      [] mon \in {"record", "error"} -> mspent < MaxWait
      [] mon = "beep" -> mspent < MaxBeep
      [] mon = "wait" -> mspent < Interval
      [] mon \in {"blocked", "done"} -> TRUE

(* A second passes, for everybody.                                         *)
Tick ==
    /\ HeartbeatPatience /\ MonitorPatience
    /\ hspent' = IF hpc = "off" THEN 0 ELSE hspent + 1
    /\ stamp' = IF hpc = "write" THEN stamp + 1 ELSE 0
    /\ age' = Older(age, Stale)
    /\ mspent' = IF mon \in {"blocked", "done"} THEN 0 ELSE mspent + 1
    /\ quiet' = IF mon = "blocked" THEN 0 ELSE Older(quiet, Bound)
    /\ UNCHANGED <<alive, hpc, scanner, server, shown, enabled, once, mon, alert, player>>

(* The clock is set, forward or back; sleeps and waits do not go by it.    *)
SetClock ==
    \E d \in -MaxBack .. MaxBack :
        /\ age + d >= -MaxBack                              \* bounds
        /\ hpc = "write" => stamp + d - hspent \in -MaxBack .. MaxBack + 1
        /\ age' = Capped(age + d)
        /\ stamp' = IF hpc = "write" THEN stamp + d ELSE 0
        /\ quiet' = 0
        /\ UNCHANGED <<alive, hpc, hspent, scanner, server, shown, monitor, player>>

Init ==
    /\ alive = FALSE /\ hpc = "off" /\ hspent = 0 /\ stamp = 0
    /\ age = Never /\ scanner = FALSE /\ server = FALSE
    /\ enabled \in BOOLEAN /\ once \in BOOLEAN
    /\ shown \in {StatusRow(a) : a \in Alerts}      \* of the monitor before this one
    /\ mon = "check" /\ mspent = 0 /\ alert = "none"
    /\ InitPlayer
    /\ ~enabled \/ once => automatic    \* the backend of a monitor that never beeps
    /\ quiet = 0

HeartbeatStep == Heartbeat \/ PersistStorage \/ HeartbeatFails \/ WakeHeartbeat
MonitorStep == \/ Check \/ Record \/ Beep \/ BackendFails \/ RecordError \/ WakeMonitor
               \/ IterationFails

Next == \/ HeartbeatStep \/ MonitorStep \/ Tick
        \/ ServiceStarts \/ ServiceEnds \/ ServiceReports
        \/ PlayerBlocks \/ PlayerReturns \/ SetClock
        \/ MonitorEnds \/ MonitorStarts

Spec == Init /\ [][Next]_vars

-----------------------------------------------------------------------------

\* Once nothing changed or failed for Bound ticks, the monitor has recorded what
\* is the case: a dead service is alerted about although its last words were
\* "connected", and a service that lives is never taken for dead, as long as each
\* write waits at most MaxWait for its lock (heartbeat, build_health_report, run).
VerdictIsTimely ==
    quiet = Bound /\ mon # "done"
        => shown = StatusRow(ChooseAlert(alive, scanner, server))

\* The heartbeat of a living service does not become stale between two beats,
\* waits for locks and the dropped fraction of a second included, from one beat and
\* the waits of its writes after anything last changed or failed.
AliveIsFresh == alive /\ quiet > HeartbeatPeriod + 3 * MaxWait => age <= StaleAfter

\* --once ends one wait and the waits of two writes after anything last failed, and
\* never beeps (run: once is tested only after an iteration that did not fail).
OnceIsPrompt == once /\ quiet > Interval + 2 * MaxWait => mon = "done"

\* A beep is given up by the player only after every backend it may use has failed
\* for this very beep, whichever was remembered, and then none is remembered
\* (_play_auto_backend).
SilentOnlyIfAllFailed ==
    mon = "error" /\ failed # {} =>
        /\ failed = Allowed
        /\ remembered = NoBackend

=============================================================================
