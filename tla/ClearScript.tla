----------------------------- MODULE ClearScript -----------------------------
(***************************************************************************)
(* scripts/clear-scan-queue.sh without --no-restart, as far as the units   *)
(* go: it stops those that it finds active, deletes rows, and its exit     *)
(* trap starts the same ones again, whichever command failed.  What the    *)
(* DELETE does to the queue, and that the service may be running by then,  *)
(* is OperatorClears of ScanService.                                       *)
(***************************************************************************)
EXTENDS MachineState

\* The program moves from p to next, and leaves alone all that is not the units'.
Reaches(p, next) == cpc = p /\ cpc' = next /\ UNCHANGED <<files, whole, state, updater, outside>>

BeginClear ==
    /\ ~calm
    /\ Reaches("idle", "check_monitor")
    /\ UNCHANGED <<unit, monitor, running, appWasActive, monitorWasActive, abandoned>>

(* systemctl is-active: a unit whose process is just being restarted is    *)
(* not active, although systemd keeps it.                                  *)
CheckMonitor ==
    /\ \/ /\ monitor = "active" /\ monitorWasActive' = TRUE
          /\ Reaches("check_monitor", "stop_monitor")
       \/ /\ monitor = "inactive" \/ ~calm
          /\ UNCHANGED monitorWasActive
          /\ Reaches("check_monitor", "check_service")
    /\ UNCHANGED <<unit, monitor, running, appWasActive, abandoned>>

(* systemctl stop; if it fails the script ends (set -e), through its trap. *)
StopMonitor ==
    /\ \/ monitor' = "inactive" /\ Reaches("stop_monitor", "check_service")
       \/ ~calm /\ monitor' \in {monitor, "inactive"} /\ Reaches("stop_monitor", "start_service")
    /\ UNCHANGED <<unit, running, appWasActive, monitorWasActive, abandoned>>

\* Mutation: the script notes what to start again only once it has stopped it.
CheckServiceOnly ==
    /\ \/ unit = "active" /\ Reaches("check_service", "stop_service")
       \/ (unit = "inactive" \/ ~calm) /\ Reaches("check_service", "clear")
    /\ UNCHANGED <<unit, monitor, running, appWasActive, monitorWasActive, abandoned>>

CheckService ==
    /\ \/ /\ unit = "active" /\ appWasActive' = TRUE
          /\ Reaches("check_service", "stop_service")
       \/ /\ unit = "inactive" \/ ~calm
          /\ UNCHANGED appWasActive
          /\ Reaches("check_service", "clear")
    /\ UNCHANGED <<unit, monitor, running, monitorWasActive, abandoned>>

StopActiveService ==
    /\ \/ unit' = "inactive" /\ Reaches("stop_service", "clear")
       \/ ~calm /\ unit' \in {unit, "inactive"} /\ Reaches("stop_service", "start_service")
    /\ UNCHANGED <<monitor, running, appWasActive, monitorWasActive, abandoned>>

(* clear_queue, which may fail: the trap is next in either case.           *)
DeleteScans ==
    /\ Reaches("clear", "start_service")
    /\ UNCHANGED <<unit, monitor, running, appWasActive, monitorWasActive, abandoned>>

(* SIGINT or SIGTERM: bash runs the trap.                                  *)
Interrupted ==
    /\ ~calm
    /\ \E p \in StopPoints : Reaches(p, "start_service")
    /\ UNCHANGED <<unit, monitor, running, appWasActive, monitorWasActive, abandoned>>

(* restart_services: systemctl start, for what was active.                 *)
StartServiceAgain ==
    /\ Reaches("start_service", "start_monitor")
    /\ IF appWasActive THEN EnsureService ELSE UNCHANGED <<unit, running, abandoned>>
    /\ appWasActive' = FALSE
    /\ UNCHANGED <<monitor, monitorWasActive>>

StartMonitorAgain ==
    /\ Reaches("start_monitor", "idle")
    /\ IF monitorWasActive THEN MonitorStarts ELSE UNCHANGED <<monitor, abandoned>>
    /\ monitorWasActive' = FALSE
    /\ UNCHANGED <<unit, running, appWasActive>>

(* SIGKILL, or a second signal while the trap runs.                        *)
KillScript ==
    /\ ~calm
    /\ \E p \in StopPoints \cup TrapPoints : Reaches(p, "idle")
    /\ abandoned' = abandoned
          \cup (IF appWasActive /\ unit = "inactive" THEN {"service"} ELSE {})
          \cup (IF monitorWasActive /\ monitor = "inactive" THEN {"monitor"} ELSE {})
    /\ appWasActive' = FALSE /\ monitorWasActive' = FALSE
    /\ UNCHANGED <<unit, monitor, running>>

ScriptStep ==
    \/ CheckMonitor \/ StopMonitor \/ CheckService \/ StopActiveService \/ DeleteScans
    \/ StartServiceAgain \/ StartMonitorAgain

=============================================================================
