---------------------------- MODULE MachineState ----------------------------
(***************************************************************************)
(* The state that the maintenance programs share: the installed files, the *)
(* systemd units of the service and of the monitor, and the branch that is *)
(* followed; with the control points and locals of the updater             *)
(* (AutoUpdate) and of the script that clears the queue (ClearScript).     *)
(***************************************************************************)
EXTENDS Integers, Sequences

CONSTANTS
    Versions,       \* the versions that are published: sequences of 2 to 4 numbers
    FirstVersion,   \* the one that is installed at first
    CalmComes       \* is there a moment from which nothing fails any more?

ASSUME VersionsAssumption ==
    /\ Versions \subseteq Seq(Nat) /\ FirstVersion \in Versions
    /\ \A v \in Versions : Len(v) \in 2 .. 4
ASSUME CalmAssumption == CalmComes \in BOOLEAN

VARIABLES
    \* The machine.
    files,    \* the version under /opt that a process started now would report
    whole,    \* all of /opt, its dependencies and the units come from one install
    unit,     \* what systemd is to do with the service: keep it "active" or "inactive"
    monitor,  \* and with the monitor
    running,  \* the version that the service's process loaded last
    state,    \* status key update_state
    \* The updater's process; without one, its locals have their initial values.
    pc,       \* its control point, "idle" when there is none
    mode,     \* its options: "timer" (none), "check" (--check-only), "force" (--force)
    local,    \* __version__, as it was when the process started
    seen,     \* remote_version, as read from the checkout
    \* The process of clear-scan-queue.sh.
    cpc,               \* its control point, "idle" when there is none
    appWasActive,      \* APP_WAS_ACTIVE: it is to start the service again
    monitorWasActive,  \* MONITOR_WAS_ACTIVE
    \* The world.
    enabled,  \* [updates] enabled
    remote,   \* the version at the head of the branch
    calm,     \* from here on nothing fails any more (used for liveness)
    \* History.
    abandoned \* the units that are down because a program was killed, or its except
              \* clause failed, before it had started them again

machine == <<files, whole, unit, monitor, running>>
updater == <<pc, mode, local, seen>>
script == <<cpc, appWasActive, monitorWasActive>>
outside == <<enabled, remote, calm>>
vars == <<machine, state, updater, script, outside, abandoned>>

InstallPoints == {"install", "extract", "build", "restart", "restart_monitor", "verify"}

\* Where the script may still stop a unit, and where its exit trap starts them again.
StopPoints == {"check_monitor", "stop_monitor", "check_service", "stop_service", "clear"}
TrapPoints == {"start_service", "start_monitor"}

\* The types, program by program.
MachineType ==
    /\ files \in Versions /\ whole \in BOOLEAN /\ running \in Versions
    /\ unit \in {"active", "inactive"} /\ monitor \in {"active", "inactive"}
    /\ abandoned \in SUBSET {"service", "monitor"}
UpdaterType ==
    /\ pc \in {"idle", "begin", "refresh", "compare", "stop", "failed", "start", "persist"}
                 \cup InstallPoints
    /\ mode \in {"timer", "check", "force"}
    /\ local \in Versions /\ seen \in Versions
    /\ state \in {"none", "disabled", "checking", "update_available", "up_to_date",
                  "updating", "failed", "updated"}
ScriptType ==
    /\ cpc \in {"idle"} \cup StopPoints \cup TrapPoints
    /\ appWasActive \in BOOLEAN /\ monitorWasActive \in BOOLEAN
OutsideType == enabled \in BOOLEAN /\ remote \in Versions /\ calm \in BOOLEAN

\* Every variable has its type.
TypeOK == MachineType /\ UpdaterType /\ ScriptType /\ OutsideType

-----------------------------------------------------------------------------
(* systemctl *)

(* A process that is started loads what is under /opt.                     *)
ServiceStarts == unit' = "active" /\ running' = files /\ abandoned' = abandoned \ {"service"}

MonitorStarts == monitor' = "active" /\ abandoned' = abandoned \ {"monitor"}

(* systemctl start: nothing happens to a service that runs.                *)
EnsureService == IF unit = "active" THEN UNCHANGED <<unit, running, abandoned>> ELSE ServiceStarts

(* systemctl stop, which may fail, with the unit stopped or not.           *)
StopUnit == unit' = "inactive" \/ (~calm /\ UNCHANGED unit)

=============================================================================
