----------------------------- MODULE Maintenance -----------------------------
(***************************************************************************)
(* The updater and the script that clears the queue on one machine: both   *)
(* stop the service and bring it back, at any moment of the other.  Around *)
(* them the timer, systemd, a branch that moves, an operator who restarts  *)
(* the units, kills and reboots.                                           *)
(***************************************************************************)
EXTENDS AutoUpdate, ClearScript

(* A commit, or a branch that is set back.                                 *)
Publish ==
    /\ ~calm
    /\ \E v \in Versions : v # remote /\ remote' = v
    /\ UNCHANGED <<machine, state, updater, script, enabled, calm, abandoned>>

(* The service's process ends for a reason of its own, and Restart=always. *)
ServiceRestarts ==
    /\ unit = "active" /\ ~calm
    /\ ServiceStarts
    /\ UNCHANGED <<files, whole, monitor, state, updater, script, outside>>

(* restart-services.sh: systemctl restart, whatever the units' state.      *)
OperatorRestarts ==
    /\ ~calm
    /\ \/ ServiceStarts /\ UNCHANGED monitor
       \/ MonitorStarts /\ UNCHANGED <<unit, running>>
    /\ UNCHANGED <<files, whole, state, updater, script, outside>>

(* SIGKILL, or systemctl stop for the one-shot unit (restart-services.sh   *)
(* with --run-update-check restarts it).                                   *)
KillUpdater ==
    /\ ~calm /\ pc # "idle"
    /\ Abandon
    /\ UNCHANGED <<machine, script, outside>>

(* A reboot ends both programs, and starts the units, which are enabled.   *)
Reboot ==
    /\ ~calm
    /\ unit' = "active" /\ monitor' = "active" /\ running' = files /\ abandoned' = {}
    /\ GiveUp
    /\ cpc' = "idle" /\ appWasActive' = FALSE /\ monitorWasActive' = FALSE
    /\ UNCHANGED <<files, whole, outside>>

CalmBegins ==
    /\ CalmComes /\ ~calm
    /\ calm' = TRUE
    /\ UNCHANGED <<machine, state, updater, script, enabled, remote, abandoned>>

-----------------------------------------------------------------------------

Init ==
    /\ files = FirstVersion /\ whole = TRUE /\ running = FirstVersion
    /\ unit = "active" /\ monitor = "active"
    /\ state = "none"
    /\ pc = "idle" /\ mode = "timer" /\ local = FirstVersion /\ seen = FirstVersion
    /\ cpc = "idle" /\ appWasActive = FALSE /\ monitorWasActive = FALSE
    /\ enabled \in BOOLEAN /\ remote = FirstVersion /\ calm = FALSE
    /\ abandoned = {}

World == Publish \/ ServiceRestarts \/ OperatorRestarts \/ KillUpdater \/ KillScript
            \/ Interrupted \/ Reboot \/ CalmBegins

Next == \/ UpdaterStep \/ \E m \in {"timer", "check", "force"} : StartRun(m)
        \/ ScriptStep \/ BeginClear
        \/ World

Spec == Init /\ [][Next]_vars

\* Both programs take their steps (no command of theirs waits for ever), and the
\* timer starts the updater again and again, however often an operator does.
MaintenanceFairness ==
    WF_vars(UpdaterStep) /\ WF_vars(ScriptStep) /\ SF_vars(StartRun("timer"))

FairSpec == Spec /\ MaintenanceFairness

-----------------------------------------------------------------------------
(* Properties *)

\* Whatever failed, and however the two programs were interleaved: once neither
\* runs systemd keeps both units running.  Nothing but the death of one of them,
\* or of the updater's except clause, leaves a unit down.
UnitsComeBack ==
    /\ pc = "idle" /\ cpc = "idle" /\ "service" \notin abandoned => unit = "active"
    /\ cpc = "idle" /\ "monitor" \notin abandoned => monitor = "active"

\* "updated" is written only after a complete install with which the service was
\* restarted, and no longer stands when the files are next touched; meanwhile the
\* service is down only while its queue is cleared.
UpdatedMeansRunning ==
    state = "updated" =>
        /\ whole /\ running = files
        /\ unit = "active" \/ appWasActive \/ "service" \in abandoned

\* What a version means as a number: its parts are the digits in a base that is greater
\* than any of them.
Value(v, base) == ((Part(v, 1) * base + Part(v, 2)) * base + Part(v, 3)) * base + Part(v, 4)
Total(v) == Part(v, 1) + Part(v, 2) + Part(v, 3) + Part(v, 4)
Later(v, w) == LET base == Total(v) + Total(w) + 1 IN Value(v, base) > Value(w, base)

\* Files are replaced by those of a later version only, unless an operator forces it:
\* never by an older one of a branch that was set back, and not by another spelling of
\* the same version (is_newer_version, compare_versions), however long ago the updater
\* looked at either.
OnlyUpgrades == [][files' # files => mode = "force" \/ Later(files', files)]_files

\* Once nothing fails any more, a newer version on the branch is installed
\* completely and runs (or a still newer one, if the branch was set back).
NewerArrives ==
    (calm /\ enabled /\ IsNewerVersion(remote, files))
        ~> (/\ ~IsNewerVersion(remote, files)
            /\ whole /\ unit = "active" /\ running = files)

\* "Installed version is current." (auto_update.py): a run that finds nothing to
\* do leaves a complete installation behind.
UpToDateIsInstalled == state = "up_to_date" => whole

=============================================================================
