----------------------------- MODULE AutoUpdate -----------------------------
(***************************************************************************)
(* The automatic updater (auto_update.py, versioning.py) and the installer *)
(* it runs (install.sh).  One run of the updater at a time: the timer's    *)
(* one-shot unit, or an operator's command.                                *)
(***************************************************************************)
EXTENDS MachineState

-----------------------------------------------------------------------------
(* versioning.py: compare_versions *)

Part(v, i) == IF i <= Len(v) THEN v[i] ELSE 0

\* Mutation: the shorter of two versions is not padded with zeros.
IsNewerUnpadded(candidate, current) ==
    \E i \in 1 .. Len(candidate) :
        /\ i > Len(current) \/ Part(candidate, i) > Part(current, i)
        /\ \A j \in 1 .. (i - 1) : Part(candidate, j) = Part(current, j)

IsNewerVersion(candidate, current) ==
    \E i \in 1 .. 4 :
        /\ Part(candidate, i) > Part(current, i)
        /\ \A j \in 1 .. (i - 1) : Part(candidate, j) = Part(current, j)

-----------------------------------------------------------------------------
(* The updater's own steps.  An exception that nothing catches ends the run *)
(* and leaves everything as it is.                                          *)

WriteFails == ~calm

\* With the process go its options and what it has read.
RunEnds ==
    pc' = "idle" /\ mode' = "timer" /\ local' = FirstVersion /\ seen' = FirstVersion

GiveUp == RunEnds /\ UNCHANGED state

\* The run ends where it should have started the service.
Abandon ==
    /\ GiveUp
    /\ abandoned' = IF unit = "inactive" THEN abandoned \cup {"service"} ELSE abandoned

\* A result that ends the run, persisted.
Result(s) == RunEnds /\ state' = s

At(p, next) == pc = p /\ pc' = next

(* A process starts: the timer's, or one that an operator starts by hand.  *)
StartRun(m) ==
    /\ At("idle", "begin")
    /\ mode' = m /\ local' = files
    /\ UNCHANGED <<machine, state, seen, outside, script, abandoned>>

Begin ==
    /\ pc = "begin"
    /\ \/ (enabled \/ mode = "force")
            /\ pc' = "refresh" /\ state' = "checking" /\ UNCHANGED <<mode, local, seen>>
       \/ ~enabled /\ mode # "force" /\ Result("disabled")
       \/ WriteFails /\ GiveUp
    /\ UNCHANGED <<machine, outside, script, abandoned>>

\* Mutation: a version that cannot be read is taken for an empty one.
RefreshUnparsed ==
    /\ pc = "refresh"
    /\ \/ pc' = "compare" /\ seen' = remote /\ UNCHANGED <<mode, local, state>>
       \/ ~calm /\ pc' = "compare" /\ seen' = << >> /\ UNCHANGED <<mode, local, state>>
    /\ UNCHANGED <<machine, outside, script, abandoned>>

(* _refresh_checkout and _read_checkout_version: git may fail, and so may  *)
(* the version that is read be unreadable.                                 *)
Refresh ==
    /\ pc = "refresh"
    /\ \/ pc' = "compare" /\ seen' = remote /\ UNCHANGED <<mode, local, state>>
       \/ ~calm /\ GiveUp
    /\ UNCHANGED <<machine, outside, script, abandoned>>

\* Mutation: a version is newer only if no part of it is smaller.
UpdateIfNoPartSmaller ==
    /\ \A i \in 1 .. 4 : Part(seen, i) >= Part(local, i)
    /\ \E i \in 1 .. 4 : Part(seen, i) > Part(local, i)

UpdateAvailable == IsNewerVersion(seen, local)

Compare ==
    /\ pc = "compare"
    /\ \/ mode = "check" /\ Result(IF UpdateAvailable THEN "update_available" ELSE "up_to_date")
       \/ mode = "timer" /\ ~UpdateAvailable /\ Result("up_to_date")
       \/ /\ mode = "force" \/ (mode = "timer" /\ UpdateAvailable)
          /\ pc' = "stop" /\ state' = "updating" /\ UNCHANGED <<mode, local, seen>>
       \/ WriteFails /\ GiveUp
    /\ UNCHANGED <<machine, outside, script, abandoned>>

(* systemctl stop, whose failure is ignored.                               *)
StopService ==
    /\ At("stop", "install")
    /\ StopUnit
    /\ UNCHANGED <<files, whole, monitor, running, mode, local, seen, state, outside, script,
                   abandoned>>

-----------------------------------------------------------------------------
(* install.sh, which ends at the first command that fails (set -e) *)

(* Packages, users, directories; then files are extracted over the old     *)
(* ones: at some moment the one that holds the version is replaced.        *)
ExtractFiles ==
    /\ At("install", "extract")
    /\ whole' = FALSE
    /\ files' \in {files, seen}
    /\ UNCHANGED <<unit, monitor, running, mode, local, seen, state, outside, script, abandoned>>

FinishExtraction ==
    /\ At("extract", "build")
    /\ files' = seen
    /\ UNCHANGED <<whole, unit, monitor, running, mode, local, seen, state, outside, script,
                   abandoned>>

\* Mutation: the installer goes on after a failing command.
BuildIgnoringFailure ==
    /\ At("build", "restart")
    /\ whole' \in {TRUE, FALSE}
    /\ UNCHANGED <<files, unit, monitor, running, mode, local, seen, state, outside, script,
                   abandoned>>

(* The virtual environment, the dependencies from the network, the config  *)
(* file and the units.                                                     *)
Build ==
    /\ At("build", "restart")
    /\ whole' = TRUE
    /\ UNCHANGED <<files, unit, monitor, running, mode, local, seen, state, outside, script,
                   abandoned>>

(* systemctl restart, for the two units one after the other.               *)
RestartService ==
    /\ At("restart", "restart_monitor")
    /\ ServiceStarts
    /\ UNCHANGED <<files, whole, monitor, mode, local, seen, state, outside, script>>

RestartMonitor ==
    /\ At("restart_monitor", "verify")
    /\ MonitorStarts
    /\ UNCHANGED <<files, whole, unit, running, mode, local, seen, state, outside, script>>

(* verify_enabled_unit and verify_active_unit for the units: the install   *)
(* has failed if somebody stopped one of them meanwhile.                   *)
Verify ==
    /\ pc = "verify"
    /\ pc' = IF unit = "active" /\ monitor = "active" THEN "persist" ELSE "failed"
    /\ UNCHANGED <<machine, mode, local, seen, state, outside, script, abandoned>>

(* Any command of the script fails, or the script is not there.            *)
InstallFails ==
    /\ pc \in InstallPoints /\ ~calm
    /\ pc' = "failed"
    /\ UNCHANGED <<machine, mode, local, seen, state, outside, script, abandoned>>

-----------------------------------------------------------------------------
(* After the installer *)

(* except Exception: the status write is not guarded.                      *)
WriteFailed ==
    /\ pc = "failed"
    /\ \/ /\ pc' = "start" /\ state' = "failed"
          /\ UNCHANGED <<mode, local, seen, abandoned>>
       \/ WriteFails /\ Abandon
    /\ UNCHANGED <<machine, outside, script>>

StartService ==
    /\ pc = "start" /\ RunEnds
    /\ EnsureService
    /\ UNCHANGED <<files, whole, monitor, state, outside, script>>

Persist ==
    /\ pc = "persist"
    /\ \/ Result("updated")
       \/ WriteFails /\ GiveUp
    /\ UNCHANGED <<machine, outside, script, abandoned>>

-----------------------------------------------------------------------------

UpdaterStep ==
    \/ Begin \/ Refresh \/ Compare \/ StopService
    \/ ExtractFiles \/ FinishExtraction \/ Build \/ RestartService \/ RestartMonitor
    \/ Verify \/ InstallFails
    \/ WriteFailed \/ StartService \/ Persist

=============================================================================
