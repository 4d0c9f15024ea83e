---------------------------- MODULE HealthReport ----------------------------
(***************************************************************************)
(* The health report (build_health_report of health.py, for the health     *)
(* command and the alert monitor) beside the running service: a process of *)
(* its own that reads the status table in one transaction and the queue in *)
(* the next, and makes one verdict of both.                                *)
(***************************************************************************)
EXTENDS ScanService

VARIABLE report     \* the report that is being built, or was the last to be built

allVars == <<vars, report>>

Verdicts == {"ok", "degraded", "error"}

\* The verdict as far as it is known, and how many scans had been completed when the
\* report was asked for (history).
Reports == [at : {"none", "summary", "made"}, verdict : Verdicts, begun : 0 .. MaxScans]

NoReport == [at |-> "none", verdict |-> "error", begun |-> 0]

-----------------------------------------------------------------------------

(* Configuration warnings, the age of the heartbeat and the free space of  *)
(* the disk are what they are.                                             *)
Overall(warnings, running, lowSpace) ==
    CASE warnings \/ ~running \/ status.scanner # "yes" -> "error"
      [] ~warnings /\ running /\ status.scanner = "yes"
             /\ (lowSpace \/ status.server # "yes") -> "degraded"
      [] OTHER -> "ok"

(* store.initialize(), which changes nothing of a database that is there,  *)
(* and store.status_snapshot().                                            *)
ReadStatus ==
    /\ report.at # "summary"
    /\ \E warnings, running, lowSpace \in BOOLEAN :
           report' = [at |-> "summary", verdict |-> Overall(warnings, running, lowSpace),
                      begun |-> captured]

\* Mutation: only what may be sent now counts as pending.
CountDue == Due(rows)

\* queue.pending_count
Counted == Pending(rows)

(* store.queue_summary(), some time later.                                 *)
ReadQueue ==
    /\ report.at = "summary"
    /\ report' = [report EXCEPT
           !.at = "made",
           !.verdict = IF @ = "ok" /\ Counted # {} THEN "degraded" ELSE @]

(* Either transaction fails, or the command is interrupted: no report.     *)
NoVerdict == report.at = "summary" /\ report' = NoReport

Report == (ReadStatus \/ ReadQueue \/ NoVerdict) /\ UNCHANGED vars

HealthInit == Init /\ report = NoReport

HealthNext == (Next /\ UNCHANGED report) \/ Report

HealthSpec == HealthInit /\ [][HealthNext]_allVars

-----------------------------------------------------------------------------

\* A report that says "ok" vouches for every scan that was completed before it was
\* asked for: each was written to a socket, or was one of those that RetainedUntilSent
\* excepts, although the two transactions see different moments and the worker and the
\* scanner go on between them (build_health_report, queue_summary, mark_failed).
OkMeansDelivered ==
    report.at = "made" /\ report.verdict = "ok"
        => 1 .. report.begun \subseteq handed \cup dropped \cup cleared

=============================================================================
