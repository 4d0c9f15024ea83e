--------------------------- MODULE MCAlertMonitor ---------------------------
(***************************************************************************)
(* AlertMonitor with a short interval, and writes that wait for their lock *)
(* up to two seconds.  Three are the most under which a heartbeat stays    *)
(* fresh, as AlertMonitorProofs proves: with MaxWait = 4 AliveIsFresh and  *)
(* VerdictIsTimely fail.                                                   *)
(***************************************************************************)
EXTENDS AlertMonitor

MCBeepCount == [a \in Alerts \ {"none"} |-> IF a = "app_not_running" THEN 2 ELSE 1]

=============================================================================
