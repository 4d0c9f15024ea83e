-------------------------- MODULE HealthReportProofs --------------------------
(***************************************************************************)
(* What an "ok" of the health report vouches for, for any number of scans, *)
(* any retry interval and any setting of the switches: a report is built   *)
(* beside the service and changes nothing of it, so that the service's     *)
(* invariants hold here too; and what was delivered stays delivered.       *)
(***************************************************************************)
EXTENDS HealthReport, ForwardingProofs

\* The scans that need not be pending.
Settled == handed \cup dropped \cup cleared

\* No step takes back that a scan was completed, or what became of it.
LEMMA HistoryGrows ==
    ASSUME TypeOK, [Next]_vars
    PROVE  captured \in Nat /\ captured' \in Nat /\ captured <= captured' /\ Settled \subseteq Settled'
<1>1. captured \in Nat
  BY DEF TypeOK
<1>2. CASE Quiet \/ SendAccepted \/ Cleans \/ Marks \/ Fetches("send") \/ Fetches("mark_failed")
            \/ Tick \/ SetClock \/ OperatorClears
  BY <1>1, <1>2 DEF Settled, Quiet, SendAccepted, Cleans, Marks, Fetches, Tick, SetClock,
     OperatorClears, history
<1>3. CASE CaptureScan \/ CaptureFails
  BY <1>1, <1>3 DEF Settled, CaptureScan, CaptureFails, Completed, Update
<1> QED
  BY <1>2, <1>3, Steps

\* A queue without pending rows leaves no completed scan unsettled.
LEMMA NothingPending ==
    ASSUME RetainedUntilSent, Pending(rows) = {}
    PROVE  1 .. captured \subseteq Settled
BY DEF RetainedUntilSent, PendingScans, Settled

\* A report is asked for in the past, and says "ok" only of what is settled.
ReportInv ==
    /\ report.begun \in 0 .. captured
    /\ DOMAIN report = {"at", "verdict", "begun"}
    /\ OkMeansDelivered

\* While the service goes on a report keeps what it has found out.
LEMMA ServiceKeepsReport ==
    ASSUME TypeOK, ReportInv, [Next]_vars, UNCHANGED report
    PROVE  ReportInv'
<1>1. captured \in Nat /\ captured' \in Nat /\ captured <= captured' /\ Settled \subseteq Settled'
  BY HistoryGrows
<1> QED
  BY <1>1 DEF ReportInv, OkMeansDelivered, Settled

\* A report that is made of an empty queue vouches for what was completed before.
LEMMA ReportKeepsReport ==
    ASSUME TypeOK, RetainedUntilSent, ReportInv, Report
    PROVE  ReportInv'
<1>1. UNCHANGED <<captured, handed, dropped, cleared>> /\ captured \in Nat
  BY DEF Report, vars, history, TypeOK
<1>2. CASE ReadStatus
  <2>1. PICK v : report' = [at |-> "summary", verdict |-> v, begun |-> captured]
    BY <1>2 DEF ReadStatus
  <2> QED
    BY <1>1, <2>1 DEF ReportInv, OkMeansDelivered
<1>3. CASE ReadQueue
  <2>1. report'.begun = report.begun /\ DOMAIN report' = DOMAIN report
    BY <1>3 DEF ReadQueue, ReportInv
  <2>2. report'.verdict = "ok" => Pending(rows) = {}
    BY <1>3 DEF ReadQueue, ReportInv, Counted
  <2>3. Pending(rows) = {} => 1 .. report.begun \subseteq Settled
    BY <1>1, NothingPending DEF ReportInv
  <2> QED
    BY <1>1, <2>1, <2>2, <2>3 DEF ReportInv, OkMeansDelivered, Settled
<1>4. CASE NoVerdict
  BY <1>1, <1>4 DEF NoVerdict, NoReport, ReportInv, OkMeansDelivered
<1> QED
  BY <1>2, <1>3, <1>4 DEF Report

\* Beside the report the service is what ScanService says.
LEMMA ReportsStutter ==
    ASSUME [HealthNext]_allVars
    PROVE  [Next]_vars /\ (UNCHANGED report \/ Report)
BY DEF HealthNext, Report, allVars

\* A report that says "ok" vouches for all that was completed before it was asked for.
THEOREM OkIsTruthful == HealthSpec => []OkMeansDelivered
<1>1. HealthSpec => Spec
  <2>1. HealthInit => Init
    BY DEF HealthInit
  <2>2. [HealthNext]_allVars => [Next]_vars
    BY ReportsStutter
  <2> QED
    BY <2>1, <2>2, PTL DEF HealthSpec, Spec
<1>2. HealthInit => ReportInv
  BY DEF HealthInit, Init, NoReport, ReportInv, OkMeansDelivered
<1>3. TypeOK /\ RetainedUntilSent /\ ReportInv /\ [HealthNext]_allVars => ReportInv'
  BY ReportsStutter, ServiceKeepsReport, ReportKeepsReport
<1>4. ReportInv => OkMeansDelivered
  BY DEF ReportInv
<1> QED
  BY <1>1, <1>2, <1>3, <1>4, TypeCorrect, NoScanIsLost, PTL DEF HealthSpec

=============================================================================
