-------------------------- MODULE AutoUpdateProofs --------------------------
(***************************************************************************)
(* For any set of versions: the updater and the script that clears the     *)
(* queue bring the units back, however they are interleaved; the updater   *)
(* says "updated" only of a complete install that was started, and changes *)
(* the files to a later version only.                                      *)
(***************************************************************************)
EXTENDS Maintenance, TLAPS

\* Nothing of the initial state is out of type.
LEMMA InitType == Init => TypeOK
  BY VersionsAssumption
     DEF Init, TypeOK, MachineType, UpdaterType, ScriptType, OutsideType

\* The updater keeps the types; what it installs was read from the branch.
LEMMA UpdaterKeepsType ==
  ASSUME TypeOK, UpdaterStep \/ \E m \in {"timer", "check", "force"} : StartRun(m)
  PROVE  TypeOK'
<1>0. FirstVersion \in Versions
  BY VersionsAssumption
<1> USE <1>0
    DEF TypeOK, MachineType, UpdaterType, ScriptType, OutsideType, machine, outside, script,
        InstallPoints, At, RunEnds, GiveUp, Result
<1>1. ASSUME NEW m \in {"timer", "check", "force"}, StartRun(m) PROVE TypeOK'
  BY <1>1 DEF StartRun
<1>2. CASE Begin
  BY <1>2 DEF Begin
<1>3. CASE Refresh
  BY <1>3 DEF Refresh
<1>4. CASE Compare
  BY <1>4 DEF Compare
<1>5. CASE StopService
  BY <1>5 DEF StopService, StopUnit
<1>6. CASE ExtractFiles
  <2>1. MachineType'
    BY <1>6 DEF ExtractFiles
  <2>2. UpdaterType' /\ ScriptType' /\ OutsideType'
    BY <1>6 DEF ExtractFiles
  <2>3. QED
    BY <2>1, <2>2
<1>7. CASE FinishExtraction
  BY <1>7 DEF FinishExtraction
<1>8. CASE Build
  BY <1>8 DEF Build
<1>9. CASE Verify
  BY <1>9 DEF Verify
<1>10. CASE InstallFails
  BY <1>10 DEF InstallFails
<1>11. CASE RestartService
  BY <1>11 DEF RestartService, ServiceStarts
<1>12. CASE RestartMonitor
  BY <1>12 DEF RestartMonitor, MonitorStarts
<1>13. CASE WriteFailed
  <2>1. MachineType'
    BY <1>13 DEF WriteFailed, Abandon
  <2>2. UpdaterType' /\ ScriptType' /\ OutsideType'
    BY <1>13 DEF WriteFailed, Abandon
  <2>3. QED
    BY <2>1, <2>2
<1>14. CASE Persist
  BY <1>14 DEF Persist
<1>15. CASE StartService
  <2>1. MachineType'
    BY <1>15 DEF StartService, EnsureService, ServiceStarts
  <2>2. UpdaterType' /\ ScriptType' /\ OutsideType'
    BY <1>15 DEF StartService, EnsureService, ServiceStarts
  <2>3. QED
    BY <2>1, <2>2
<1>16. QED
  BY <1>1, <1>2, <1>3, <1>4, <1>5, <1>6, <1>7, <1>8, <1>9, <1>10, <1>11, <1>12, <1>13,
     <1>14, <1>15 DEF UpdaterStep

\* The script keeps the types.
LEMMA ScriptKeepsType ==
  ASSUME TypeOK, ScriptStep \/ BeginClear
  PROVE  TypeOK'
<1> USE DEF TypeOK, MachineType, UpdaterType, ScriptType, OutsideType, updater, outside,
            StopPoints, TrapPoints, Reaches
<1>1. CASE BeginClear
  BY <1>1 DEF BeginClear
<1>2. CASE DeleteScans
  BY <1>2 DEF DeleteScans
<1>3. CASE CheckMonitor
  <2>1. ScriptType'
    BY <1>3 DEF CheckMonitor
  <2>2. MachineType' /\ UpdaterType' /\ OutsideType'
    BY <1>3 DEF CheckMonitor
  <2>3. QED
    BY <2>1, <2>2
<1>4. CASE CheckService
  <2>1. ScriptType'
    BY <1>4 DEF CheckService
  <2>2. MachineType' /\ UpdaterType' /\ OutsideType'
    BY <1>4 DEF CheckService
  <2>3. QED
    BY <2>1, <2>2
<1>5. CASE StopMonitor
  BY <1>5 DEF StopMonitor
<1>6. CASE StopActiveService
  BY <1>6 DEF StopActiveService
<1>7. CASE StartServiceAgain
  <2>1. MachineType'
    BY <1>7 DEF StartServiceAgain, EnsureService, ServiceStarts
  <2>2. ScriptType'
    BY <1>7 DEF StartServiceAgain, EnsureService, ServiceStarts
  <2>3. UpdaterType' /\ OutsideType'
    BY <1>7 DEF StartServiceAgain, EnsureService, ServiceStarts
  <2>4. QED
    BY <2>1, <2>2, <2>3
<1>8. CASE StartMonitorAgain
  <2>1. MachineType'
    BY <1>8 DEF StartMonitorAgain, MonitorStarts
  <2>2. ScriptType'
    BY <1>8 DEF StartMonitorAgain, MonitorStarts
  <2>3. UpdaterType' /\ OutsideType'
    BY <1>8 DEF StartMonitorAgain, MonitorStarts
  <2>4. QED
    BY <2>1, <2>2, <2>3
<1>9. QED
  BY <1>1, <1>2, <1>3, <1>4, <1>5, <1>6, <1>7, <1>8 DEF ScriptStep

\* And so does what happens around the two programs.
LEMMA WorldKeepsType ==
  ASSUME TypeOK, World
  PROVE  TypeOK'
<1>0. FirstVersion \in Versions
  BY VersionsAssumption
<1> USE <1>0
    DEF TypeOK, MachineType, UpdaterType, ScriptType, OutsideType, machine, updater, script,
        outside, RunEnds, GiveUp
<1>1. CASE Publish
  BY <1>1 DEF Publish
<1>2. CASE CalmBegins
  BY <1>2 DEF CalmBegins
<1>3. CASE ServiceRestarts
  BY <1>3 DEF ServiceRestarts, ServiceStarts
<1>4. CASE OperatorRestarts
  <2>1. MachineType'
    BY <1>4 DEF OperatorRestarts, ServiceStarts, MonitorStarts
  <2>2. UpdaterType' /\ ScriptType' /\ OutsideType'
    BY <1>4 DEF OperatorRestarts, ServiceStarts, MonitorStarts
  <2>3. QED
    BY <2>1, <2>2
<1>5. CASE Reboot
  BY <1>5 DEF Reboot
<1>6. CASE KillUpdater
  BY <1>6 DEF KillUpdater, Abandon
<1>7. CASE KillScript
  BY <1>7 DEF KillScript, Reaches, StopPoints, TrapPoints
<1>8. CASE Interrupted
  BY <1>8 DEF Interrupted, Reaches, StopPoints, TrapPoints
<1>9. QED
  BY <1>1, <1>2, <1>3, <1>4, <1>5, <1>6, <1>7, <1>8 DEF World

\* Every variable of the two programs keeps its type, whatever versions are
\* published (run, install.sh, clear-scan-queue.sh).
THEOREM UpdaterTypes == Spec => []TypeOK
<1>1. ASSUME TypeOK, UNCHANGED vars PROVE TypeOK'
  BY <1>1 DEF vars, machine, updater, script, outside,
              TypeOK, MachineType, UpdaterType, ScriptType, OutsideType
<1>2. TypeOK /\ [Next]_vars => TypeOK'
  BY <1>1, UpdaterKeepsType, ScriptKeepsType, WorldKeepsType DEF Next
<1>3. QED
  BY InitType, <1>2, PTL DEF Spec

-----------------------------------------------------------------------------
(* What the two programs keep between their steps.                         *)

\* The service is down only where the updater still has to start it, or while the
\* script remembers to.
DownOnTheWay ==
    /\ unit = "inactive" =>
          \/ "service" \in abandoned \/ appWasActive
          \/ pc \in {"install", "extract", "build", "restart", "failed", "start"}
    /\ monitor = "inactive" => "monitor" \in abandoned \/ monitorWasActive

\* The script remembers a unit before it stops it, and forgets it only once it has
\* started it.
NotForgotten ==
    /\ appWasActive => cpc \in {"stop_service", "clear", "start_service"}
    /\ monitorWasActive => cpc # "idle"
    /\ cpc = "stop_service" => appWasActive
    /\ cpc = "stop_monitor" => monitorWasActive

\* The installer's last steps have what the ones before them made.
InstallProgress ==
    /\ pc \in {"restart", "restart_monitor", "verify", "persist"} => whole
    /\ pc \in {"restart_monitor", "verify", "persist"} => running = files

\* "updated" does not outlive the first step of the next run.
UpdatedIsLast == state = "updated" => pc \in {"idle", "begin"}

UpdateInv ==
    DownOnTheWay /\ NotForgotten /\ InstallProgress /\ UpdatedIsLast /\ UpdatedMeansRunning

\* The updater keeps the invariant: a run that fails goes on to start the service,
\* and what the installer made is not undone before the result is written.
LEMMA UpdaterKeeps ==
  ASSUME TypeOK, UpdateInv,
         UpdaterStep \/ \E m \in {"timer", "check", "force"} : StartRun(m)
  PROVE  UpdateInv'
<1> USE DEF TypeOK, MachineType, UpdaterType, ScriptType, UpdateInv, DownOnTheWay,
            NotForgotten, InstallProgress, UpdatedIsLast, UpdatedMeansRunning,
            machine, updater, script, outside, InstallPoints, At, RunEnds, GiveUp, Result
<1>1. ASSUME NEW m \in {"timer", "check", "force"}, StartRun(m) PROVE UpdateInv'
  BY <1>1 DEF StartRun
<1>2. CASE Begin
  BY <1>2 DEF Begin
<1>3. CASE Refresh
  BY <1>3 DEF Refresh
<1>4. CASE Compare
  BY <1>4 DEF Compare
<1>5. CASE StopService
  BY <1>5 DEF StopService, StopUnit
<1>6. CASE ExtractFiles
  BY <1>6 DEF ExtractFiles
<1>7. CASE FinishExtraction
  BY <1>7 DEF FinishExtraction
<1>8. CASE Build
  BY <1>8 DEF Build
<1>9. CASE RestartService
  BY <1>9 DEF RestartService, ServiceStarts
<1>10. CASE RestartMonitor
  BY <1>10 DEF RestartMonitor, MonitorStarts
<1>11. CASE Verify \/ InstallFails
  BY <1>11 DEF Verify, InstallFails
<1>12. CASE WriteFailed
  BY <1>12 DEF WriteFailed, Abandon
<1>13. CASE StartService
  BY <1>13 DEF StartService, EnsureService, ServiceStarts
<1>14. CASE Persist
  BY <1>14 DEF Persist
<1>15. QED
  BY <1>1, <1>2, <1>3, <1>4, <1>5, <1>6, <1>7, <1>8, <1>9, <1>10, <1>11, <1>12, <1>13,
     <1>14 DEF UpdaterStep

\* The script keeps the invariant: it notes that a unit was active before it stops
\* it, and every way to its end but a kill leads through the trap.
LEMMA ScriptKeeps ==
  ASSUME TypeOK, UpdateInv, ScriptStep \/ BeginClear
  PROVE  UpdateInv'
<1> USE DEF TypeOK, MachineType, UpdateInv, DownOnTheWay, NotForgotten, InstallProgress,
            UpdatedIsLast, UpdatedMeansRunning, machine, updater, outside, Reaches
<1>1. CASE BeginClear
  BY <1>1 DEF BeginClear
<1>2. CASE CheckMonitor
  BY <1>2 DEF CheckMonitor
<1>3. CASE StopMonitor
  BY <1>3 DEF StopMonitor
<1>4. CASE CheckService
  BY <1>4 DEF CheckService
<1>5. CASE StopActiveService
  BY <1>5 DEF StopActiveService
<1>6. CASE DeleteScans
  BY <1>6 DEF DeleteScans
<1>7. CASE StartServiceAgain
  BY <1>7 DEF StartServiceAgain, EnsureService, ServiceStarts
<1>8. CASE StartMonitorAgain
  BY <1>8 DEF StartMonitorAgain, MonitorStarts
<1>9. QED
  BY <1>1, <1>2, <1>3, <1>4, <1>5, <1>6, <1>7, <1>8 DEF ScriptStep

\* What happens around the two programs keeps the invariant: a program that is
\* killed abandons the units that it had stopped.
LEMMA WorldKeeps ==
  ASSUME TypeOK, UpdateInv, World
  PROVE  UpdateInv'
<1> USE DEF TypeOK, MachineType, ScriptType, UpdateInv, DownOnTheWay, NotForgotten,
            InstallProgress, UpdatedIsLast, UpdatedMeansRunning,
            machine, updater, script, outside
<1>1. CASE Publish \/ CalmBegins
  BY <1>1 DEF Publish, CalmBegins
<1>2. CASE ServiceRestarts
  BY <1>2 DEF ServiceRestarts, ServiceStarts
<1>3. CASE OperatorRestarts
  BY <1>3 DEF OperatorRestarts, ServiceStarts, MonitorStarts
<1>4. CASE Reboot
  BY <1>4 DEF Reboot, GiveUp, RunEnds
<1>5. CASE KillUpdater
  BY <1>5 DEF KillUpdater, Abandon, GiveUp, RunEnds
<1>6. CASE KillScript
  BY <1>6 DEF KillScript, Reaches, StopPoints, TrapPoints
<1>7. CASE Interrupted
  BY <1>7 DEF Interrupted, Reaches, StopPoints, TrapPoints
<1>8. QED
  BY <1>1, <1>2, <1>3, <1>4, <1>5, <1>6, <1>7 DEF World

\* The invariant holds at every moment of the two programs.
LEMMA UpdateInvariant == Spec => []UpdateInv
<1>1. Init => UpdateInv
  BY DEF Init, UpdateInv, DownOnTheWay, NotForgotten, InstallProgress, UpdatedIsLast,
         UpdatedMeansRunning
<1>2. ASSUME TypeOK, UpdateInv, UNCHANGED vars PROVE UpdateInv'
  BY <1>2 DEF vars, machine, updater, script, outside, UpdateInv, DownOnTheWay,
              NotForgotten, InstallProgress, UpdatedIsLast, UpdatedMeansRunning
<1>3. TypeOK /\ UpdateInv /\ [Next]_vars => UpdateInv'
  BY <1>2, UpdaterKeeps, ScriptKeeps, WorldKeeps DEF Next
<1>4. QED
  BY <1>1, <1>3, UpdaterTypes, PTL DEF Spec

\* Once neither program runs, both units are up, unless one of the two died, or
\* the updater's except clause did, while they were down (run, install.sh,
\* clear-scan-queue.sh).
THEOREM BothUnitsComeBack == Spec => []UnitsComeBack
<1>1. TypeOK /\ UpdateInv => UnitsComeBack
  BY DEF TypeOK, MachineType, UpdateInv, DownOnTheWay, NotForgotten, UnitsComeBack
<1>2. QED
  BY <1>1, UpdateInvariant, UpdaterTypes, PTL

\* "updated" is the truth as long as it stands: the files are complete and of one
\* install, and the service was started with them (run's last write, install.sh).
THEOREM UpdatedIsTrue == Spec => []UpdatedMeansRunning
<1>1. UpdateInv => UpdatedMeansRunning
  BY DEF UpdateInv
<1>2. QED
  BY <1>1, UpdateInvariant, PTL

-----------------------------------------------------------------------------
(* Versions are compared as the numbers of which they are the digits.      *)

\* One digit more: the higher one decides, and the lower one between equals.
LEMMA DigitDecides ==
  ASSUME NEW a \in Nat, NEW c \in Nat, NEW b \in Nat, NEW x \in Nat, NEW y \in Nat,
         x < b, y < b
  PROVE  (a * b + x > c * b + y) <=> (a > c \/ (a = c /\ x > y))
<1>1. \A m, n \in Nat : m > n => m * b >= n * b + b
  <2>1. SUFFICES ASSUME NEW m \in Nat, NEW n \in Nat, m > n PROVE m * b >= n * b + b
    OBVIOUS
  <2>2. PICK d \in Nat : m = (n + 1) + d
    <3>1. m - (n + 1) \in Nat /\ m = (n + 1) + (m - (n + 1))
      BY <2>1
    <3>2. QED
      BY <3>1
  <2>3. m * b = (n * b + b) + d * b
    BY <2>2
  <2>4. d * b \in Nat /\ n * b \in Nat
    OBVIOUS
  <2>5. QED
    BY <2>3, <2>4
<1>2. a * b \in Nat /\ c * b \in Nat
  OBVIOUS
<1>3. CASE a > c
  <2>1. a * b >= c * b + b
    BY <1>1, <1>3
  <2>2. QED
    BY <1>2, <1>3, <2>1
<1>4. CASE c > a
  <2>1. c * b >= a * b + b
    BY <1>1, <1>4
  <2>2. QED
    BY <1>2, <1>4, <2>1
<1>5. CASE a = c
  BY <1>2, <1>5
<1>6. QED
  BY <1>3, <1>4, <1>5

\* With the lower digit it is still a number.
LEMMA DigitsAreNatural ==
  ASSUME NEW a \in Nat, NEW b \in Nat, NEW x \in Nat
  PROVE  a * b + x \in Nat
<1>1. a * b \in Nat
  OBVIOUS
<1>2. QED
  BY <1>1

\* A version has a number at each of the four places.
LEMMA PartIsNatural ==
  ASSUME NEW v \in Seq(Nat)
  PROVE  \A i \in 1 .. 4 : Part(v, i) \in Nat
BY DEF Part

\* No part exceeds the sum of them all.
LEMMA TotalBoundsParts ==
  ASSUME NEW v \in Seq(Nat)
  PROVE  /\ Total(v) \in Nat
         /\ Part(v, 1) <= Total(v) /\ Part(v, 2) <= Total(v)
         /\ Part(v, 3) <= Total(v) /\ Part(v, 4) <= Total(v)
<1>1. /\ Part(v, 1) \in Nat /\ Part(v, 2) \in Nat
      /\ Part(v, 3) \in Nat /\ Part(v, 4) \in Nat
  BY PartIsNatural
<1>2. Total(v) = Part(v, 1) + Part(v, 2) + Part(v, 3) + Part(v, 4)
  BY DEF Total
<1> QED
  BY <1>1, <1>2

\* is_newer_version compares the versions as numbers, in any base that no part
\* reaches: later it is that wins at the first part in which the two differ.
LEMMA NewerIsGreater ==
  ASSUME NEW v \in Seq(Nat), NEW w \in Seq(Nat), NEW b \in Nat,
         \A i \in 1 .. 4 : Part(v, i) < b /\ Part(w, i) < b
  PROVE  IsNewerVersion(v, w) <=> Value(v, b) > Value(w, b)
<1>1. PICK p1 \in Nat, p2 \in Nat, p3 \in Nat, p4 \in Nat :
         p1 = Part(v, 1) /\ p2 = Part(v, 2) /\ p3 = Part(v, 3) /\ p4 = Part(v, 4)
  BY PartIsNatural
<1>2. PICK q1 \in Nat, q2 \in Nat, q3 \in Nat, q4 \in Nat :
         q1 = Part(w, 1) /\ q2 = Part(w, 2) /\ q3 = Part(w, 3) /\ q4 = Part(w, 4)
  BY PartIsNatural
<1>3. /\ p1 < b /\ p2 < b /\ p3 < b /\ p4 < b
      /\ q1 < b /\ q2 < b /\ q3 < b /\ q4 < b
  BY <1>1, <1>2
<1>4. IsNewerVersion(v, w) <=>
         \/ p1 > q1
         \/ p1 = q1 /\ p2 > q2
         \/ p1 = q1 /\ p2 = q2 /\ p3 > q3
         \/ p1 = q1 /\ p2 = q2 /\ p3 = q3 /\ p4 > q4
  <2>1. /\ 1 .. (1 - 1) = {} /\ 1 .. (2 - 1) = {1} /\ 1 .. (3 - 1) = {1, 2}
        /\ 1 .. (4 - 1) = {1, 2, 3} /\ 1 .. 4 = {1, 2, 3, 4}
    OBVIOUS
  <2>2. QED
    BY <1>1, <1>2, <2>1 DEF IsNewerVersion
<1>5. /\ Value(v, b) = ((p1 * b + p2) * b + p3) * b + p4
      /\ Value(w, b) = ((q1 * b + q2) * b + q3) * b + q4
  BY <1>1, <1>2 DEF Value
<1>6. PICK m \in Nat, n \in Nat : m = p1 * b + p2 /\ n = q1 * b + q2
  <2>1. p1 * b + p2 \in Nat /\ q1 * b + q2 \in Nat
    BY DigitsAreNatural
  <2>2. QED
    BY <2>1
<1>7. /\ m > n <=> (p1 > q1 \/ (p1 = q1 /\ p2 > q2))
      /\ m = n <=> (p1 = q1 /\ p2 = q2)
  <2>1. p1 * b + p2 > q1 * b + q2 <=> (p1 > q1 \/ (p1 = q1 /\ p2 > q2))
    BY <1>3, DigitDecides, ZenonT(30)
  <2>2. q1 * b + q2 > p1 * b + p2 <=> (q1 > p1 \/ (q1 = p1 /\ q2 > p2))
    BY <1>3, DigitDecides, ZenonT(30)
  <2>3. m = n <=> ~(m > n) /\ ~(n > m)
    OBVIOUS
  <2>4. QED
    BY <1>6, <2>1, <2>2, <2>3
<1>8. PICK k \in Nat, l \in Nat : k = m * b + p3 /\ l = n * b + q3
  <2>1. m * b + p3 \in Nat /\ n * b + q3 \in Nat
    BY DigitsAreNatural
  <2>2. QED
    BY <2>1
<1>9. /\ k > l <=> (m > n \/ (m = n /\ p3 > q3))
      /\ k = l <=> (m = n /\ p3 = q3)
  <2>1. m * b + p3 > n * b + q3 <=> (m > n \/ (m = n /\ p3 > q3))
    BY <1>3, DigitDecides, ZenonT(30)
  <2>2. n * b + q3 > m * b + p3 <=> (n > m \/ (n = m /\ q3 > p3))
    BY <1>3, DigitDecides, ZenonT(30)
  <2>3. k = l <=> ~(k > l) /\ ~(l > k)
    OBVIOUS
  <2>4. QED
    BY <1>8, <2>1, <2>2, <2>3
<1>10. k * b + p4 > l * b + q4 <=> (k > l \/ (k = l /\ p4 > q4))
  BY <1>3, DigitDecides
<1>11. QED
  BY <1>4, <1>5, <1>6, <1>7, <1>8, <1>9, <1>10

\* What is_newer_version calls newer is the greater version, when versions are read as
\* numbers: compare_versions pads the shorter one with zeros and tells two spellings of
\* one version apart from two versions, for any two versions.
THEOREM NewerIsLater ==
  ASSUME NEW v \in Seq(Nat), NEW w \in Seq(Nat)
  PROVE  IsNewerVersion(v, w) <=> Later(v, w)
<1> DEFINE base == Total(v) + Total(w) + 1
<1>1. /\ Part(v, 1) \in Nat /\ Part(v, 2) \in Nat /\ Part(v, 3) \in Nat /\ Part(v, 4) \in Nat
      /\ Part(w, 1) \in Nat /\ Part(w, 2) \in Nat /\ Part(w, 3) \in Nat /\ Part(w, 4) \in Nat
  BY PartIsNatural
<1>2. /\ base \in Nat
      /\ Part(v, 1) < base /\ Part(v, 2) < base /\ Part(v, 3) < base /\ Part(v, 4) < base
      /\ Part(w, 1) < base /\ Part(w, 2) < base /\ Part(w, 3) < base /\ Part(w, 4) < base
  <2>1. Total(v) \in Nat /\ Total(w) \in Nat
    BY TotalBoundsParts
  <2>2. /\ Part(v, 1) <= Total(v) /\ Part(v, 2) <= Total(v)
        /\ Part(v, 3) <= Total(v) /\ Part(v, 4) <= Total(v)
    BY TotalBoundsParts
  <2>3. /\ Part(w, 1) <= Total(w) /\ Part(w, 2) <= Total(w)
        /\ Part(w, 3) <= Total(w) /\ Part(w, 4) <= Total(w)
    BY TotalBoundsParts
  <2>4. base \in Nat /\ Total(v) < base /\ Total(w) < base
    BY <2>1
  <2> HIDE DEF base
  <2>5. Part(v, 1) < base /\ Part(v, 2) < base /\ Part(v, 3) < base /\ Part(v, 4) < base
    BY <1>1, <2>1, <2>2, <2>4
  <2>6. Part(w, 1) < base /\ Part(w, 2) < base /\ Part(w, 3) < base /\ Part(w, 4) < base
    BY <1>1, <2>1, <2>3, <2>4
  <2>7. QED
    BY <2>4, <2>5, <2>6
<1>3. Later(v, w) <=> Value(v, base) > Value(w, base)
  BY DEF Later
<1> HIDE DEF base
<1>4. \A i \in 1 .. 4 : Part(v, i) < base /\ Part(w, i) < base
  <2>1. \A i \in 1 .. 4 : i = 1 \/ i = 2 \/ i = 3 \/ i = 4
    OBVIOUS
  <2>2. QED
    BY <1>2, <2>1
<1>5. QED
  BY <1>2, <1>3, <1>4, NewerIsGreater

-----------------------------------------------------------------------------
(* What a run has read still stands when the installer replaces files.     *)

\* An install is under way only with a version that is newer than the one the process
\* started with, or because it is forced; and no other process touches the files, so
\* that these are still the installed ones, until the installer replaces them.
UpgradeInv ==
    /\ pc \in {"stop", "install", "extract"} => mode = "force" \/ IsNewerVersion(seen, local)
    /\ pc \in {"begin", "refresh", "compare", "stop", "install"} => files = local
    /\ pc = "extract" => files = local \/ files = seen

\* The script has nothing to do with the files, and does not touch the updater.
LEMMA ScriptLeavesUpdater ==
  ASSUME ScriptStep \/ BeginClear
  PROVE  UNCHANGED <<files, pc, mode, local, seen>>
<1>1. CASE BeginClear \/ CheckMonitor \/ CheckService \/ DeleteScans
  BY <1>1 DEF BeginClear, CheckMonitor, CheckService, DeleteScans, Reaches, updater
<1>2. CASE StopMonitor \/ StopActiveService
  BY <1>2 DEF StopMonitor, StopActiveService, Reaches, updater
<1>3. CASE StartServiceAgain
  BY <1>3 DEF StartServiceAgain, Reaches, updater
<1>4. CASE StartMonitorAgain
  BY <1>4 DEF StartMonitorAgain, Reaches, updater
<1>5. QED
  BY <1>1, <1>2, <1>3, <1>4 DEF ScriptStep

\* Nor has what happens around the two programs, but for ending the updater.
LEMMA WorldLeavesUpdater ==
  ASSUME World
  PROVE  files' = files /\ (pc' = "idle" \/ UNCHANGED <<pc, mode, local, seen>>)
<1>1. CASE Publish \/ CalmBegins
  BY <1>1 DEF Publish, CalmBegins, machine, updater
<1>2. CASE ServiceRestarts
  BY <1>2 DEF ServiceRestarts, updater
<1>3. CASE OperatorRestarts
  BY <1>3 DEF OperatorRestarts, updater
<1>4. CASE KillUpdater
  BY <1>4 DEF KillUpdater, Abandon, GiveUp, RunEnds, machine
<1>5. CASE Reboot
  BY <1>5 DEF Reboot, GiveUp, RunEnds
<1>6. CASE KillScript \/ Interrupted
  BY <1>6 DEF KillScript, Interrupted, Reaches, updater
<1>7. QED
  BY <1>1, <1>2, <1>3, <1>4, <1>5, <1>6 DEF World

\* Every step keeps it.
LEMMA NextUpgrade ==
  ASSUME TypeOK, UpgradeInv, [Next]_vars
  PROVE  UpgradeInv'
<1>0. pc' = pc /\ UNCHANGED <<files, mode, local, seen>> => UpgradeInv'
  BY DEF UpgradeInv
<1>1. pc' \in {"idle", "build", "restart", "restart_monitor", "verify", "failed", "start",
               "persist"} => UpgradeInv'
  BY DEF UpgradeInv
<1>2. CASE UNCHANGED vars
  BY <1>0, <1>2 DEF vars, machine, updater
<1>3. CASE ScriptStep \/ BeginClear
  BY <1>0, <1>3, ScriptLeavesUpdater
<1>4. CASE World
  BY <1>0, <1>1, <1>4, WorldLeavesUpdater
<1>5. ASSUME NEW m \in {"timer", "check", "force"}, StartRun(m) PROVE UpgradeInv'
  BY <1>5 DEF StartRun, At, machine, UpgradeInv
<1>6. CASE Begin \/ Refresh
  BY <1>1, <1>6 DEF Begin, Refresh, Result, GiveUp, RunEnds, machine, UpgradeInv
<1>7. CASE Compare
  <2>1. CASE pc' = "idle"
    BY <1>1, <2>1
  <2>2. CASE pc' = "stop" /\ UNCHANGED <<files, mode, local, seen>> /\ pc = "compare"
             /\ (mode = "force" \/ UpdateAvailable)
    BY <2>2 DEF UpdateAvailable, UpgradeInv
  <2>3. QED
    BY <1>7, <2>1, <2>2 DEF Compare, Result, GiveUp, RunEnds, machine
<1>8. CASE StopService \/ ExtractFiles
  BY <1>8 DEF StopService, ExtractFiles, At, UpgradeInv
<1>9. CASE \/ FinishExtraction \/ Build \/ RestartService \/ RestartMonitor \/ Verify
           \/ InstallFails \/ WriteFailed \/ StartService \/ Persist
  BY <1>1, <1>9 DEF FinishExtraction, Build, RestartService, RestartMonitor, Verify,
       InstallFails, WriteFailed, StartService, Persist, At, Abandon, Result, GiveUp, RunEnds
<1>10. QED
  BY <1>2, <1>3, <1>4, <1>5, <1>6, <1>7, <1>8, <1>9 DEF Next, UpdaterStep

\* Only the installer changes the files, to those of the version that was read.
LEMMA WhoChangesFiles ==
  ASSUME [Next]_vars, files' # files
  PROVE  /\ pc \in {"install", "extract"} /\ files' = seen
         /\ UNCHANGED <<mode, local, seen>>
<1>1. CASE ExtractFiles \/ FinishExtraction
  BY <1>1 DEF ExtractFiles, FinishExtraction, At
<1>2. ASSUME ~(ExtractFiles \/ FinishExtraction) PROVE files' = files
  <2>1. CASE UNCHANGED vars
    BY <2>1 DEF vars, machine
  <2>2. CASE ScriptStep \/ BeginClear
    BY <2>2, ScriptLeavesUpdater
  <2>3. CASE World
    BY <2>3, WorldLeavesUpdater
  <2>4. CASE UpdaterStep \/ \E m \in {"timer", "check", "force"} : StartRun(m)
    BY <1>2, <2>4 DEF UpdaterStep, StartRun, Begin, Refresh, Compare, StopService, Build,
         RestartService, RestartMonitor, Verify, InstallFails, WriteFailed, StartService,
         Persist, machine
  <2>5. QED
    BY <2>1, <2>2, <2>3, <2>4 DEF Next
<1>3. QED
  BY <1>1, <1>2

\* Whatever is published and however long ago the updater looked, the files that a run
\* changes are those of an earlier version than the ones it puts in their place, unless
\* it was forced (is_newer_version, run, install.sh).
THEOREM FilesOnlyGoForward == Spec => OnlyUpgrades
<1>1. Init => UpgradeInv
  BY DEF Init, UpgradeInv
<1>2. ASSUME TypeOK, UpgradeInv, [Next]_vars, files' # files
      PROVE  mode = "force" \/ Later(files', files)
  <2>1. pc \in {"install", "extract"} /\ files' = seen
    BY <1>2, WhoChangesFiles
  <2>2. files = local \/ files = seen
    BY <1>2, <2>1 DEF UpgradeInv
  <2>3. mode = "force" \/ IsNewerVersion(seen, local)
    BY <1>2, <2>1 DEF UpgradeInv
  <2>4. seen \in Seq(Nat) /\ local \in Seq(Nat)
    BY <1>2, VersionsAssumption DEF TypeOK, UpdaterType
  <2>5. QED
    BY <1>2, <2>1, <2>2, <2>3, <2>4, NewerIsLater
<1>3. TypeOK /\ UpgradeInv /\ [Next]_vars
         => [files' # files => mode = "force" \/ Later(files', files)]_files
  BY <1>2
<1>4. TypeOK /\ UpgradeInv /\ [Next]_vars => UpgradeInv'
  BY NextUpgrade
<1>5. QED
  BY <1>1, <1>3, <1>4, UpdaterTypes, PTL DEF Spec, OnlyUpgrades

=============================================================================
