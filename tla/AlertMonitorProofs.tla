------------------------- MODULE AlertMonitorProofs -------------------------
(***************************************************************************)
(* Theorems about AlertMonitor for any interval, beep pattern and setting  *)
(* of the clock, where no write waits more than three seconds for its      *)
(* lock.  With four seconds TLC refutes the first two.                     *)
(***************************************************************************)
EXTENDS AlertMonitor, TLAPS

USE MonitorAssumption DEF HeartbeatPeriod, StaleAfter, Stale, Bound, Older, Capped

-----------------------------------------------------------------------------
(* The heartbeat: how old it may be at each point of the worker's loop,    *)
(* unless something changed or failed since the last one was written.      *)

Beats ==
    /\ hpc = "write" =>
           /\ stamp <= hspent + 1 \/ quiet <= hspent
           /\ \/ age <= hspent + HeartbeatPeriod + 2 * MaxWait + 1
              \/ quiet <= hspent + HeartbeatPeriod + 2 * MaxWait
    /\ hpc = "storage" => age <= hspent + MaxWait + 1 \/ quiet <= hspent + MaxWait
    /\ hpc = "sleep" => age <= hspent + 2 * MaxWait + 1 \/ quiet <= hspent + 2 * MaxWait

HeartbeatInv ==
    /\ hpc \in {"off", "write", "storage", "sleep"}
    /\ hspent \in Nat /\ stamp \in Int /\ age \in Int /\ quiet \in 0 .. Bound
    /\ hpc \in {"write", "storage"} => hspent <= MaxWait
    /\ hpc = "sleep" => hspent <= HeartbeatPeriod
    /\ hpc = "write" => stamp >= hspent - MaxBack
    /\ age + MaxBack >= 0
    /\ hpc = "off" => age >= Stale \/ age + MaxBack >= quiet
    /\ Beats

\* The worker runs as long as the process.
AliveInv == alive \in BOOLEAN /\ (alive <=> hpc # "off")

\* The service has not started, and no heartbeat was ever written.
LEMMA InitHeartbeat == Init => HeartbeatInv
<1> SUFFICES ASSUME Init PROVE HeartbeatInv
  OBVIOUS
<1>1. hpc = "off" /\ hspent = 0 /\ stamp = 0 /\ age = Stale /\ quiet = 0
  BY DEF Init, Never
<1>2. age + MaxBack >= 0
  BY <1>1
<1>3. quiet \in 0 .. Bound
  BY <1>1
<1>4. Beats
  BY <1>1 DEF Beats
<1> QED
  BY <1>1, <1>2, <1>3, <1>4 DEF HeartbeatInv

\* What neither touches the service and its heartbeat nor lets time pass.
LEMMA HeartbeatUntouched ==
    ASSUME HeartbeatInv, UNCHANGED <<hpc, hspent, stamp, age>>, quiet' \in {0, quiet}
    PROVE  HeartbeatInv'
<1>1. quiet' \in 0 .. Bound /\ quiet' <= quiet
  BY DEF HeartbeatInv
<1>2. Beats'
  <2>1. CASE quiet' = quiet
    BY <2>1 DEF HeartbeatInv, Beats
  <2>2. CASE quiet' = 0
    BY <2>2 DEF HeartbeatInv, Beats
  <2> QED
    BY <2>1, <2>2
<1> QED
  BY <1>1, <1>2 DEF HeartbeatInv

\* Every step keeps the times of the heartbeat.
LEMMA NextHeartbeat == HeartbeatInv /\ [Next]_vars => HeartbeatInv'
<1> SUFFICES ASSUME HeartbeatInv, [Next]_vars PROVE HeartbeatInv'
  OBVIOUS
<1>1. CASE UNCHANGED vars
  BY <1>1, HeartbeatUntouched DEF vars, service, table
<1>2. CASE HeartbeatStep
  <2>1. CASE Heartbeat
    BY <2>1 DEF Heartbeat, At, HeartbeatInv, Beats
  <2>2. CASE PersistStorage
    BY <2>2 DEF PersistStorage, At, table, HeartbeatInv, Beats
  <2>3. CASE HeartbeatFails
    BY <2>3 DEF HeartbeatFails, At, table, HeartbeatInv, Beats
  <2>4. CASE WakeHeartbeat
    BY <2>4 DEF WakeHeartbeat, TakesStamp, At, table, HeartbeatInv, Beats
  <2> QED
    BY <1>2, <2>1, <2>2, <2>3, <2>4 DEF HeartbeatStep
<1>3. CASE MonitorStep \/ PlayerBlocks \/ PlayerReturns \/ MonitorEnds \/ MonitorStarts
  <2>1. UNCHANGED <<hpc, hspent, stamp, age>> /\ quiet' \in {0, quiet}
    BY <1>3 DEF MonitorStep, Check, Record, Beep, BackendFails, RecordError, WakeMonitor,
                IterationFails, PlayerBlocks, PlayerReturns, MonitorEnds, MonitorStarts,
                service, table
  <2> QED
    BY <2>1, HeartbeatUntouched
<1>4. CASE ServiceReports
  BY <1>4, HeartbeatUntouched DEF ServiceReports, service
<1>5. CASE Tick
  <2>1. /\ hspent' = (IF hpc = "off" THEN 0 ELSE hspent + 1)
        /\ stamp' = (IF hpc = "write" THEN stamp + 1 ELSE 0)
        /\ age' = (IF age < Stale THEN age + 1 ELSE age)
        /\ quiet' \in {0, quiet, quiet + 1} /\ quiet' \in 0 .. Bound
        /\ UNCHANGED hpc
    BY <1>5 DEF Tick, HeartbeatInv
  <2>2. /\ hpc = "sleep" => hspent < HeartbeatPeriod
        /\ hpc \in {"write", "storage"} => hspent < MaxWait
    BY <1>5 DEF Tick, HeartbeatPatience, HeartbeatInv
  <2>3. CASE hpc = "off"
    BY <2>1, <2>3 DEF HeartbeatInv, Beats
  <2>4. CASE hpc = "write"
    BY <2>1, <2>2, <2>4 DEF HeartbeatInv, Beats
  <2>5. CASE hpc = "storage"
    BY <2>1, <2>2, <2>5 DEF HeartbeatInv, Beats
  <2>6. CASE hpc = "sleep"
    BY <2>1, <2>2, <2>6 DEF HeartbeatInv, Beats
  <2> QED
    BY <2>3, <2>4, <2>5, <2>6 DEF HeartbeatInv
<1>6. CASE ServiceStarts
  BY <1>6 DEF ServiceStarts, TakesStamp, At, table, HeartbeatInv, Beats
<1>7. CASE ServiceEnds
  BY <1>7 DEF ServiceEnds, At, table, HeartbeatInv, Beats
<1>8. CASE SetClock
  <2> PICK d \in -MaxBack .. MaxBack :
          /\ age + d >= -MaxBack
          /\ hpc = "write" => stamp + d - hspent \in -MaxBack .. MaxBack + 1
          /\ age' = IF age + d > Stale THEN Stale ELSE age + d
          /\ stamp' = IF hpc = "write" THEN stamp + d ELSE 0
          /\ quiet' = 0
          /\ UNCHANGED <<hpc, hspent>>
    BY <1>8 DEF SetClock
  <2> QED
    BY DEF HeartbeatInv, Beats
<1> QED
  BY <1>1, <1>2, <1>3, <1>4, <1>5, <1>6, <1>7, <1>8 DEF Next

\* At first neither is there.
LEMMA InitAlive == Init => AliveInv
BY DEF Init, AliveInv

\* They start and end together.
LEMMA NextAlive == AliveInv /\ [Next]_vars => AliveInv'
<1> SUFFICES ASSUME AliveInv, [Next]_vars PROVE AliveInv'
  OBVIOUS
<1>1. CASE UNCHANGED <<alive, hpc>>
  BY <1>1 DEF AliveInv
<1>2. CASE UNCHANGED alive /\ hpc # "off" /\ hpc' # "off"
  BY <1>2 DEF AliveInv
<1>3. CASE HeartbeatStep
  <2>1. UNCHANGED alive /\ hpc # "off" /\ hpc' # "off"
    BY <1>3 DEF HeartbeatStep, Heartbeat, PersistStorage, HeartbeatFails, WakeHeartbeat,
                TakesStamp, At
  <2> QED
    BY <1>2, <2>1
<1>4. CASE ServiceStarts
  BY <1>4 DEF ServiceStarts, TakesStamp, At, AliveInv
<1>5. CASE ServiceEnds
  BY <1>5 DEF ServiceEnds, At, AliveInv
<1>6. CASE \/ UNCHANGED vars \/ MonitorStep \/ ServiceReports \/ Tick \/ SetClock
           \/ PlayerBlocks \/ PlayerReturns \/ MonitorEnds \/ MonitorStarts
  <2>1. UNCHANGED <<alive, hpc>>
    BY <1>6 DEF vars, service, MonitorStep, Check, Record, Beep, BackendFails, RecordError,
                WakeMonitor, IterationFails, PlayerBlocks, PlayerReturns, MonitorEnds,
                MonitorStarts, ServiceReports, Tick, SetClock
  <2> QED
    BY <1>1, <2>1
<1> QED
  BY <1>3, <1>4, <1>5, <1>6 DEF Next

\* Where nothing changed or failed for long enough, the heartbeat tells the living
\* from the dead.
LEMMA HeartbeatTellsTruth ==
    ASSUME MaxWait <= 3, HeartbeatInv, AliveInv, quiet >= MaxBack + Stale
    PROVE  ServiceRunning = alive
<1>1. hpc = "off" <=> ~(age <= StaleAfter)
  BY DEF HeartbeatInv, Beats
<1> QED
  BY <1>1 DEF AliveInv, ServiceRunning

\* The heartbeat of a living service does not become stale between two beats, for
\* any interval of the monitor and any setting of the clock.
THEOREM LivingIsFresh ==
    ASSUME MaxWait <= 3
    PROVE  Spec => []AliveIsFresh
<1>1. HeartbeatInv /\ AliveInv => AliveIsFresh
  BY DEF HeartbeatInv, Beats, AliveInv, AliveIsFresh
<1> QED
  BY InitHeartbeat, NextHeartbeat, InitAlive, NextAlive, <1>1, PTL DEF Spec

-----------------------------------------------------------------------------
(* The monitor: at each point of its loop the alert it has chosen, or the  *)
(* one it has recorded, is right, unless it is not yet long since anything *)
(* changed or failed.                                                      *)

TrueAlert == ChooseAlert(alive, scanner, server)
Verdict == StatusRow(TrueAlert)
Settled == MaxBack + Stale

MonitorTimes ==
    /\ mon \in {"check", "record", "beep", "blocked", "error", "wait", "done"}
    /\ mspent \in Nat
    /\ mon = "check" => mspent = 0
    /\ mon \in {"record", "error"} => mspent <= MaxWait
    /\ mon = "beep" => mspent <= MaxBeep
    /\ mon = "wait" => mspent <= Interval

Delays ==
    /\ mon = "record" => alert = TrueAlert \/ quiet < Settled + mspent
    /\ mon = "beep" => shown = Verdict \/ quiet < Settled + mspent + MaxWait
    /\ mon = "wait" => shown = Verdict \/ quiet < Settled + mspent + MaxWait + MaxBeep
    /\ mon \in {"check", "record"} =>
           shown = Verdict \/ quiet < Settled + mspent + MaxWait + MaxBeep + Interval
    /\ mon = "error" => quiet <= mspent
    /\ mon = "blocked" => quiet = 0

OnceDelays ==
    once => /\ mon \notin {"beep", "blocked"}
            /\ mon = "check" => quiet <= Interval + MaxWait
            /\ mon = "record" => quiet <= Interval + MaxWait + mspent
            /\ mon = "error" => quiet <= mspent
            /\ mon = "wait" => quiet <= MaxWait + mspent

MonitorInv == quiet \in 0 .. Bound /\ MonitorTimes /\ Delays /\ OnceDelays

\* A monitor that has just started has still everything to find out.
LEMMA InitMonitor == Init => MonitorInv
<1> SUFFICES ASSUME Init PROVE MonitorInv
  OBVIOUS
<1>1. mon = "check" /\ mspent = 0 /\ quiet = 0
  BY DEF Init
<1>2. MonitorTimes /\ Delays /\ OnceDelays
  BY <1>1 DEF MonitorTimes, Delays, OnceDelays, Settled
<1> QED
  BY <1>1, <1>2 DEF MonitorInv

\* What is the case depends on four variables.
LEMMA SameVerdict ==
    ASSUME UNCHANGED <<enabled, alive, scanner, server>>
    PROVE  TrueAlert' = TrueAlert /\ Verdict' = Verdict
BY DEF TrueAlert, Verdict, ChooseAlert, StatusRow

\* A change or a failure starts the delays anew, wherever the monitor is.
LEMMA DelaysStartAnew ==
    ASSUME MonitorInv, quiet' = 0, MonitorTimes', UNCHANGED once,
           once => mon' \notin {"beep", "blocked"}
    PROVE  MonitorInv'
<1>1. mspent' \in Nat
  BY DEF MonitorTimes
<1>2. /\ quiet' < Settled + mspent' /\ quiet' < Settled + mspent' + MaxWait
      /\ quiet' < Settled + mspent' + MaxWait + MaxBeep
      /\ quiet' < Settled + mspent' + MaxWait + MaxBeep + Interval
      /\ quiet' <= mspent' /\ quiet' <= Interval + MaxWait
      /\ quiet' <= Interval + MaxWait + mspent' /\ quiet' <= MaxWait + mspent'
  <2>1. \A m \in Nat :
            /\ 0 < Settled + m /\ 0 < Settled + m + MaxWait
            /\ 0 < Settled + m + MaxWait + MaxBeep
            /\ 0 < Settled + m + MaxWait + MaxBeep + Interval
            /\ 0 <= m /\ 0 <= Interval + MaxWait
            /\ 0 <= Interval + MaxWait + m /\ 0 <= MaxWait + m
    BY DEF Settled
  <2>2. quiet' = 0
    OBVIOUS
  <2> QED
    BY <1>1, <2>1, <2>2
<1>3. Settled' = Settled
  BY DEF Settled
<1>4. Delays'
  BY <1>2, <1>3, ZenonT(30) DEF Delays
<1>5. OnceDelays'
  BY <1>2, ZenonT(30) DEF OnceDelays
<1>6. quiet' \in 0 .. Bound
  OBVIOUS
<1> QED
  BY <1>4, <1>5, <1>6 DEF MonitorInv

\* What the heartbeat worker does is nothing to the monitor until it looks.
LEMMA MonitorUntouched ==
    ASSUME MonitorInv, UNCHANGED <<mon, mspent, alert, shown, once, enabled>>,
           quiet' = 0 \/ UNCHANGED <<quiet, alive, scanner, server>>
    PROVE  MonitorInv'
<1>1. MonitorTimes'
  BY DEF MonitorInv, MonitorTimes
<1>2. CASE quiet' = 0
  BY <1>1, <1>2, DelaysStartAnew DEF MonitorInv, OnceDelays
<1>3. CASE UNCHANGED <<quiet, alive, scanner, server>>
  <2>1. TrueAlert' = TrueAlert /\ Verdict' = Verdict
    BY <1>3, SameVerdict
  <2> QED
    BY <1>1, <1>3, <2>1 DEF MonitorInv, MonitorTimes, Delays, OnceDelays
<1> QED
  BY <1>2, <1>3

\* The check: where all has been quiet for long enough it chooses the right alert.
LEMMA CheckKeeps ==
    ASSUME MaxWait <= 3, HeartbeatInv, AliveInv, MonitorInv, Check
    PROVE  MonitorInv'
<1>1. /\ mon = "check" /\ mon' = "record" /\ mspent' = 0
      /\ alert' = ChooseAlert(ServiceRunning, scanner, server)
      /\ UNCHANGED <<alive, scanner, server, shown, enabled, once, quiet>>
  BY DEF Check, GoTo, service, table
<1>2. TrueAlert' = TrueAlert /\ Verdict' = Verdict
  BY <1>1, SameVerdict
<1>3. alert' = TrueAlert \/ quiet < Settled
  <2>1. CASE quiet >= MaxBack + Stale
    <3>1. ServiceRunning = alive
      BY <2>1, HeartbeatTellsTruth
    <3> QED
      BY <1>1, <3>1 DEF TrueAlert, ChooseAlert
  <2> QED
    BY <2>1 DEF Settled, MonitorInv
<1> QED
  BY <1>1, <1>2, <1>3 DEF MonitorInv, MonitorTimes, Delays, OnceDelays, Settled

\* Once recorded the alert is shown, and the time spent on it counts from there.
LEMMA RecordKeeps ==
    ASSUME MonitorInv, Record
    PROVE  MonitorInv'
<1>1. /\ mon = "record" /\ mspent' = 0 /\ shown' = StatusRow(alert)
      /\ mon' = "done" \/ (~once /\ mon' \in {"wait", "beep"})
      /\ UNCHANGED <<alive, scanner, server, enabled, once, quiet>>
  BY DEF Record, GoTo, service
<1>2. TrueAlert' = TrueAlert /\ Verdict' = Verdict
  BY <1>1, SameVerdict
<1>3. shown' = Verdict' \/ quiet' < Settled + MaxWait
  <2>1. alert = TrueAlert \/ quiet < Settled + mspent
    BY <1>1 DEF MonitorInv, Delays
  <2>2. mspent <= MaxWait /\ mspent \in Nat /\ quiet \in Nat
    BY <1>1 DEF MonitorInv, MonitorTimes
  <2>3. alert = TrueAlert => shown' = Verdict
    BY <1>1 DEF Verdict
  <2> QED
    BY <1>1, <1>2, <2>1, <2>2, <2>3 DEF Settled
<1>4. MonitorTimes'
  BY <1>1 DEF MonitorTimes
<1>5. Delays'
  <2>1. mon' \in {"done", "wait", "beep"} /\ quiet \in Nat
    BY <1>1 DEF MonitorInv
  <2>2. shown' = Verdict' \/ (/\ quiet' < Settled + mspent' + MaxWait
                             /\ quiet' < Settled + mspent' + MaxWait + MaxBeep)
    BY <1>1, <1>3, <2>1 DEF Settled
  <2> QED
    BY <2>1, <2>2 DEF Delays, Settled
<1>6. OnceDelays'
  <2>1. once => quiet <= Interval + MaxWait + mspent
    BY <1>1 DEF MonitorInv, OnceDelays
  <2> QED
    BY <1>1, <2>1 DEF OnceDelays
<1> QED
  BY <1>1, <1>4, <1>5, <1>6 DEF MonitorInv

\* Each step of the monitor's loop hands its delay on to the next point.
LEMMA MonitorStepKeeps ==
    ASSUME MaxWait <= 3, HeartbeatInv, AliveInv, MonitorInv, MonitorStep
    PROVE  MonitorInv'
<1>1. CASE IterationFails
  <2>1. mon' = "error" /\ mspent' = 0 /\ quiet' = 0 /\ UNCHANGED once
    BY <1>1 DEF IterationFails, GoTo
  <2> QED
    BY <2>1, DelaysStartAnew DEF MonitorTimes
<1>2. CASE Beep
  <2>1. /\ mon = "beep" /\ UNCHANGED <<alive, scanner, server, shown, enabled, once, alert, quiet>>
        /\ (mon' = "wait" /\ mspent' = 0) \/ UNCHANGED <<mon, mspent>>
    BY <1>2 DEF Beep, GoTo, service, table
  <2>2. TrueAlert' = TrueAlert /\ Verdict' = Verdict
    BY <2>1, SameVerdict
  <2> QED
    BY <2>1, <2>2 DEF MonitorInv, MonitorTimes, Delays, OnceDelays, Settled
<1>3. CASE BackendFails
  <2>1. /\ mon = "beep" /\ UNCHANGED <<alive, scanner, server, shown, enabled, once, alert>>
        /\ (mon' = "error" /\ mspent' = 0 /\ quiet' = 0) \/ UNCHANGED <<mon, mspent, quiet>>
    BY <1>3 DEF BackendFails, GoTo, service, table
  <2>2. CASE mon' = "error" /\ mspent' = 0 /\ quiet' = 0
    BY <2>1, <2>2, DelaysStartAnew DEF MonitorTimes
  <2> QED
    BY <2>1, <2>2, MonitorUntouched
<1>4. CASE RecordError
  <2>1. /\ mon = "error" /\ mon' = "wait" /\ mspent' = 0 /\ UNCHANGED once
        /\ quiet' \in {0, quiet}
    BY <1>4 DEF RecordError, GoTo
  <2>2. quiet <= MaxWait /\ quiet \in 0 .. Bound
    BY <2>1 DEF MonitorInv, MonitorTimes, Delays
  <2> QED
    BY <2>1, <2>2 DEF MonitorInv, MonitorTimes, Delays, OnceDelays, Settled
<1>5. CASE WakeMonitor
  <2>1. /\ mon = "wait" /\ mspent = Interval /\ mon' = "check" /\ mspent' = 0
        /\ UNCHANGED <<alive, scanner, server, shown, enabled, once, quiet>>
    BY <1>5 DEF WakeMonitor, GoTo, service, table
  <2>2. TrueAlert' = TrueAlert /\ Verdict' = Verdict
    BY <2>1, SameVerdict
  <2> QED
    BY <2>1, <2>2 DEF MonitorInv, MonitorTimes, Delays, OnceDelays, Settled
<1> QED
  BY <1>1, <1>2, <1>3, <1>4, <1>5, CheckKeeps, RecordKeeps DEF MonitorStep

\* A second passes for the thread and for the delay alike.
LEMMA TickKeepsMonitor ==
    ASSUME MonitorInv, Tick
    PROVE  MonitorInv'
<1>1. /\ UNCHANGED <<alive, scanner, server, shown, enabled, once, alert, mon>>
      /\ mspent' = IF mon \in {"blocked", "done"} THEN 0 ELSE mspent + 1
      /\ quiet' = IF mon = "blocked" THEN 0 ELSE IF quiet < Bound THEN quiet + 1 ELSE quiet
  BY DEF Tick
<1>2. /\ mon # "check"
      /\ mon \in {"record", "error"} => mspent < MaxWait
      /\ mon = "beep" => mspent < MaxBeep
      /\ mon = "wait" => mspent < Interval
  BY DEF Tick, MonitorPatience
<1>3. TrueAlert' = TrueAlert /\ Verdict' = Verdict
  BY <1>1, SameVerdict
<1>4. quiet' \in 0 .. Bound /\ quiet' <= quiet + 1
  BY <1>1 DEF MonitorInv
<1>5. MonitorTimes'
  BY <1>1, <1>2 DEF MonitorInv, MonitorTimes
<1>6. Delays' /\ OnceDelays'
  BY <1>1, <1>2, <1>3, <1>4, <1>5 DEF MonitorInv, MonitorTimes, Delays, OnceDelays, Settled
<1> QED
  BY <1>4, <1>5, <1>6 DEF MonitorInv

\* Every step keeps the monitor's delays.
LEMMA NextMonitor ==
    ASSUME MaxWait <= 3, HeartbeatInv, AliveInv, MonitorInv, [Next]_vars
    PROVE  MonitorInv'
<1>1. CASE \/ UNCHANGED vars \/ HeartbeatStep
           \/ ServiceStarts \/ ServiceEnds \/ ServiceReports \/ SetClock
  <2>1. /\ UNCHANGED <<mon, mspent, alert, shown, once, enabled>>
        /\ quiet' = 0 \/ UNCHANGED <<quiet, alive, scanner, server>>
    BY <1>1 DEF vars, service, table, monitor, HeartbeatStep, Heartbeat, PersistStorage,
                HeartbeatFails, WakeHeartbeat, ServiceStarts, ServiceEnds, ServiceReports, SetClock
  <2> QED
    BY <2>1, MonitorUntouched
<1>2. CASE PlayerBlocks \/ PlayerReturns \/ MonitorEnds \/ MonitorStarts
  <2>1. /\ quiet' = 0 /\ mspent' = 0 /\ UNCHANGED once
        /\ mon' \in {"blocked", "beep", "done", "check"}
        /\ mon' \in {"blocked", "beep"} => mon \in {"blocked", "beep"}
    BY <1>2 DEF PlayerBlocks, PlayerReturns, MonitorEnds, MonitorStarts, GoTo
  <2>2. once => mon' \notin {"beep", "blocked"}
    BY <2>1 DEF MonitorInv, OnceDelays
  <2>3. MonitorTimes'
    BY <2>1 DEF MonitorTimes
  <2> QED
    BY <2>1, <2>2, <2>3, DelaysStartAnew
<1> QED
  BY <1>1, <1>2, MonitorStepKeeps, TickKeepsMonitor DEF Next

AllInv == HeartbeatInv /\ AliveInv /\ MonitorInv

\* The three invariants together hold at first, and every step keeps them.
LEMMA InitAll == Init => AllInv
BY InitHeartbeat, InitAlive, InitMonitor DEF AllInv

\* The step needs the heartbeat to tell the living from the dead.
LEMMA NextAll ==
    ASSUME MaxWait <= 3
    PROVE  AllInv /\ [Next]_vars => AllInv'
BY NextHeartbeat, NextAlive, NextMonitor DEF AllInv

\* The recorded verdict is right Bound seconds after the last change or failure,
\* for any interval, any beep pattern and any setting of the clock: dead services
\* are alerted about, living ones are not.
THEOREM VerdictsAreTimely ==
    ASSUME MaxWait <= 3
    PROVE  Spec => []VerdictIsTimely
<1>1. AllInv => VerdictIsTimely
  <2> SUFFICES ASSUME MonitorInv, quiet = Bound, mon # "done" PROVE shown = Verdict
    BY DEF AllInv, VerdictIsTimely, Verdict, TrueAlert
  <2>1. mon \in {"check", "record", "beep", "blocked", "error", "wait"} /\ mspent \in Nat
    BY DEF MonitorInv, MonitorTimes
  <2>2. CASE mon = "check"
    <3>1. mspent = 0
      BY <2>2 DEF MonitorInv, MonitorTimes
    <3> QED
      BY <2>2, <3>1 DEF MonitorInv, Delays, Settled
  <2>3. CASE mon = "record"
    BY <2>3 DEF MonitorInv, MonitorTimes, Delays, Settled
  <2>4. CASE mon = "beep"
    BY <2>4 DEF MonitorInv, MonitorTimes, Delays, Settled
  <2>5. CASE mon = "blocked" \/ mon = "error"
    BY <2>5 DEF MonitorInv, MonitorTimes, Delays
  <2>6. CASE mon = "wait"
    BY <2>6 DEF MonitorInv, MonitorTimes, Delays, Settled
  <2> QED
    BY <2>1, <2>2, <2>3, <2>4, <2>5, <2>6
<1> QED
  BY InitAll, NextAll, <1>1, PTL DEF Spec

\* monitor --once has ended one wait and two waits for a lock after the last change
\* or failure.
THEOREM OnceEndsInTime ==
    ASSUME MaxWait <= 3
    PROVE  Spec => []OnceIsPrompt
<1>1. AllInv => OnceIsPrompt
  BY DEF AllInv, OnceIsPrompt, MonitorInv, MonitorTimes, OnceDelays
<1> QED
  BY InitAll, NextAll, <1>1, PTL DEF Spec

-----------------------------------------------------------------------------
(* Types, and the player *)

Elements(s) == {s[i] : i \in 1 .. Len(s)}

\* What the types say of the service and of the table, and of the monitor, with how
\* long each thread has been where it is, and the stamp that the clock may have moved.
ServiceTypes ==
    /\ alive \in BOOLEAN /\ hpc \in {"off", "write", "storage", "sleep"}
    /\ hspent \in 0 .. Longest /\ stamp \in -MaxBack .. MaxWait + MaxBack + 1
    /\ age \in -MaxBack .. Stale /\ scanner \in BOOLEAN /\ server \in BOOLEAN
    /\ hpc = "off" => hspent = 0
    /\ hpc \in {"write", "storage"} => hspent <= MaxWait
    /\ hpc = "sleep" => hspent <= HeartbeatPeriod
    /\ IF hpc = "write" THEN stamp - hspent \in -MaxBack .. MaxBack + 1 ELSE stamp = 0

MonitorTypes ==
    /\ shown \in [state : {"disabled", "healthy", "alerting", "error"}, alert : Alerts]
    /\ enabled \in BOOLEAN /\ once \in BOOLEAN
    /\ mon \in {"check", "record", "beep", "blocked", "error", "wait", "done"}
    /\ mspent \in 0 .. Interval + MaxWait + MaxBeep /\ alert \in Alerts
    /\ mon \in {"check", "blocked", "done"} => mspent = 0
    /\ mon \in {"record", "error"} => mspent <= MaxWait
    /\ mon = "beep" => mspent <= MaxBeep
    /\ mon = "wait" => mspent <= Interval

\* While a pattern is played every backend that may be used has failed for this beep
\* or is still to be tried, and the one that is remembered is still to be tried.
Playing ==
    /\ left >= 1 /\ candidates # << >>
    /\ failed \cup Elements(candidates) = Allowed
    /\ remembered \in Elements(candidates) \cup {NoBackend}

PlayerInv ==
    /\ ~automatic => remembered = NoBackend
    /\ mon \in {"beep", "blocked"} => Playing
    /\ mon = "error" => failed = {} \/ (failed = Allowed /\ remembered = NoBackend)

TypeInv == ServiceTypes /\ MonitorTypes /\ PlayerTypeOK /\ PlayerInv /\ quiet \in 0 .. Bound

\* Whatever is remembered, every backend that may be used is a candidate, and the
\* remembered one is the first.
LEMMA CandidatesCover ==
    ASSUME NEW b \in Backends \cup {NoBackend}, ~automatic => b = NoBackend
    PROVE  /\ Candidates(b) \in Seq(Backends \cup {Fixed})
           /\ Len(Candidates(b)) \in 1 .. Len(AutoBackends)
           /\ Elements(Candidates(b)) = Allowed
           /\ b \in Elements(Candidates(b)) \cup {NoBackend}
<1>1. /\ Len(AutoBackends) = 3 /\ 1 .. Len(AutoBackends) = {1, 2, 3}
      /\ Backends = {"aplay", "beep", "console_bell"}
  BY DEF AutoBackends, Backends
<1>2. CASE ~automatic
  BY <1>1, <1>2 DEF Candidates, Elements, Allowed
<1>3. CASE automatic /\ b = NoBackend
  BY <1>1, <1>3 DEF Candidates, Elements, Allowed, Backends, AutoBackends
<1>4. CASE automatic /\ b \in Backends
  <2>1. b # NoBackend
    BY <1>1, <1>4 DEF NoBackend
  <2>2. Position(b) \in 1 .. 3 /\ AutoBackends[Position(b)] = b
    BY <1>1, <1>4 DEF Position, Backends
  <2> DEFINE c == Candidates(b)
  <2>3. c = [i \in 1 .. 3 |-> IF i = 1 THEN b
                              ELSE IF i <= Position(b) THEN AutoBackends[i - 1]
                              ELSE AutoBackends[i]]
    BY <1>1, <1>4, <2>1 DEF Candidates
  <2>4. \A i \in 1 .. 3 : c[i] \in Backends
    BY <1>1, <1>4, <2>2, <2>3 DEF AutoBackends
  <2>5. c \in Seq(Backends \cup {Fixed}) /\ Len(c) = 3 /\ 1 .. Len(c) = {1, 2, 3}
    BY <2>3, <2>4
  <2>6. {c[1], c[2], c[3]} = Backends
    <3>1. CASE Position(b) = 1
      BY <1>1, <2>2, <2>3, <3>1 DEF AutoBackends
    <3>2. CASE Position(b) = 2
      BY <1>1, <2>2, <2>3, <3>2 DEF AutoBackends
    <3>3. CASE Position(b) = 3
      BY <1>1, <2>2, <2>3, <3>3 DEF AutoBackends
    <3> QED
      BY <2>2, <3>1, <3>2, <3>3
  <2>7. Elements(c) = Backends
    BY <2>5, <2>6 DEF Elements
  <2> QED
    BY <1>1, <1>4, <2>5, <2>7 DEF Allowed
<1> QED
  BY <1>2, <1>3, <1>4

\* A pattern starts with every backend it may use still to be tried.
LEMMA PatternStarts ==
    ASSUME PlayerTypeOK, ~automatic => remembered = NoBackend,
           NEW n \in Nat \ {0}, StartPattern(n)
    PROVE  PlayerTypeOK' /\ Playing' /\ UNCHANGED <<automatic, remembered>>
<1>1. /\ left' = n /\ candidates' = Candidates(remembered) /\ failed' = {}
      /\ UNCHANGED <<automatic, remembered>>
  BY DEF StartPattern
<1>2. remembered \in Backends \cup {NoBackend}
  BY DEF PlayerTypeOK
<1>3. /\ candidates' \in Seq(Backends \cup {Fixed}) /\ candidates' # << >>
      /\ Len(candidates') <= Len(AutoBackends)
      /\ Elements(candidates') = Allowed
      /\ remembered \in Elements(candidates') \cup {NoBackend}
  BY <1>1, <1>2, CandidatesCover DEF AutoBackends
<1>4. Allowed' = Allowed /\ Elements(candidates)' = Elements(candidates')
  BY <1>1 DEF Allowed, Elements
<1>5. PlayerTypeOK'
  BY <1>1, <1>3 DEF PlayerTypeOK
<1>6. Playing'
  BY <1>1, <1>3, <1>4 DEF Playing
<1> QED
  BY <1>1, <1>5, <1>6

\* A beep that is played is remembered, and the next one starts from there.
LEMMA BeepIsPlayed ==
    ASSUME PlayerTypeOK, Playing, ~automatic => remembered = NoBackend, BeepWorks
    PROVE  /\ PlayerTypeOK' /\ (left # 1 => Playing')
           /\ UNCHANGED automatic /\ (~automatic => remembered' = NoBackend)
<1>1. /\ candidates \in Seq(Backends \cup {Fixed}) /\ candidates # << >>
      /\ left \in Nat /\ left >= 1 /\ automatic \in BOOLEAN
      /\ remembered \in Backends \cup {NoBackend}
      /\ failed \cup Elements(candidates) = Allowed
  BY DEF PlayerTypeOK, Playing
<1>2. Head(candidates) \in Elements(candidates)
  BY <1>1 DEF Elements
<1>3. automatic => Head(candidates) \in Backends
  BY <1>1, <1>2 DEF Allowed
<1>4. UNCHANGED automatic /\ (~automatic => remembered' = NoBackend)
  BY DEF BeepWorks
<1>5. remembered' \in Backends \cup {NoBackend}
  BY <1>1, <1>3 DEF BeepWorks
<1>6. /\ left' \in Nat /\ failed' = {} /\ (left # 1 => left' >= 1)
      /\ candidates' = IF left = 1 THEN << >> ELSE Candidates(remembered')
  BY <1>1 DEF BeepWorks
<1> PICK b : b = remembered'
  OBVIOUS
<1>7. /\ Candidates(b) \in Seq(Backends \cup {Fixed})
      /\ Len(Candidates(b)) \in 1 .. Len(AutoBackends)
      /\ Elements(Candidates(b)) = Allowed
      /\ b \in Elements(Candidates(b)) \cup {NoBackend}
  BY <1>4, <1>5, CandidatesCover
<1>8. Len(AutoBackends) = 3
  BY DEF AutoBackends
<1>9. PlayerTypeOK'
  <2>1. candidates' \in Seq(Backends \cup {Fixed}) /\ Len(candidates') <= Len(AutoBackends)
    <3>1. CASE left = 1
      BY <1>6, <1>8, <3>1
    <3>2. CASE left # 1
      BY <1>6, <1>7, <3>2
    <3> QED
      BY <3>1, <3>2
  <2>2. automatic' \in BOOLEAN
    BY <1>1, <1>4
  <2> QED
    BY <1>5, <1>6, <2>1, <2>2 DEF PlayerTypeOK
<1>10. ASSUME left # 1 PROVE Playing'
  <2>1. candidates' = Candidates(b)
    BY <1>6, <1>10
  <2>2. candidates' # << >> /\ Elements(candidates') = Allowed
    BY <1>7, <2>1
  <2>3. Allowed' = Allowed /\ Elements(candidates)' = Elements(candidates')
    BY <1>4 DEF Allowed, Elements
  <2> QED
    BY <1>6, <1>7, <1>10, <2>1, <2>2, <2>3 DEF Playing
<1> QED
  BY <1>4, <1>9, <1>10

\* A backend that fails goes from the ones to be tried to the ones that failed, and
\* is no longer remembered.
LEMMA BackendIsPassedOver ==
    ASSUME PlayerTypeOK, Playing, ~automatic => remembered = NoBackend, BeepFails
    PROVE  /\ PlayerTypeOK' /\ UNCHANGED automatic
           /\ (~automatic => remembered' = NoBackend)
           /\ IF Len(candidates) = 1 THEN failed' = Allowed' /\ remembered' = NoBackend
              ELSE Playing'
<1>1. /\ candidates \in Seq(Backends \cup {Fixed}) /\ candidates # << >>
      /\ Len(candidates) <= Len(AutoBackends)
      /\ left \in Nat /\ left >= 1 /\ automatic \in BOOLEAN
      /\ remembered \in Backends \cup {NoBackend}
      /\ failed \subseteq Backends \cup {Fixed}
      /\ failed \cup Elements(candidates) = Allowed
      /\ remembered \in Elements(candidates) \cup {NoBackend}
  BY DEF PlayerTypeOK, Playing
<1>2. /\ remembered' = IF Head(candidates) = remembered THEN NoBackend ELSE remembered
      /\ failed' = failed \cup {Head(candidates)} /\ candidates' = Tail(candidates)
      /\ left' = IF Len(candidates) = 1 THEN 0 ELSE left
      /\ UNCHANGED automatic
  BY DEF BeepFails
<1>3. Len(candidates) \in Nat /\ Len(candidates) >= 1
  BY <1>1
<1>4. /\ Tail(candidates) \in Seq(Backends \cup {Fixed})
      /\ Len(Tail(candidates)) = Len(candidates) - 1
      /\ Head(candidates) = candidates[1] /\ Head(candidates) \in Backends \cup {Fixed}
      /\ \A i \in 1 .. (Len(candidates) - 1) : Tail(candidates)[i] = candidates[i + 1]
  BY <1>1
<1>5. Elements(candidates) = {Head(candidates)} \cup Elements(Tail(candidates))
  <2>1. ASSUME NEW i \in 1 .. Len(candidates)
        PROVE  candidates[i] \in {Head(candidates)} \cup Elements(Tail(candidates))
    <3>1. CASE i = 1
      BY <1>4, <3>1
    <3>2. CASE i # 1
      <4>1. i - 1 \in 1 .. Len(Tail(candidates)) /\ candidates[i] = Tail(candidates)[i - 1]
        BY <1>3, <1>4, <3>2
      <4> QED
        BY <4>1 DEF Elements
    <3> QED
      BY <3>1, <3>2
  <2>2. ASSUME NEW i \in 1 .. Len(Tail(candidates))
        PROVE  Tail(candidates)[i] \in Elements(candidates)
    <3>1. i + 1 \in 1 .. Len(candidates) /\ Tail(candidates)[i] = candidates[i + 1]
      BY <1>3, <1>4
    <3> QED
      BY <3>1 DEF Elements
  <2>3. Head(candidates) \in Elements(candidates)
    BY <1>3, <1>4 DEF Elements
  <2> QED
    BY <2>1, <2>2, <2>3 DEF Elements
<1>6. Allowed' = Allowed /\ Elements(candidates)' = Elements(Tail(candidates))
  BY <1>2 DEF Allowed, Elements
<1>7. /\ failed' \cup Elements(Tail(candidates)) = Allowed
      /\ remembered' \in Elements(Tail(candidates)) \cup {NoBackend}
  BY <1>1, <1>2, <1>5
<1>8. PlayerTypeOK'
  <2>1. remembered' \in Backends \cup {NoBackend} /\ left' \in Nat
    BY <1>1, <1>2
  <2>2. /\ candidates' \in Seq(Backends \cup {Fixed})
        /\ Len(candidates') <= Len(AutoBackends)
    <3>1. Len(AutoBackends) = 3
      BY DEF AutoBackends
    <3> QED
      BY <1>1, <1>2, <1>3, <1>4, <3>1
  <2>3. failed' \subseteq Backends \cup {Fixed} /\ automatic' \in BOOLEAN
    BY <1>1, <1>2, <1>4
  <2> QED
    BY <2>1, <2>2, <2>3 DEF PlayerTypeOK
<1>9. CASE Len(candidates) = 1
  <2>1. Elements(Tail(candidates)) = {}
    BY <1>4, <1>9 DEF Elements
  <2> QED
    BY <1>2, <1>6, <1>7, <1>8, <1>9, <2>1
<1>10. CASE Len(candidates) # 1
  <2>1. Tail(candidates) # << >>
    BY <1>3, <1>4, <1>10
  <2>2. Playing'
    BY <1>1, <1>2, <1>6, <1>7, <1>10, <2>1 DEF Playing
  <2> QED
    BY <1>2, <1>8, <1>10, <2>2
<1> QED
  BY <1>9, <1>10

\* The service and its heartbeat keep their types, whatever the clock is set to.
LEMMA NextServiceTypes ==
    ASSUME ServiceTypes, [Next]_vars
    PROVE  ServiceTypes'
<1>1. Longest \in Nat /\ MaxWait <= Longest /\ HeartbeatPeriod <= Longest
  BY DEF Longest
<1> USE <1>1 DEF ServiceTypes, service, table, At
<1> HIDE DEF Bound
<1>2. CASE UNCHANGED vars
  BY <1>2 DEF vars
<1>3. CASE ServiceStarts \/ ServiceEnds
  <2>1. alive' \in BOOLEAN /\ UNCHANGED <<age, scanner, server>>
    BY <1>3 DEF ServiceStarts, ServiceEnds
  <2>2. \/ hpc' = "write" /\ hspent' = 0 /\ stamp' \in {0, 1}
        \/ hpc' = "off" /\ hspent' = 0 /\ stamp' = 0
    BY <1>3 DEF ServiceStarts, ServiceEnds, TakesStamp
  <2> QED
    BY <2>1, <2>2
<1>4. CASE Heartbeat
  <2>1. hpc = "write" /\ hpc' = "storage" /\ hspent' = 0 /\ stamp' = 0
    BY <1>4 DEF Heartbeat
  <2>2. age' = (IF stamp > Stale THEN Stale ELSE stamp) /\ UNCHANGED <<alive, scanner, server>>
    BY <1>4 DEF Heartbeat
  <2>3. stamp >= -MaxBack
    BY <2>1
  <2> QED
    BY <2>1, <2>2, <2>3
<1>5. CASE PersistStorage \/ HeartbeatFails
  BY <1>5 DEF PersistStorage, HeartbeatFails
<1>6. CASE WakeHeartbeat
  <2>1. /\ hpc' = "write" /\ hspent' = 0 /\ UNCHANGED <<alive, age, scanner, server>>
        /\ stamp' = 0 \/ stamp' = 1
    BY <1>6 DEF WakeHeartbeat, TakesStamp
  <2>2. \A n \in {0, 1} : /\ n \in -MaxBack .. MaxWait + MaxBack + 1
                          /\ n - 0 \in -MaxBack .. MaxBack + 1
    OBVIOUS
  <2>3. CASE stamp' = 0
    BY <2>1, <2>2, <2>3
  <2>4. CASE stamp' = 1
    BY <2>1, <2>2, <2>4
  <2> QED
    BY <2>1, <2>3, <2>4
<1>7. CASE ServiceReports
  BY <1>7 DEF ServiceReports
<1>8. CASE MonitorStep \/ PlayerBlocks \/ PlayerReturns \/ MonitorEnds \/ MonitorStarts
  <2>1. UNCHANGED <<service, age, scanner, server>>
    BY <1>8 DEF MonitorStep, Check, Record, Beep, BackendFails, RecordError, WakeMonitor,
                IterationFails, PlayerBlocks, PlayerReturns, MonitorEnds, MonitorStarts
  <2> QED
    BY <2>1
<1>9. CASE Tick
  <2>1. /\ hspent' = IF hpc = "off" THEN 0 ELSE hspent + 1
        /\ stamp' = IF hpc = "write" THEN stamp + 1 ELSE 0
        /\ age' = IF age < Stale THEN age + 1 ELSE age
        /\ UNCHANGED <<alive, hpc, scanner, server>>
    BY <1>9 DEF Tick
  <2>2. /\ hpc = "sleep" => hspent < HeartbeatPeriod
        /\ hpc \in {"write", "storage"} => hspent < MaxWait
    BY <1>9 DEF Tick, HeartbeatPatience
  <2> QED
    BY <2>1, <2>2
<1>10. CASE SetClock
  <2>1. PICK d \in -MaxBack .. MaxBack :
            /\ age + d >= -MaxBack
            /\ hpc = "write" => stamp + d - hspent \in -MaxBack .. MaxBack + 1
            /\ age' = IF age + d > Stale THEN Stale ELSE age + d
            /\ stamp' = IF hpc = "write" THEN stamp + d ELSE 0
            /\ UNCHANGED <<alive, hpc, hspent, scanner, server>>
    BY <1>10 DEF SetClock
  <2> QED
    BY <2>1
<1> QED
  BY <1>2, <1>3, <1>4, <1>5, <1>6, <1>7, <1>8, <1>9, <1>10 DEF Next, HeartbeatStep

\* So does the monitor.
LEMMA NextMonitorTypes ==
    ASSUME MonitorTypes, [Next]_vars
    PROVE  MonitorTypes'
<1> USE DEF MonitorTypes, monitor, table, GoTo
<1> HIDE DEF Bound
<1>1. CASE \/ UNCHANGED vars \/ HeartbeatStep
           \/ ServiceStarts \/ ServiceEnds \/ ServiceReports \/ SetClock
  <2>1. UNCHANGED <<shown, enabled, once, mon, mspent, alert>>
    BY <1>1 DEF vars, HeartbeatStep, Heartbeat, PersistStorage, HeartbeatFails, WakeHeartbeat,
                ServiceStarts, ServiceEnds, ServiceReports, SetClock
  <2> QED
    BY <2>1
<1>2. CASE Check
  <2>1. alert' \in Alerts
    BY <1>2 DEF Check, ChooseAlert, Alerts
  <2> QED
    BY <1>2, <2>1 DEF Check
<1>3. CASE Record
  <2>1. /\ StatusRow(alert) \in [state : {"disabled", "healthy", "alerting", "error"}, alert : Alerts]
        /\ "none" \in Alerts
    BY DEF StatusRow, Alerts
  <2>2. /\ shown' = StatusRow(alert) /\ alert' = "none" /\ UNCHANGED <<enabled, once>>
        /\ mon' \in {"done", "wait", "beep"} /\ mspent' = 0
    BY <1>3 DEF Record
  <2> QED
    BY <2>1, <2>2
<1>4. CASE Beep \/ BackendFails
  <2>1. /\ UNCHANGED <<shown, enabled, once, alert>>
        /\ \/ mon' \in {"wait", "error"} /\ mspent' = 0
           \/ UNCHANGED <<mon, mspent>>
    BY <1>4 DEF Beep, BackendFails
  <2> QED
    BY <2>1
<1>5. CASE IterationFails \/ MonitorEnds \/ MonitorStarts
  <2>1. "none" \in Alerts
    BY DEF Alerts
  <2> QED
    BY <1>5, <2>1 DEF IterationFails, MonitorEnds, MonitorStarts
<1>6. CASE RecordError
  <2>1. shown' \in [state : {"disabled", "healthy", "alerting", "error"}, alert : Alerts]
    BY <1>6 DEF RecordError
  <2>2. mon' = "wait" /\ mspent' = 0 /\ UNCHANGED <<enabled, once, alert>>
    BY <1>6 DEF RecordError
  <2> QED
    BY <2>1, <2>2
<1>7. CASE WakeMonitor \/ PlayerBlocks \/ PlayerReturns
  BY <1>7 DEF WakeMonitor, PlayerBlocks, PlayerReturns
<1>8. CASE Tick
  <2>1. /\ mspent' = IF mon \in {"blocked", "done"} THEN 0 ELSE mspent + 1
        /\ UNCHANGED <<shown, enabled, once, mon, alert>>
    BY <1>8 DEF Tick
  <2>2. /\ mon # "check"
        /\ mon \in {"record", "error"} => mspent < MaxWait
        /\ mon = "beep" => mspent < MaxBeep
        /\ mon = "wait" => mspent < Interval
    BY <1>8 DEF Tick, MonitorPatience
  <2> QED
    BY <2>1, <2>2
<1> QED
  BY <1>1, <1>2, <1>3, <1>4, <1>5, <1>6, <1>7, <1>8 DEF Next, MonitorStep

\* A player that is left alone is what it was, at every point that does not say more.
LEMMA PlayerLeftAlone ==
    ASSUME PlayerTypeOK, PlayerInv, UNCHANGED player,
           mon' \in {"beep", "blocked"} => mon \in {"beep", "blocked"},
           mon' = "error" => mon = "error"
    PROVE  PlayerTypeOK' /\ PlayerInv'
<1>1. UNCHANGED <<automatic, remembered, candidates, left, failed>>
  BY DEF player
<1> QED
  BY <1>1 DEF PlayerTypeOK, PlayerInv, Playing, Allowed, Elements

\* A player with nothing to play.
LEMMA PlayerIdles ==
    ASSUME PlayerTypeOK, PlayerInv, candidates' = << >>, left' = 0, failed' = {},
           remembered' \in {remembered, NoBackend}, UNCHANGED automatic,
           mon' \notin {"beep", "blocked"}
    PROVE  PlayerTypeOK' /\ PlayerInv'
<1>1. candidates' \in Seq(Backends \cup {Fixed}) /\ Len(candidates') <= Len(AutoBackends)
  BY DEF AutoBackends
<1>2. PlayerTypeOK'
  BY <1>1 DEF PlayerTypeOK
<1>3. PlayerInv'
  BY DEF PlayerInv
<1> QED
  BY <1>2, <1>3

\* Every step of the monitor keeps the backends that failed and the ones that are
\* still to be tried together.
LEMMA NextPlayer ==
    ASSUME MonitorTypes, PlayerTypeOK, PlayerInv, [Next]_vars
    PROVE  PlayerTypeOK' /\ PlayerInv'
<1>1. CASE \/ UNCHANGED vars \/ HeartbeatStep \/ Tick
           \/ ServiceStarts \/ ServiceEnds \/ ServiceReports \/ SetClock
  <2>1. UNCHANGED <<player, mon>>
    BY <1>1 DEF vars, monitor, HeartbeatStep, Heartbeat, PersistStorage, HeartbeatFails,
                WakeHeartbeat, Tick, ServiceStarts, ServiceEnds, ServiceReports, SetClock
  <2> QED
    BY <2>1, PlayerLeftAlone
<1>2. CASE Check \/ WakeMonitor \/ PlayerBlocks \/ PlayerReturns \/ MonitorStarts
  <2>1. /\ UNCHANGED player /\ mon' # "error"
        /\ mon' \in {"beep", "blocked"} => mon \in {"beep", "blocked"}
    BY <1>2 DEF Check, WakeMonitor, PlayerBlocks, PlayerReturns, MonitorStarts, GoTo
  <2> QED
    BY <2>1, PlayerLeftAlone
<1>3. CASE IterationFails \/ RecordError \/ MonitorEnds
  <2>1. /\ candidates' = << >> /\ left' = 0 /\ failed' = {} /\ UNCHANGED automatic
        /\ remembered' \in {remembered, NoBackend} /\ mon' \in {"error", "wait", "done"}
    BY <1>3 DEF IterationFails, RecordError, MonitorEnds, GoTo, GiveUpPattern, StartPlayer
  <2> QED
    BY <2>1, PlayerIdles
<1>4. CASE Record
  <2>1. CASE UNCHANGED player /\ mon' \in {"done", "wait"}
    BY <2>1, PlayerLeftAlone
  <2>2. CASE alert # "none" /\ mon' = "beep" /\ StartPattern(BeepCount[alert])
    <3>1. BeepCount[alert] \in Nat \ {0}
      BY <2>2, AlertsAssumption, BeepCountAssumption DEF MonitorTypes
    <3>2. PlayerTypeOK' /\ Playing' /\ UNCHANGED <<automatic, remembered>>
      BY <2>2, <3>1, PatternStarts DEF PlayerInv
    <3> QED
      BY <2>2, <3>2 DEF PlayerInv
  <2> QED
    BY <1>4, <2>1, <2>2 DEF Record, GoTo
<1>5. CASE Beep
  <2>1. mon = "beep" /\ BeepWorks /\ (IF left = 1 THEN mon' = "wait" ELSE mon' = mon)
    BY <1>5 DEF Beep, GoTo
  <2>2. /\ PlayerTypeOK' /\ (left # 1 => Playing')
        /\ UNCHANGED automatic /\ (~automatic => remembered' = NoBackend)
    BY <2>1, BeepIsPlayed DEF PlayerInv
  <2> QED
    BY <2>1, <2>2 DEF PlayerInv
<1>6. CASE BackendFails
  <2>1. /\ mon = "beep" /\ BeepFails
        /\ IF Len(candidates) = 1 THEN mon' = "error" ELSE mon' = mon
    BY <1>6 DEF BackendFails, GoTo
  <2>2. /\ PlayerTypeOK' /\ UNCHANGED automatic
        /\ (~automatic => remembered' = NoBackend)
        /\ IF Len(candidates) = 1 THEN failed' = Allowed' /\ remembered' = NoBackend
           ELSE Playing'
    BY <2>1, BackendIsPassedOver DEF PlayerInv
  <2> QED
    BY <2>1, <2>2 DEF PlayerInv
<1> QED
  BY <1>1, <1>2, <1>3, <1>4, <1>5, <1>6 DEF Next, MonitorStep

\* The monitor and the service start within their types, with nothing to play.
LEMMA InitTypeInv == Init => TypeInv
<1> SUFFICES ASSUME Init PROVE TypeInv
  OBVIOUS
<1>1. ServiceTypes
  <2>1. /\ alive = FALSE /\ hpc = "off" /\ hspent = 0 /\ stamp = 0 /\ age = Stale
        /\ scanner = FALSE /\ server = FALSE
    BY DEF Init, Never
  <2>2. Longest \in Nat
    BY DEF Longest
  <2>3. alive \in BOOLEAN /\ scanner \in BOOLEAN /\ server \in BOOLEAN
    BY <2>1
  <2> QED
    BY <2>1, <2>2, <2>3 DEF ServiceTypes
<1>2. MonitorTypes
  BY DEF Init, MonitorTypes, StatusRow, Alerts
<1>3. automatic \in BOOLEAN /\ remembered = NoBackend
  BY DEF Init, InitPlayer
<1>4. candidates = << >> /\ left = 0 /\ failed = {} /\ mon = "check"
  BY DEF Init, InitPlayer
<1>5. PlayerTypeOK
  BY <1>3, <1>4 DEF PlayerTypeOK, AutoBackends
<1>6. PlayerInv
  BY <1>3, <1>4 DEF PlayerInv
<1>7. quiet \in 0 .. Bound
  BY DEF Init
<1> QED
  BY <1>1, <1>2, <1>5, <1>6, <1>7 DEF TypeInv

\* Every step keeps all of it.
LEMMA NextTypeInv == TypeInv /\ [Next]_vars => TypeInv'
<1> SUFFICES ASSUME TypeInv, [Next]_vars PROVE TypeInv'
  OBVIOUS
<1>1. quiet' \in {0, quiet} \/ (quiet < Bound /\ quiet' = quiet + 1)
  <2>1. CASE Tick
    BY <2>1 DEF Tick
  <2>2. CASE ~Tick
    BY <2>2 DEF vars, Next, HeartbeatStep, Heartbeat, PersistStorage, HeartbeatFails,
                WakeHeartbeat, MonitorStep, Check, Record, Beep, BackendFails, RecordError,
                WakeMonitor, IterationFails, ServiceStarts, ServiceEnds, ServiceReports,
                PlayerBlocks, PlayerReturns, SetClock, MonitorEnds, MonitorStarts
  <2> QED
    BY <2>1, <2>2
<1>2. quiet' \in 0 .. Bound
  BY <1>1 DEF TypeInv
<1> QED
  BY <1>2, NextServiceTypes, NextMonitorTypes, NextPlayer DEF TypeInv

\* Every variable keeps its type: no thread stays where it is for longer than its
\* waits allow, and the clock moves no stamp out of its range, for any interval, any
\* wait, any beep pattern and any setting of the clock.
THEOREM MonitorTyped == Spec => []TypeOK
<1>1. TypeInv => TypeOK
  BY DEF TypeInv, ServiceTypes, MonitorTypes, TypeOK
<1> QED
  BY InitTypeInv, NextTypeInv, <1>1, PTL DEF Spec

\* A beep is given up only after every backend that may be used has failed for it,
\* for any backend that is configured and however many beeps a pattern has.
THEOREM SilenceIsExplained == Spec => []SilentOnlyIfAllFailed
<1>1. TypeInv => SilentOnlyIfAllFailed
  BY DEF TypeInv, PlayerInv, SilentOnlyIfAllFailed
<1> QED
  BY InitTypeInv, NextTypeInv, <1>1, PTL DEF Spec

=============================================================================
