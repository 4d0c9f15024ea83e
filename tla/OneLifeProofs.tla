---------------------------- MODULE OneLifeProofs ----------------------------
(***************************************************************************)
(* What the scanner service promises within one life of its process: scans *)
(* leave in capture order, none leaves twice unless a call fails, a failed *)
(* attempt is recorded on the row that was sent, and the status is         *)
(* truthful; for any number of scans and any retry interval.               *)
(***************************************************************************)
EXTENDS ForwardingProofs

USE MaxScansAssumption, RetryTicksAssumption

-----------------------------------------------------------------------------
(* Two clocks agree: while the worker sleeps a retry interval out, no row's *)
(* retry time is further away than the end of that sleep, and whenever it   *)
(* is awake every row's time has come.                                      *)

\* A worker lives only inside a process, and a process starts with an empty queue.
FirstLife ==
    /\ mpc = "off" => dpc = "off"
    /\ mpc = "initialize" => dpc = "off" /\ Present(rows) = {} /\ handed = {}

\* The worker sleeps at one place.
SleepsInPlace == sleep > 0 => dpc = "retry_sleep"

\* No row waits longer than the worker sleeps, unless the wall clock is set.
WaitsWithinSleep ==
    ~ClockMoves /\ dpc # "off" => \A i \in Present(rows) : rows[i].wait <= sleep

LifeInv == FirstLife /\ SleepsInPlace /\ WaitsWithinSleep

\* Nothing exists in the beginning.
LEMMA InitLife == Init => LifeInv
<1> SUFFICES ASSUME Init PROVE LifeInv
  OBVIOUS
<1>1. Present(rows) = {}
  BY DEF Init, EmptyTable, Absent, Present
<1> QED
  BY <1>1 DEF Init, LifeInv, FirstLife, SleepsInPlace, WaitsWithinSleep

\* The main thread starts the worker, or takes it with it, or leaves it alone.
LEMMA MainStepLife ==
    ASSUME MainStep
    PROVE  /\ UNCHANGED <<rows, handed>>
           /\ mpc' # "initialize"
           /\ \/ mpc = "initialize" /\ mpc' = "enter" /\ dpc' = "loop" /\ UNCHANGED <<sleep, scan>>
              \/ dpc' = "off" /\ sleep' = 0 /\ scan' = NoScan
              \/ UNCHANGED worker /\ mpc # "off" /\ mpc' # "off"
BY DEF MainStep, Initialize, InitializeFails, EnterScannerLoop, StopRequested, Discover,
   OpenDevice, PersistScannerState, PersistFails, PersistScannerStateSafely, AfterPersist,
   WakeFromNap, ReadFails, SetLastScanId, JoinWorker, WriteStopped, Exit, ProcessGone,
   Finally, Update, db, history

\* The worker goes to sleep for the interval, or is awake, touches no retry
\* time but by ending it, and stays awake.
LEMMA WorkerLife ==
    ASSUME WorkerNext
    PROVE  /\ dpc # "off" /\ dpc' # "off" /\ mpc' = mpc
           /\ \/ dpc' = "retry_sleep" /\ sleep' = RetryTicks
              \/ /\ sleep' = sleep
                 /\ dpc = "retry_sleep" => sleep = 0
                 /\ \/ rows' = rows
                    \/ rows' = MarkSent(rows, scan.id)
                    \/ \E gone : rows' = DeleteRows(rows, gone)
<1> USE DEF db, main, worker
<1>1. CASE Snapshot
  BY <1>1 DEF Snapshot
<1>2. CASE WriteNotAttempted
  BY <1>2 DEF WriteNotAttempted, GoOn, WorkerDies
<1>3. CASE Connect
  BY <1>3 DEF Connect, GoOn, TcpError
<1>4. CASE WriteConnected
  BY <1>4 DEF WriteConnected, GoOn, GenericError
<1>5. CASE FetchNextDue
  BY <1>5 DEF FetchNextDue, GoOn, GenericError
<1>6. CASE Cleanup
  BY <1>6 DEF Cleanup, CleanupSent, GoOn, GenericError
<1>7. CASE WakeFromPoll
  BY <1>7 DEF WakeFromPoll, GoOn
<1>8. CASE SendAccepted
  BY <1>8 DEF SendAccepted, GoOn
<1>9. CASE SendFails
  BY <1>9 DEF SendFails, TcpError
<1>10. CASE MarkScanSent
  BY <1>10 DEF MarkScanSent, GenericError
<1>11. CASE WriteDelivered
  BY <1>11 DEF WriteDelivered, GoOn, GenericError
<1>12. CASE WriteUnavailable
  BY <1>12 DEF WriteUnavailable, GoOn, WorkerDies
<1>13. CASE RefetchNextDue
  BY <1>13 DEF RefetchNextDue, RetrySleep, WorkerDies
<1>14. CASE MarkScanFailed
  BY <1>14 DEF MarkScanFailed, RetrySleep, WorkerDies
<1>15. CASE WakeFromRetry
  BY <1>15 DEF WakeFromRetry, GoOn
<1>16. CASE WriteDeliveryError
  BY <1>16 DEF WriteDeliveryError, RetrySleep
<1> QED
  BY <1>1, <1>2, <1>3, <1>4, <1>5, <1>6, <1>7, <1>8, <1>9, <1>10, <1>11, <1>12, <1>13,
     <1>14, <1>15, <1>16 DEF WorkerNext

\* A row that is kept waits no longer than before.
ShortensWaits(r, q) == \A i \in Present(q) : i \in Present(r) /\ q[i].wait <= r[i].wait

\* mark_sent ends the wait of one row.
LEMMA MarkSentShortens ==
    ASSUME NEW r \in Table, NEW id
    PROVE  ShortensWaits(r, MarkSent(r, id))
<1> DEFINE q == MarkSent(r, id)
<1>1. DOMAIN r = RowIds /\ DOMAIN q = RowIds
  BY DEF Table, RowSet, MarkSent
<1>2. ASSUME NEW i \in RowIds
      PROVE  q[i].wait <= r[i].wait /\ (r[i].state = "absent" => q[i].state = "absent")
  <2>1. r[i] \in Row
    BY DEF Table, RowSet, Row
  <2>2. q[i] = IF i = id /\ r[i].state # "absent"
               THEN [r[i] EXCEPT !.state = "sent", !.wait = 0] ELSE r[i]
    BY <1>1 DEF MarkSent
  <2> QED
    BY <2>1, <2>2 DEF Row
<1> HIDE DEF q
<1>3. ShortensWaits(r, q)
  BY <1>1, <1>2 DEF ShortensWaits, Present
<1> QED
  BY <1>3 DEF q

\* A DELETE leaves the waits of the rows it keeps.
LEMMA DeleteShortens ==
    ASSUME NEW r \in Table, NEW gone
    PROVE  ShortensWaits(r, DeleteRows(r, gone))
<1>1. \A i \in Present(DeleteRows(r, gone)) : i \in Present(r) /\ DeleteRows(r, gone)[i] = r[i]
  BY DEF Table, RowSet, DeleteRows, Absent, Present
<1>2. \A i \in Present(r) : r[i].wait \in Int
  BY DEF Table, RowSet, Present
<1> QED
  BY <1>1, <1>2 DEF ShortensWaits

\* A tick brings every wait to its end by one, as it does the worker's sleep.
LEMMA ElapseShortens ==
    ASSUME NEW r \in Table
    PROVE  \A i \in Present(Elapse(r)) :
               i \in Present(r) /\ Elapse(r)[i].wait = IF r[i].wait > 0 THEN r[i].wait - 1 ELSE 0
<1> DEFINE q == Elapse(r)
<1>1. DOMAIN r = RowIds /\ DOMAIN q = RowIds
  BY DEF Table, RowSet, Elapse
<1>2. ASSUME NEW i \in RowIds
      PROVE  /\ q[i].state = r[i].state
             /\ q[i].wait = IF r[i].wait > 0 THEN r[i].wait - 1 ELSE 0
  <2>1. r[i] \in Row
    BY DEF Table, RowSet, Row
  <2>2. q[i] = IF r[i].wait > 0 THEN [r[i] EXCEPT !.wait = @ - 1] ELSE r[i]
    BY <1>1 DEF Elapse
  <2> QED
    BY <2>1, <2>2 DEF Row
<1> HIDE DEF q
<1>3. \A i \in Present(q) : i \in Present(r) /\ q[i].wait = IF r[i].wait > 0 THEN r[i].wait - 1 ELSE 0
  BY <1>1, <1>2 DEF Present
<1> QED
  BY <1>3 DEF q

\* No wait is longer than the interval.
LEMMA WaitsAreTyped ==
    ASSUME NEW r \in Table
    PROVE  \A i \in Present(r) : r[i].wait \in 0 .. RetryTicks
BY DEF Table, RowSet, Present

\* Every step of a process that is not restarted keeps the two clocks together.
LEMMA NextLife ==
    ASSUME ~Restarts
    PROVE  TypedQueue /\ LifeInv /\ [Next]_vars => LifeInv'
<1> SUFFICES ASSUME TypedQueue, LifeInv, [Next]_vars PROVE LifeInv'
  OBVIOUS
<1> USE DEF LifeInv
<1> rows \in Table
  BY DEF TypedQueue, TypeOK, Table
<1> rows' \in Table
  BY NextTypedQueue DEF TypedQueue, TypeOK, Table
<1>1. CASE MainStep
  BY <1>1, MainStepLife DEF FirstLife, SleepsInPlace, WaitsWithinSleep, Present, worker
<1>2. CASE CaptureScan
  <2>1. /\ mpc = "read" /\ mpc' = "last_scan_id" /\ UNCHANGED <<dpc, sleep, handed>>
        /\ rows' = EnqueueScan(rows, lastId + 1, captured')
    BY <1>2 DEF CaptureScan, NextRowId, worker
  <2>2. \A i \in Present(rows') : \/ rows'[i].wait = 0
                                  \/ i \in Present(rows) /\ rows'[i] = rows[i]
    BY <2>1 DEF EnqueueScan, NewRow, Present, Table, RowSet
  <2>3. sleep \in Nat
    BY DEF TypedQueue, TypeOK
  <2> QED
    BY <2>1, <2>2, <2>3 DEF FirstLife, SleepsInPlace, WaitsWithinSleep
<1>3. CASE CaptureFails
  BY <1>3 DEF CaptureFails, Update, db, worker, FirstLife, SleepsInPlace, WaitsWithinSleep,
     Present
<1>4. CASE WorkerNext
  <2>1. dpc # "off" /\ dpc' # "off" /\ mpc' = mpc
    BY <1>4, WorkerLife
  <2>2. FirstLife'
    BY <2>1 DEF FirstLife
  <2>3. CASE dpc' = "retry_sleep" /\ sleep' = RetryTicks
    <3>1. \A i \in Present(rows') : rows'[i].wait \in 0 .. RetryTicks
      BY WaitsAreTyped
    <3> QED
      BY <2>2, <2>3, <3>1 DEF SleepsInPlace, WaitsWithinSleep
  <2>4. CASE /\ sleep' = sleep
             /\ dpc = "retry_sleep" => sleep = 0
             /\ \/ rows' = rows
                \/ rows' = MarkSent(rows, scan.id)
                \/ \E gone : rows' = DeleteRows(rows, gone)
    <3>1. sleep = 0
      BY <2>4 DEF SleepsInPlace, TypedQueue, TypeOK
    <3>2. ASSUME rows' = rows PROVE WaitsWithinSleep'
      BY <2>1, <2>4, <3>2 DEF WaitsWithinSleep, Present
    <3>3. ASSUME ShortensWaits(rows, rows') PROVE WaitsWithinSleep'
      <4> SUFFICES ASSUME ~ClockMoves PROVE WaitsWithinSleep'
        BY DEF WaitsWithinSleep
      <4>1. \A i \in Present(rows') : rows'[i].wait \in Nat
        BY WaitsAreTyped
      <4>2. \A i \in Present(rows) : rows[i].wait \in Nat /\ rows[i].wait <= 0
        BY <2>1, <3>1, WaitsAreTyped DEF WaitsWithinSleep
      <4> QED
        BY <2>4, <3>1, <3>3, <4>1, <4>2 DEF WaitsWithinSleep, ShortensWaits
    <3>4. SleepsInPlace'
      BY <2>4, <3>1 DEF SleepsInPlace
    <3> QED
      BY <2>2, <2>4, <3>2, <3>3, <3>4, MarkSentShortens, DeleteShortens
  <2> QED
    BY <1>4, <2>3, <2>4, WorkerLife
<1>5. CASE Tick
  <2>1. /\ UNCHANGED <<mpc, dpc, handed>> /\ rows' = Elapse(rows)
        /\ sleep' = IF sleep > 0 THEN sleep - 1 ELSE 0
    BY <1>5 DEF Tick, main, history
  <2>2. sleep \in Nat /\ \A i \in Present(rows) : rows[i].wait \in Nat
    BY WaitsAreTyped DEF TypedQueue, TypeOK
  <2>3. Present(rows') \subseteq Present(rows)
    BY <2>1, ElapseShortens
  <2>4. FirstLife' /\ SleepsInPlace'
    BY <2>1, <2>2, <2>3 DEF FirstLife, SleepsInPlace
  <2>5. WaitsWithinSleep'
    BY <2>1, <2>2, ElapseShortens DEF WaitsWithinSleep
  <2> QED
    BY <2>4, <2>5
<1>6. CASE OperatorClears
  <2>1. PICK gone : rows' = DeleteRows(rows, gone)
    BY <1>6 DEF OperatorClears, ClearQueue
  <2>2. UNCHANGED <<mpc, dpc, sleep, handed>>
    BY <1>6 DEF OperatorClears, main, worker
  <2>3. \A i \in Present(rows') : i \in Present(rows) /\ rows'[i] = rows[i]
    BY <2>1 DEF Table, RowSet, DeleteRows, Absent, Present
  <2> QED
    BY <2>2, <2>3 DEF FirstLife, SleepsInPlace, WaitsWithinSleep
<1>7. CASE SetClock
  <2>1. PICK w \in [RowIds -> 0 .. RetryTicks] : rows' = Reschedule(rows, w)
    BY <1>7 DEF SetClock
  <2>2. ClockMoves /\ UNCHANGED <<mpc, dpc, sleep, handed>>
    BY <1>7 DEF SetClock, main, worker, history
  <2>3. Present(rows') = Present(rows)
    BY <2>1, RescheduleRows
  <2> QED
    BY <2>2, <2>3 DEF FirstLife, SleepsInPlace, WaitsWithinSleep
<1>8. CASE PlugOrUnplug \/ ServerComesOrGoes \/ RequestStop \/ Crash \/ Restart \/ CalmBegins
  BY <1>8 DEF PlugOrUnplug, ServerComesOrGoes, RequestStop, Crash, Restart, CalmBegins,
     ProcessGone, db, main, worker, history, FirstLife, SleepsInPlace, WaitsWithinSleep, Present
<1>9. CASE UNCHANGED vars
  BY <1>9 DEF vars, db, main, worker, history, FirstLife, SleepsInPlace, WaitsWithinSleep,
     Present
<1> QED
  BY <1>1, <1>2, <1>3, <1>4, <1>5, <1>6, <1>7, <1>8, <1>9 DEF Next, MainNext, World

-----------------------------------------------------------------------------
(* Capture order. *)

\* Whenever the worker is awake everything that is pending is due.
LEMMA AwakeMeansDue ==
    ASSUME ~ClockMoves, TypedQueue, LifeInv, dpc # "off", dpc # "retry_sleep"
    PROVE  Due(rows) = Pending(rows)
<1>1. sleep = 0
  BY DEF LifeInv, SleepsInPlace, TypedQueue, TypeOK
<1>2. \A i \in Present(rows) : rows[i].wait \in Nat
  BY WaitsAreTyped DEF TypedQueue, TypeOK, Table
<1>3. \A i \in Present(rows) : rows[i].wait = 0
  BY <1>1, <1>2 DEF LifeInv, WaitsWithinSleep
<1> QED
  BY <1>3 DEF Due, Pending, Present

\* The worker is about to send a scan, or to blame it for a send that failed.
Trying == dpc \in {"send", "tcp_error", "refetch"} /\ scan # NoScan

\* Elsewhere it holds no scan, but while it marks one.
HoldsNothing ==
    dpc \notin {"send", "mark_sent", "mark_failed", "tcp_error", "refetch"} => scan = NoScan

\* Nothing pending is older than the scan the worker tries to send.
OldestFirst ==
    Trying => /\ scan.id <= lastId /\ scan.scan <= captured
              /\ \A j \in Pending(rows) : scan.id <= j /\ scan.scan <= rows[j].scan

OrderInv == HoldsNothing /\ OldestFirst

\* A scan to try comes from the queue, and is kept until the attempt is over.
LEMMA WorkerTries ==
    ASSUME WorkerNext, HoldsNothing
    PROVE  /\ HoldsNothing'
           /\ Trying' => \/ dpc = "fetch" /\ Fetches("send")
                         \/ Trying /\ UNCHANGED <<rows, lastId, captured, scan>>
<1> USE DEF db, main, worker, world, history, HoldsNothing, Trying
<1>1. CASE Snapshot
  BY <1>1 DEF Snapshot
<1>2. CASE WriteNotAttempted
  BY <1>2 DEF WriteNotAttempted, GoOn, WorkerDies
<1>3. CASE Connect
  BY <1>3 DEF Connect, GoOn, TcpError
<1>4. CASE WriteConnected
  BY <1>4 DEF WriteConnected, GoOn, GenericError
<1>5. CASE FetchNextDue
  BY <1>5 DEF FetchNextDue, Fetches, GoOn, GenericError
<1>6. CASE Cleanup
  BY <1>6 DEF Cleanup, GoOn, GenericError
<1>7. CASE WakeFromPoll
  BY <1>7 DEF WakeFromPoll, GoOn
<1>8. CASE SendAccepted
  BY <1>8 DEF SendAccepted, GoOn
<1>9. CASE SendFails
  BY <1>9 DEF SendFails, TcpError
<1>10. CASE MarkScanSent
  BY <1>10 DEF MarkScanSent, GenericError
<1>11. CASE WriteDelivered
  BY <1>11 DEF WriteDelivered, GoOn, GenericError
<1>12. CASE WriteUnavailable
  BY <1>12 DEF WriteUnavailable, GoOn, WorkerDies
<1>13. CASE RefetchNextDue
  BY <1>13 DEF RefetchNextDue, RetrySleep, WorkerDies
<1>14. CASE MarkScanFailed
  BY <1>14 DEF MarkScanFailed, RetrySleep, WorkerDies
<1>15. CASE WakeFromRetry
  BY <1>15 DEF WakeFromRetry, GoOn
<1>16. CASE WriteDeliveryError
  BY <1>16 DEF WriteDeliveryError, RetrySleep
<1> QED
  BY <1>1, <1>2, <1>3, <1>4, <1>5, <1>6, <1>7, <1>8, <1>9, <1>10, <1>11, <1>12, <1>13,
     <1>14, <1>15, <1>16 DEF WorkerNext

\* The row that is fetched is the oldest of all that are pending.
LEMMA FetchedIsOldest ==
    ASSUME ~ClockMoves, TypedQueue, BookInv, LifeInv, dpc = "fetch", Fetches("send")
    PROVE  /\ OldestFirst'
           /\ scan'.id \in Pending(rows) /\ rows[scan'.id].scan = scan'.scan
<1>1. PICK i \in RowIds : IsNextDue(rows, i) /\ scan' = [id |-> i, scan |-> rows[i].scan]
  BY DEF Fetches, Fetched
<1>2. UNCHANGED <<rows, lastId, captured>>
  BY DEF Fetches
<1>3. i \in Pending(rows) /\ \A j \in Pending(rows) : i <= j
  BY <1>1, AwakeMeansDue DEF IsNextDue
<1>4. i \in Present(rows) /\ Pending(rows) \subseteq Present(rows) \cap Int
  BY <1>3, PendingRows
<1>5. i <= lastId /\ \A j \in Present(rows) : rows[j].scan \in 1 .. captured
  BY <1>4 DEF TypedQueue, QueueConsistent
<1>6. captured \in Nat
  BY DEF TypedQueue, TypeOK
<1>7. ASSUME NEW j \in Pending(rows) PROVE rows[i].scan <= rows[j].scan
  <2>1. CASE i = j
    BY <2>1, <1>4, <1>5, <1>6
  <2>2. CASE i < j
    BY <2>2, <1>4, <1>5, <1>6 DEF BookInv, ScansAscend
  <2> QED
    BY <1>3, <1>4, <2>1, <2>2
<1>8. scan'.id = i /\ scan'.scan = rows[i].scan /\ rows[i].scan <= captured
  BY <1>1, <1>4, <1>5, <1>6
<1>9. OldestFirst'
  <2>1. Pending(rows') = Pending(rows)
    BY <1>2 DEF Pending
  <2> QED
    BY <1>2, <1>3, <1>5, <1>7, <1>8, <2>1 DEF OldestFirst
<1> QED
  BY <1>3, <1>8, <1>9

\* What changes no pending row but by taking it away keeps the order.
LEMMA UpdateKeepsOldest ==
    ASSUME OrderInv, UNCHANGED <<dpc, scan, lastId, captured>>,
           Pending(rows') \subseteq Pending(rows),
           \A i \in Pending(rows') : rows'[i].scan = rows[i].scan
    PROVE  OrderInv'
BY DEF OrderInv, HoldsNothing, OldestFirst, Trying

\* Every step of a process that is not restarted keeps the order, where the wall
\* clock is not set.
LEMMA NextOrder ==
    ASSUME ~Restarts, ~ClockMoves
    PROVE  TypedQueue /\ BookInv /\ LifeInv /\ OrderInv /\ [Next]_vars => OrderInv'
<1> SUFFICES ASSUME TypedQueue, BookInv, LifeInv, OrderInv, [Next]_vars PROVE OrderInv'
  OBVIOUS
<1> rows \in Table
  BY DEF TypedQueue, TypeOK, Table
<1>1. CASE MainStep
  <2>1. CASE dpc' \in {"loop", "off"} /\ scan' = NoScan
    BY <2>1 DEF OrderInv, HoldsNothing, OldestFirst, Trying
  <2>2. CASE UNCHANGED worker
    <3>1. UNCHANGED <<dpc, scan, lastId, captured, rows>>
      BY <1>1, <2>2, MainStepIsQuiet DEF worker, Quiet
    <3> QED
      BY <3>1, UpdateKeepsOldest DEF Pending
  <2>3. CASE mpc = "initialize" /\ dpc' = "loop" /\ scan' = scan
    BY <2>3 DEF OrderInv, HoldsNothing, OldestFirst, Trying, LifeInv, FirstLife
  <2> QED
    BY <1>1, <2>1, <2>2, <2>3, MainStepLife
<1>2. CASE CaptureScan
  <2>1. /\ UNCHANGED <<dpc, scan>> /\ lastId' = lastId + 1 /\ captured' = captured + 1
        /\ rows' = EnqueueScan(rows, lastId + 1, captured + 1)
    BY <1>2 DEF CaptureScan, Completed, NextRowId, worker
  <2>2. \A j \in Pending(rows') : \/ j = lastId + 1 /\ rows'[j].scan = captured + 1
                                  \/ j \in Pending(rows) /\ rows'[j] = rows[j]
    BY <2>1 DEF EnqueueScan, NewRow, Pending, Table, RowSet
  <2>3. lastId \in Int /\ captured \in Int /\ scan.id \in Int /\ scan.scan \in Int
    BY DEF TypedQueue, TypeOK
  <2> QED
    BY <2>1, <2>2, <2>3 DEF OrderInv, HoldsNothing, OldestFirst, Trying
<1>3. CASE CaptureFails
  <2>1. UNCHANGED <<dpc, scan, lastId, rows>> /\ captured' = captured + 1
    BY <1>3 DEF CaptureFails, Completed, worker, db
  <2>2. captured \in Int /\ scan.scan \in Int
    BY DEF TypedQueue, TypeOK
  <2> QED
    BY <2>1, <2>2 DEF OrderInv, HoldsNothing, OldestFirst, Trying, Pending
<1>4. CASE WorkerNext
  <2>1. HoldsNothing'
    BY <1>4, WorkerTries DEF OrderInv
  <2>2. CASE ~Trying'
    BY <2>1, <2>2 DEF OrderInv, OldestFirst
  <2>3. CASE dpc = "fetch" /\ Fetches("send")
    BY <2>1, <2>3, FetchedIsOldest DEF OrderInv
  <2>4. CASE Trying /\ UNCHANGED <<rows, lastId, captured, scan>>
    BY <2>1, <2>4 DEF OrderInv, OldestFirst, Pending
  <2> QED
    BY <1>4, <2>2, <2>3, <2>4, WorkerTries DEF OrderInv
<1>5. CASE Tick
  <2>1. /\ UNCHANGED <<dpc, scan, lastId, captured>>
        /\ KeepsScans(rows, rows') /\ Pending(rows') = Pending(rows)
    BY <1>5, ElapseEffect DEF Tick, history
  <2> QED
    BY <2>1, UpdateKeepsOldest DEF KeepsScans, Pending, Present
<1>6. CASE OperatorClears
  <2>1. Pending(rows') = {} /\ UNCHANGED <<dpc, scan, lastId, captured>>
    BY <1>6, ClearKeepsBook DEF OperatorClears, worker
  <2> QED
    BY <2>1, UpdateKeepsOldest
<1>7. CASE Crash
  BY <1>7 DEF Crash, ProcessGone, OrderInv, HoldsNothing, OldestFirst, Trying
<1>8. CASE PlugOrUnplug \/ ServerComesOrGoes \/ RequestStop \/ Restart \/ CalmBegins
           \/ UNCHANGED vars
  <2>1. UNCHANGED <<dpc, scan, lastId, captured, rows>>
    BY <1>8 DEF PlugOrUnplug, ServerComesOrGoes, RequestStop, Restart, CalmBegins, vars,
       db, main, worker, history
  <2> QED
    BY <2>1, UpdateKeepsOldest DEF Pending
<1>9. CASE SetClock
  BY <1>9 DEF SetClock
<1> QED
  BY <1>1, <1>2, <1>3, <1>4, <1>5, <1>6, <1>7, <1>8, <1>9 DEF Next, MainNext, World

OneLifeInv == TypedQueue /\ BookInv /\ LifeInv

\* At first there is neither a queue nor a worker.
LEMMA InitOneLife == Init => OneLifeInv /\ OrderInv
<1>1. Init => OrderInv
  BY DEF Init, OrderInv, HoldsNothing, OldestFirst, Trying
<1> QED
  BY <1>1, InitTypedQueue, InitBook, InitLife DEF OneLifeInv

\* In one life of the process every step keeps all parts of the invariant.
LEMMA NextOneLife ==
    ASSUME ~Restarts
    PROVE  OneLifeInv /\ [Next]_vars => OneLifeInv'
BY NextTypedQueue, NextBook, NextLife DEF OneLifeInv

\* Scans are sent in capture order, as long as the process is not restarted and
\* the wall clock is not set: whatever fails, and whatever an operator clears.
THEOREM DrainsInOrder ==
    ASSUME ~Restarts, ~ClockMoves
    PROVE  Spec => DrainOrder
<1>1. OneLifeInv /\ OrderInv => (Sends => \A s \in PendingScans : scan.scan <= s)
  <2> SUFFICES ASSUME OneLifeInv, OrderInv, dpc = "send"
               PROVE  \A s \in PendingScans : scan.scan <= s
    BY DEF Sends
  <2>1. scan # NoScan
    BY DEF OneLifeInv, TypedQueue, QueueConsistent, Holding, NoScan
  <2> QED
    BY <2>1 DEF OrderInv, OldestFirst, Trying, PendingScans
<1>2. OneLifeInv /\ OrderInv /\ [Next]_vars
          => [Sends => \A s \in PendingScans : scan.scan <= s]_vars
  BY <1>1
<1>3. OneLifeInv /\ OrderInv /\ [Next]_vars => OrderInv'
  BY NextOrder DEF OneLifeInv
<1> QED
  BY InitOneLife, NextOneLife, <1>2, <1>3, PTL DEF Spec, DrainOrder

-----------------------------------------------------------------------------
(* No scan is sent twice. *)

\* While a worker lives, what was sent and is still pending is the row it is
\* about to mark, and it never has such a scan in hand to send.
HandedOnce ==
    /\ handed \subseteq 1 .. captured
    /\ dpc # "off" => \A i \in Pending(rows) :
           rows[i].scan \in handed => dpc = "mark_sent" /\ i = scan.id
    /\ dpc = "send" => scan.scan \notin handed

\* Between the send and the commit of mark_sent a call must fail for the worker
\* to do anything else.
LEMMA SentIsMarked ==
    ASSUME ~Faults, WorkerNext, dpc = "mark_sent"
    PROVE  rows' = MarkSent(rows, scan.id) /\ dpc' = "sent_status" /\ UNCHANGED <<captured, handed>>
BY DEF WorkerNext, Snapshot, WriteNotAttempted, Connect, WriteConnected, FetchNextDue, Cleanup,
   WakeFromPoll, SendAccepted, SendFails, MarkScanSent, WriteDelivered, WriteUnavailable,
   RefetchNextDue, MarkScanFailed, WakeFromRetry, WriteDeliveryError, Fault, history

\* A step that makes no row pending, and is not the worker's after a send, keeps it.
LEMMA UpdateKeepsOnce ==
    ASSUME HandedOnce, UNCHANGED <<captured, handed>>,
           dpc # "off", dpc = "mark_sent" => UNCHANGED <<dpc, scan>>,
           dpc' = "send" => UNCHANGED <<dpc, scan>>,
           Pending(rows') \subseteq Pending(rows),
           \A i \in Pending(rows') : rows'[i].scan = rows[i].scan
    PROVE  HandedOnce'
BY DEF HandedOnce

\* A send concerns one pending row, or one that was cleared meanwhile.
LEMMA SendKeepsOnce ==
    ASSUME TypedQueue, BookInv, HandedOnce, SendAccepted
    PROVE  HandedOnce'
<1>1. /\ dpc = "send" /\ dpc' = "mark_sent" /\ handed' = handed \cup {scan.scan}
      /\ UNCHANGED <<rows, captured, scan>>
  BY DEF SendAccepted, GoOn, db
<1>2. scan.scan \in 1 .. captured
  BY <1>1 DEF TypedQueue, QueueConsistent, Holding
<1>3. ASSUME NEW i \in Pending(rows), rows[i].scan = scan.scan PROVE i = scan.id
  <2>1. i \in Present(rows) /\ i \in Int
    BY PendingRows
  <2>2. scan.id \in Pending(rows)
    BY <1>1, <1>3 DEF BookInv, BooksAgree, HeldIsPending, Holding
  <2>3. scan.id \in Present(rows) /\ scan.id \in Int /\ rows[scan.id].scan = scan.scan
    BY <1>1, <2>2, PendingRows DEF TypedQueue, QueueConsistent, Holding
  <2> QED
    BY <1>2, <1>3, <2>1, <2>3 DEF BookInv, ScansAscend
<1> QED
  BY <1>1, <1>2, <1>3 DEF HandedOnce, Pending

\* Every other step of the worker keeps it, too.
LEMMA WorkerKeepsOnce ==
    ASSUME ~Faults, TypedQueue, BookInv, LifeInv, HandedOnce, WorkerNext
    PROVE  HandedOnce'
<1> rows \in Table
  BY DEF TypedQueue, TypeOK, Table
<1>1. dpc # "off" /\ dpc' # "off"
  BY WorkerLife
<1>2. CASE dpc = "mark_sent"
  <2>1. /\ rows' = MarkSent(rows, scan.id) /\ dpc' = "sent_status" /\ UNCHANGED <<captured, handed>>
    BY <1>2, SentIsMarked
  <2>2. Pending(rows') = Pending(rows) \ {scan.id} /\ KeepsScans(rows, rows')
    BY <2>1, MarkSentEffect
  <2>3. \A i \in Pending(rows') : i \in Pending(rows) /\ i # scan.id /\ rows'[i].scan = rows[i].scan
    BY <2>2 DEF KeepsScans, Pending, Present
  <2> QED
    BY <2>1, <2>3, <1>1 DEF HandedOnce
<1>3. CASE dpc # "mark_sent" /\ SendAccepted
  BY <1>3, SendKeepsOnce
<1>4. CASE dpc # "mark_sent" /\ Quiet
  BY <1>1, <1>4, UpdateKeepsOnce DEF Quiet, Holding, Pending
<1>5. CASE dpc # "mark_sent" /\ Cleans
  <2>1. PICK gone : rows' = DeleteRows(rows, gone \cap Sent(rows))
    BY <1>5 DEF Cleans
  <2>2. Pending(rows') \subseteq Pending(rows) /\ KeepsScans(rows, rows')
    BY <2>1, DeleteEffect
  <2> QED
    BY <1>1, <1>5, <2>2, UpdateKeepsOnce DEF Cleans, Holding, KeepsScans, Pending, Present
<1>6. CASE dpc # "mark_sent" /\ Marks
  <2>1. PICK w \in 0 .. RetryTicks : rows' = MarkFailed(rows, scan.id, w)
    BY <1>6 DEF Marks
  <2>2. /\ Pending(rows') = Pending(rows) \cup ({scan.id} \cap Present(rows))
        /\ KeepsScans(rows, rows')
    BY <2>1, MarkFailedEffect
  <2>3. Pending(rows') \subseteq Pending(rows)
    BY <1>6, <2>2 DEF Marks, BookInv, HeldIsPending, Holding
  <2> QED
    BY <1>1, <1>6, <2>2, <2>3, UpdateKeepsOnce DEF Marks, Holding, KeepsScans, Pending, Present
<1>7. CASE dpc # "mark_sent" /\ (Fetches("send") \/ Fetches("mark_failed"))
  <2>1. UNCHANGED <<rows, captured, handed>> /\ dpc' \in {"send", "mark_failed"}
    BY <1>7 DEF Fetches
  <2>2. PICK i \in RowIds : IsNextDue(rows, i) /\ scan'.scan = rows[i].scan
    BY <1>7 DEF Fetches, Fetched
  <2>3. i \in Pending(rows) /\ \A j \in Pending(rows) : rows[j].scan \notin handed
    BY <1>1, <1>7, <2>2 DEF IsNextDue, Due, HandedOnce
  <2> QED
    BY <2>1, <2>2, <2>3 DEF HandedOnce, Pending
<1> QED
  BY <1>2, <1>3, <1>4, <1>5, <1>6, <1>7, WorkerSteps

\* Every step of a process whose calls do not fail and that is not restarted.
LEMMA NextOnce ==
    ASSUME ~Faults, ~Restarts
    PROVE  TypedQueue /\ BookInv /\ LifeInv /\ HandedOnce /\ [Next]_vars => HandedOnce'
<1> SUFFICES ASSUME TypedQueue, BookInv, LifeInv, HandedOnce, [Next]_vars PROVE HandedOnce'
  OBVIOUS
<1> rows \in Table
  BY DEF TypedQueue, TypeOK, Table
<1>1. CASE MainStep
  <2>1. UNCHANGED <<rows, captured, handed>>
    BY <1>1, MainStepIsQuiet DEF Quiet
  <2>2. CASE mpc = "initialize" /\ dpc' = "loop"
    BY <2>1, <2>2 DEF HandedOnce, LifeInv, FirstLife
  <2>3. CASE dpc' = "off"
    BY <2>1, <2>3 DEF HandedOnce
  <2>4. CASE UNCHANGED worker
    BY <2>1, <2>4 DEF HandedOnce, Pending, worker
  <2> QED
    BY <1>1, <2>2, <2>3, <2>4, MainStepLife
<1>2. CASE CaptureScan
  <2>1. /\ UNCHANGED <<dpc, scan, handed>> /\ captured' = captured + 1
        /\ rows' = EnqueueScan(rows, lastId + 1, captured + 1)
    BY <1>2 DEF CaptureScan, Completed, NextRowId, worker
  <2>2. \A j \in Pending(rows') : \/ rows'[j].scan = captured + 1
                                  \/ j \in Pending(rows) /\ rows'[j] = rows[j]
    BY <2>1 DEF EnqueueScan, NewRow, Pending, Table, RowSet
  <2>3. captured \in Nat
    BY DEF TypedQueue, TypeOK
  <2> QED
    BY <2>1, <2>2, <2>3 DEF HandedOnce
<1>3. CASE CaptureFails
  <2>1. UNCHANGED <<dpc, scan, handed, rows>> /\ captured' = captured + 1 /\ captured \in Nat
    BY <1>3 DEF CaptureFails, Completed, worker, db, TypedQueue, TypeOK
  <2> QED
    BY <2>1 DEF HandedOnce, Pending
<1>4. CASE WorkerNext
  BY <1>4, WorkerKeepsOnce
<1>5. CASE Tick
  <2>1. /\ UNCHANGED <<dpc, scan, captured, handed>>
        /\ KeepsScans(rows, rows') /\ Pending(rows') = Pending(rows)
    BY <1>5, ElapseEffect DEF Tick, history
  <2>2. \A i \in Pending(rows') : rows'[i].scan = rows[i].scan
    BY <2>1 DEF KeepsScans, Pending, Present
  <2> QED
    BY <2>1, <2>2 DEF HandedOnce
<1>6. CASE SetClock
  <2>1. PICK w \in [RowIds -> 0 .. RetryTicks] : rows' = Reschedule(rows, w)
    BY <1>6 DEF SetClock
  <2>2. UNCHANGED <<dpc, scan, captured, handed>>
    BY <1>6 DEF SetClock, worker, history
  <2>3. KeepsScans(rows, rows') /\ Pending(rows') = Pending(rows)
    BY <2>1, RescheduleEffect
  <2>4. \A i \in Pending(rows') : rows'[i].scan = rows[i].scan
    BY <2>3 DEF KeepsScans, Pending, Present
  <2> QED
    BY <2>2, <2>3, <2>4 DEF HandedOnce
<1>7. CASE OperatorClears
  <2>1. Pending(rows') = {} /\ UNCHANGED <<dpc, scan, captured, handed>>
    BY <1>7, ClearKeepsBook DEF OperatorClears, worker
  <2> QED
    BY <2>1 DEF HandedOnce
<1>8. CASE Crash
  BY <1>8 DEF Crash, ProcessGone, HandedOnce, history
<1>9. CASE PlugOrUnplug \/ ServerComesOrGoes \/ RequestStop \/ Restart \/ CalmBegins
           \/ UNCHANGED vars
  BY <1>9 DEF PlugOrUnplug, ServerComesOrGoes, RequestStop, Restart, CalmBegins, vars,
     db, main, worker, history, HandedOnce, Pending
<1> QED
  BY <1>1, <1>2, <1>3, <1>4, <1>5, <1>6, <1>7, <1>8, <1>9 DEF Next, MainNext, World

\* In one life of a process whose calls do not fail no scan is written to a socket
\* twice, however often the scanner and the server come and go.
THEOREM SendsAtMostOnce ==
    ASSUME ~Faults, ~Restarts
    PROVE  Spec => AtMostOnce
<1>1. Init => HandedOnce
  BY DEF Init, HandedOnce
<1>2. HandedOnce /\ [Next]_vars => [Sends => scan.scan \notin handed]_vars
  BY DEF HandedOnce, Sends
<1>3. OneLifeInv /\ HandedOnce /\ [Next]_vars => HandedOnce'
  BY NextOnce DEF OneLifeInv
<1> QED
  BY InitOneLife, NextOneLife, <1>1, <1>2, <1>3, PTL DEF Spec, AtMostOnce

-----------------------------------------------------------------------------
(* The attempt that failed is recorded on the row that was sent. *)

\* Nothing but an operator takes away the row that the worker tries to send.
StillPending == Trying => scan.id \in Pending(rows) /\ rows[scan.id].scan = scan.scan

\* A step that leaves the pending rows as they are keeps it.
LEMMA UpdateKeepsPending ==
    ASSUME StillPending, UNCHANGED <<dpc, scan>>,
           \A i \in Pending(rows) : i \in Pending(rows') /\ rows'[i].scan = rows[i].scan
    PROVE  StillPending'
BY DEF StillPending, Trying

\* Every step of a process that is not restarted, whose queue nobody clears, and
\* whose wall clock nobody sets.
LEMMA NextStillPending ==
    ASSUME ~Restarts, ~Clears, ~ClockMoves
    PROVE  OneLifeInv /\ OrderInv /\ StillPending /\ [Next]_vars => StillPending'
<1> SUFFICES ASSUME TypedQueue, BookInv, LifeInv, OrderInv, StillPending, [Next]_vars
             PROVE  StillPending'
  BY DEF OneLifeInv
<1> rows \in Table
  BY DEF TypedQueue, TypeOK, Table
<1>1. CASE MainStep
  <2>1. CASE dpc' \in {"loop", "off"}
    BY <2>1 DEF StillPending, Trying
  <2>2. CASE UNCHANGED worker
    BY <1>1, <2>2, MainStepIsQuiet, UpdateKeepsPending DEF worker, Quiet, Pending
  <2> QED
    BY <1>1, <2>1, <2>2, MainStepLife
<1>2. CASE CaptureScan
  <2>1. /\ UNCHANGED <<dpc, scan>>
        /\ rows' = EnqueueScan(rows, lastId + 1, captured + 1)
    BY <1>2 DEF CaptureScan, Completed, NextRowId, worker
  <2>2. lastId \in Nat /\ \A i \in Pending(rows) : i <= lastId
    BY DEF TypedQueue, TypeOK, QueueConsistent, Pending, Present
  <2>3. \A i \in Pending(rows) : i # lastId + 1
    BY <2>2, PendingRows
  <2>4. \A i \in Pending(rows) : i \in Pending(rows') /\ rows'[i] = rows[i]
    BY <2>1, <2>3 DEF EnqueueScan, Pending, Table, RowSet
  <2> QED
    BY <2>1, <2>4, UpdateKeepsPending
<1>3. CASE CaptureFails
  BY <1>3, UpdateKeepsPending DEF CaptureFails, worker, db, Pending
<1>4. CASE WorkerNext
  <2>1. CASE ~Trying'
    BY <2>1 DEF StillPending
  <2>2. CASE dpc = "fetch" /\ Fetches("send")
    BY <2>2, FetchedIsOldest DEF StillPending, Fetches, Pending
  <2>3. CASE Trying /\ UNCHANGED <<rows, lastId, captured, scan>>
    BY <2>3 DEF StillPending, Pending
  <2> QED
    BY <1>4, <2>1, <2>2, <2>3, WorkerTries DEF OrderInv
<1>5. CASE Tick
  <2>1. /\ UNCHANGED <<dpc, scan>>
        /\ KeepsScans(rows, rows') /\ Pending(rows') = Pending(rows)
    BY <1>5, ElapseEffect DEF Tick
  <2> QED
    BY <2>1, UpdateKeepsPending DEF KeepsScans, Pending, Present
<1>6. CASE OperatorClears
  BY <1>6 DEF OperatorClears
<1>7. CASE Crash
  BY <1>7 DEF Crash, ProcessGone, StillPending, Trying
<1>8. CASE PlugOrUnplug \/ ServerComesOrGoes \/ RequestStop \/ Restart \/ CalmBegins
           \/ UNCHANGED vars
  BY <1>8, UpdateKeepsPending DEF PlugOrUnplug, ServerComesOrGoes, RequestStop, Restart,
     CalmBegins, vars, db, main, worker, history, Pending
<1>9. CASE SetClock
  BY <1>9 DEF SetClock
<1> QED
  BY <1>1, <1>2, <1>3, <1>4, <1>5, <1>6, <1>7, <1>8, <1>9 DEF Next, MainNext, World

\* The row that is fetched anew is the one that was sent: it is still the oldest.
LEMMA RefetchFindsIt ==
    ASSUME ~Faults, ~ClockMoves, OneLifeInv, OrderInv, StillPending,
           dpc = "refetch", scan # NoScan, RefetchNextDue
    PROVE  dpc' = "mark_failed" /\ scan' = scan
<1>1. Trying
  BY DEF Trying
<1>2. Due(rows) = Pending(rows) /\ scan.id \in Pending(rows) /\ rows[scan.id].scan = scan.scan
  BY <1>1, AwakeMeansDue DEF OneLifeInv, StillPending
<1>3. PICK i \in RowIds : IsNextDue(rows, i) /\ Fetched(i) /\ dpc' = "mark_failed"
  BY <1>2 DEF RefetchNextDue, Fault
<1>4. i \in Pending(rows) /\ i <= scan.id /\ scan.id <= i
  BY <1>1, <1>2, <1>3 DEF IsNextDue, OrderInv, OldestFirst
<1>5. i \in Int /\ scan.id \in Int
  BY <1>2, <1>4, PendingRows DEF OneLifeInv
<1>6. i = scan.id
  BY <1>4, <1>5
<1>7. scan' = [id |-> scan.id, scan |-> scan.scan]
  BY <1>2, <1>3, <1>6 DEF Fetched
<1>8. scan \in [id : 0 .. MaxScans, scan : 0 .. MaxScans]
  BY DEF OneLifeInv, TypedQueue, TypeOK
<1> QED
  BY <1>3, <1>7, <1>8

\* A failed attempt is recorded on the row whose send failed, in one life of a
\* process whose calls do not fail, while nobody clears its queue or sets the clock.
THEOREM TheRightRowIsBlamed ==
    ASSUME ~Faults, ~Restarts, ~Clears, ~ClockMoves
    PROVE  Spec => BlamesWhatWasSent
<1>1. Init => StillPending
  BY DEF Init, StillPending, Trying
<1>2. OneLifeInv /\ OrderInv /\ StillPending /\ [Next]_vars
          => [dpc = "refetch" /\ scan # NoScan /\ dpc' # "off"
              => dpc' = "mark_failed" /\ scan' = scan]_<<dpc, scan>>
  <2> SUFFICES ASSUME OneLifeInv, OrderInv, StillPending, [Next]_vars,
                      dpc = "refetch", scan # NoScan, dpc' # "off", ~UNCHANGED <<dpc, scan>>
               PROVE  dpc' = "mark_failed" /\ scan' = scan
    OBVIOUS
  <2>1. mpc # "initialize"
    BY DEF OneLifeInv, LifeInv, FirstLife
  <2>2. ~MainStep
    BY <2>1, MainStepLife DEF worker
  <2>3. ~CaptureScan /\ ~CaptureFails /\ ~World /\ ~UNCHANGED vars
    BY DEF CaptureScan, CaptureFails, World, PlugOrUnplug, ServerComesOrGoes, Tick,
       SetClock, RequestStop, Crash, ProcessGone, Restart, OperatorClears, CalmBegins, worker, vars
  <2>4. RefetchNextDue
    BY <2>2, <2>3 DEF Next, MainNext, WorkerNext, Snapshot, WriteNotAttempted, Connect,
       WriteConnected, FetchNextDue, Cleanup, WakeFromPoll, SendAccepted, SendFails,
       MarkScanSent, WriteDelivered, WriteUnavailable, MarkScanFailed, WakeFromRetry,
       WriteDeliveryError
  <2> QED
    BY <2>4, RefetchFindsIt
<1>3. OneLifeInv /\ OrderInv /\ StillPending /\ [Next]_vars => StillPending'
  BY NextStillPending
<1>4. OneLifeInv /\ OrderInv /\ [Next]_vars => OrderInv'
  BY NextOrder DEF OneLifeInv
<1> QED
  BY InitOneLife, NextOneLife, <1>1, <1>2, <1>3, <1>4, PTL DEF Spec, BlamesWhatWasSent

-----------------------------------------------------------------------------
(* The status. *)

\* Once the main thread goes on after the join the worker has ended.
Joined == mpc \in {"final_status", "exit"} => dpc \in {"done", "dead"}

\* The worker has no step after its end.
LEMMA EndedWorkerIsStill == dpc \in {"off", "done", "dead"} => ~WorkerNext
BY DEF WorkerNext, Snapshot, WriteNotAttempted, Connect, WriteConnected, FetchNextDue, Cleanup,
   WakeFromPoll, SendAccepted, SendFails, MarkScanSent, WriteDelivered, WriteUnavailable,
   RefetchNextDue, MarkScanFailed, WakeFromRetry, WriteDeliveryError

\* Every step keeps it, where the join waits for the worker however long it takes.
LEMMA NextJoined ==
    ASSUME ~JoinTimeouts
    PROVE  Joined /\ [Next]_vars => Joined'
<1> SUFFICES ASSUME Joined, [Next]_vars PROVE Joined'
  OBVIOUS
<1> USE DEF Joined, main, worker
<1>1. CASE MainNext
  BY <1>1 DEF MainNext, MainStep, Initialize, InitializeFails, EnterScannerLoop, StopRequested,
     Discover, OpenDevice, PersistScannerState, PersistFails, PersistScannerStateSafely,
     AfterPersist, WakeFromNap, ReadFails, SetLastScanId, JoinWorker, WriteStopped, Exit,
     ProcessGone, Finally, Update, CaptureScan, CaptureFails
<1>2. CASE WorkerNext
  BY <1>2, EndedWorkerIsStill, WorkerLife
<1>3. CASE World
  BY <1>3 DEF World, PlugOrUnplug, ServerComesOrGoes, Tick, SetClock, RequestStop, Crash, ProcessGone,
     Restart, OperatorClears, CalmBegins
<1>4. CASE UNCHANGED vars
  BY <1>4 DEF vars
<1> QED
  BY <1>1, <1>2, <1>3, <1>4 DEF Next

\* "stopped" is the last word of a process whose worker is joined.
THEOREM StoppedStays ==
    ASSUME ~JoinTimeouts
    PROVE  Spec => StoppedIsFinal
<1>1. Init => Joined
  BY DEF Init, Joined
<1>2. Joined /\ [Next]_vars
          => [mpc = "exit" /\ status.server = "stopped" => UNCHANGED status]_status
  <2> SUFFICES ASSUME Joined, [Next]_vars, mpc = "exit" PROVE UNCHANGED status
    OBVIOUS
  <2>1. ~WorkerNext
    BY EndedWorkerIsStill DEF Joined
  <2>2. CASE MainNext
    BY <2>2 DEF MainNext, MainStep, Initialize, InitializeFails, EnterScannerLoop,
       StopRequested, Discover, OpenDevice, PersistScannerState, PersistFails,
       PersistScannerStateSafely, WakeFromNap, ReadFails, SetLastScanId, JoinWorker,
       WriteStopped, Exit, CaptureScan, CaptureFails, db
  <2>3. CASE World \/ UNCHANGED vars
    BY <2>3 DEF World, PlugOrUnplug, ServerComesOrGoes, Tick, SetClock, RequestStop, Crash, Restart,
       OperatorClears, CalmBegins, vars, db
  <2> QED
    BY <2>1, <2>2, <2>3 DEF Next
<1> QED
  BY <1>1, <1>2, NextJoined, PTL DEF Spec, StoppedIsFinal

\* Between connect and the next test of the connection there is a socket, no
\* exception but a TcpSenderError is handled, and the first life starts unreported.
ConnectionHeld ==
    /\ dpc \in {"conn_status", "fetch", "cleanup", "send", "mark_sent", "sent_status"}
           => sock # "none"
    /\ dpc \notin {"generic_error", "dead"}
    /\ mpc = "initialize" => status.server = "stopped"

StatusInv == FirstLife /\ ConnectionHeld /\ StaleConnectedIsBrief

\* The worker gives up a connection only on its way to say so.
LEMMA WorkerKeepsStatus ==
    ASSUME ~Faults, TypeOK, StatusInv, WorkerNext
    PROVE  ConnectionHeld' /\ StaleConnectedIsBrief'
<1>1. dpc # "off" /\ mpc' = mpc /\ mpc # "initialize" /\ ~Fault
  BY WorkerLife DEF StatusInv, FirstLife, Fault
<1>2. \A s \in StatusValues : ServerStatus(s) => status'.server = s
  BY DEF ServerStatus, TypeOK
<1> USE DEF StatusInv, ConnectionHeld, StaleConnectedIsBrief
<1>3. CASE Snapshot \/ Connect \/ FetchNextDue \/ Cleanup \/ WakeFromPoll \/ SendAccepted
           \/ SendFails \/ MarkScanSent \/ RefetchNextDue \/ MarkScanFailed \/ WakeFromRetry
  BY <1>1, <1>3 DEF Snapshot, Connect, FetchNextDue, Cleanup, WakeFromPoll, SendAccepted,
     SendFails, MarkScanSent, RefetchNextDue, MarkScanFailed, WakeFromRetry,
     Disconnected, TcpError, GoOn, RetrySleep, db
<1>4. CASE WriteNotAttempted \/ WriteConnected \/ WriteDelivered \/ WriteUnavailable
           \/ WriteDeliveryError
  BY <1>1, <1>2, <1>4 DEF WriteNotAttempted, WriteConnected, WriteDelivered, WriteUnavailable,
     WriteDeliveryError, GoOn, RetrySleep, StatusValues
<1> QED
  BY <1>3, <1>4 DEF WorkerNext

\* Every step of a process whose calls do not fail and that is not restarted.
LEMMA NextStatus ==
    ASSUME ~Faults, ~Restarts
    PROVE  TypeOK /\ LifeInv /\ LifeInv' /\ StatusInv /\ [Next]_vars => StatusInv'
<1> SUFFICES ASSUME TypeOK, StatusInv, [Next]_vars PROVE ConnectionHeld' /\ StaleConnectedIsBrief'
  BY DEF StatusInv, LifeInv
<1>1. CASE WorkerNext
  BY <1>1, WorkerKeepsStatus
<1> USE DEF StatusInv, FirstLife, ConnectionHeld, StaleConnectedIsBrief, db, main, worker
<1>2. CASE MainNext
  <2>1. \/ status'.server = status.server
        \/ status'.server = "stopped"
    BY <1>2 DEF MainNext, MainStep, Initialize, InitializeFails, EnterScannerLoop,
       StopRequested, Discover, OpenDevice, PersistScannerState, PersistFails,
       PersistScannerStateSafely, ScannerStatus, WakeFromNap, ReadFails, SetLastScanId,
       JoinWorker, WriteStopped, Exit, CaptureScan, CaptureFails, TypeOK
  <2>2. CASE MainStep
    <3>1. CASE mpc = "initialize" /\ dpc' = "loop"
      BY <2>1, <2>2, <3>1, MainStepLife
    <3>2. CASE dpc' = "off"
      BY <2>2, <3>2, MainStepLife
    <3>3. CASE UNCHANGED worker
      BY <2>1, <2>2, <3>3, MainStepLife
    <3> QED
      BY <2>2, <3>1, <3>2, <3>3, MainStepLife
  <2>3. CASE CaptureScan \/ CaptureFails
    BY <2>3 DEF CaptureScan, CaptureFails, Update
  <2> QED
    BY <1>2, <2>2, <2>3 DEF MainNext
<1>3. CASE World
  BY <1>3 DEF World, PlugOrUnplug, ServerComesOrGoes, Tick, SetClock, RequestStop, Crash, ProcessGone,
     Restart, OperatorClears, CalmBegins
<1>4. CASE UNCHANGED vars
  BY <1>4 DEF vars
<1> QED
  BY <1>1, <1>2, <1>3, <1>4 DEF Next

\* In one life of a process whose calls do not fail the status says "connected"
\* without a connection only while the worker is about to correct that.
THEOREM StatusIsTruthful ==
    ASSUME ~Faults, ~Restarts
    PROVE  Spec => []StaleConnectedIsBrief
<1>1. Init => StatusInv
  BY InitLife DEF LifeInv, Init, StatusInv, ConnectionHeld, StaleConnectedIsBrief
<1>2. OneLifeInv /\ OneLifeInv' /\ StatusInv /\ [Next]_vars => StatusInv'
  BY NextStatus DEF OneLifeInv, TypedQueue
<1>3. StatusInv => StaleConnectedIsBrief
  BY DEF StatusInv
<1> QED
  BY InitOneLife, NextOneLife, <1>1, <1>2, <1>3, PTL DEF Spec

-----------------------------------------------------------------------------
(* The worker lives. *)

\* Only a call that fails ends the worker by an exception.
LEMMA NextKeepsRunning ==
    ASSUME ~Faults
    PROVE  DeliveryKeepsRunning /\ [Next]_vars => DeliveryKeepsRunning'
<1> SUFFICES ASSUME DeliveryKeepsRunning, [Next]_vars PROVE DeliveryKeepsRunning'
  OBVIOUS
<1> USE DEF DeliveryKeepsRunning
<1>1. CASE WorkerNext
  BY <1>1 DEF WorkerNext, Snapshot, WriteNotAttempted, Connect, WriteConnected, FetchNextDue,
     Cleanup, WakeFromPoll, SendAccepted, SendFails, MarkScanSent, WriteDelivered,
     WriteUnavailable, RefetchNextDue, MarkScanFailed, WakeFromRetry, WriteDeliveryError,
     GoOn, TcpError, GenericError, RetrySleep, Fault
<1>2. CASE MainNext
  BY <1>2, MainStepLife DEF MainNext, CaptureScan, CaptureFails, worker
<1>3. CASE World
  BY <1>3 DEF World, PlugOrUnplug, ServerComesOrGoes, Tick, SetClock, RequestStop, Crash,
     ProcessGone, Restart, OperatorClears, CalmBegins, worker
<1>4. CASE UNCHANGED vars
  BY <1>4 DEF vars, worker
<1> QED
  BY <1>1, <1>2, <1>3, <1>4 DEF Next

\* Where no database or device call fails the delivery thread does not die, over
\* any number of restarts, however often the server is lost in the middle of a
\* send: what an operator does to the row in hand, or the clock to its retry
\* time, does not end it.
THEOREM DeliverySurvives ==
    ASSUME ~Faults
    PROVE  Spec => []DeliveryKeepsRunning
<1>1. Init => DeliveryKeepsRunning
  BY DEF Init, DeliveryKeepsRunning
<1> QED
  BY <1>1, NextKeepsRunning, PTL DEF Spec

=============================================================================
