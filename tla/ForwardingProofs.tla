-------------------------- MODULE ForwardingProofs --------------------------
(***************************************************************************)
(* The scanner service implements ScanForwarding, for any number of scans, *)
(* any retry interval and any setting of the switches: whatever fails, a   *)
(* scan is retired only after it was handed over, and overtaken only by    *)
(* way of a failed attempt of its own.                                     *)
(***************************************************************************)
EXTENDS ScanServiceProofs

USE MaxScansAssumption, RetryTicksAssumption

-----------------------------------------------------------------------------
(* The inductive invariant *)

\* Row ids and scans ascend together; a scan has one row at most.
ScansAscend == \A i, j \in Present(rows) : i < j => rows[i].scan < rows[j].scan

\* Only a failed attempt makes a row wait.
WaitsAfterFailure == \A i \in Present(rows) : rows[i].wait > 0 => rows[i].failed

\* A scan that was dropped or cleared was completed, and is not pending.
BooksAgree ==
    /\ dropped \cup cleared \subseteq 1 .. captured
    /\ \A i \in Pending(rows) : rows[i].scan \notin dropped \cup cleared

\* The row the worker holds is pending, unless its scan was cleared meanwhile.
HeldIsPending ==
    Holding => \/ scan.id \in Pending(rows)
               \/ scan.id \notin Present(rows) /\ scan.scan \in cleared

\* What is pending and older than the scan being sent has failed before.
OlderFailed == dpc = "send" => \A j \in Pending(rows) : j < scan.id => rows[j].failed

BookInv == ScansAscend /\ WaitsAfterFailure /\ BooksAgree /\ HeldIsPending /\ OlderFailed

-----------------------------------------------------------------------------
(* Most steps touch neither the queue nor the books. *)

\* A step of the main thread does so only when a scan is completed.
LEMMA MainStepIsQuiet == ASSUME MainStep PROVE Quiet
BY DEF MainStep, Initialize, InitializeFails, EnterScannerLoop, StopRequested, Discover,
   OpenDevice, PersistScannerState, PersistFails, PersistScannerStateSafely,
   WakeFromNap, ReadFails, SetLastScanId, JoinWorker, WriteStopped, Exit, ProcessGone,
   Quiet, Holding, db, worker, history

\* The worker fetches a row, to send it or to blame it.
Fetches(p) == /\ \E i \in RowIds : IsNextDue(rows, i) /\ Fetched(i)
              /\ dpc' = p
              /\ UNCHANGED <<rows, lastId, captured, handed, dropped, cleared>>

\* It records how a delivery ended.
Marks == /\ \/ dpc = "mark_sent" /\ rows' = MarkSent(rows, scan.id)
            \/ /\ dpc = "mark_failed"
               /\ \E w \in 0 .. RetryTicks : rows' = MarkFailed(rows, scan.id, w)
         /\ ~Holding'
         /\ UNCHANGED <<lastId, captured, handed, dropped, cleared>>

\* It deletes rows that are sent.
Cleans == /\ \E gone : rows' = DeleteRows(rows, gone \cap Sent(rows))
          /\ ~Holding'
          /\ UNCHANGED <<lastId, captured, handed, dropped, cleared>>

\* Otherwise a step of the worker is quiet, too.
LEMMA WorkerSteps ==
    ASSUME WorkerNext
    PROVE  \/ Quiet \/ SendAccepted \/ Cleans \/ Marks
           \/ Fetches("send") \/ Fetches("mark_failed")
<1> USE DEF Quiet, Holding, db, main, worker, world, history
<1>1. CASE Snapshot
  BY <1>1 DEF Snapshot, Disconnected
<1>2. CASE WriteNotAttempted
  BY <1>2 DEF WriteNotAttempted, GoOn, WorkerDies
<1>3. CASE Connect
  BY <1>3 DEF Connect, GoOn, TcpError, Disconnected
<1>4. CASE WriteConnected
  BY <1>4 DEF WriteConnected, GoOn, GenericError, Disconnected
<1>5. CASE FetchNextDue
  BY <1>5 DEF FetchNextDue, Fetches, GoOn, GenericError, Disconnected
<1>6. CASE Cleanup
  BY <1>6 DEF Cleanup, Cleans, CleanupSent, GoOn, GenericError, Disconnected
<1>7. CASE WakeFromPoll
  BY <1>7 DEF WakeFromPoll, GoOn
<1>8. CASE SendFails
  BY <1>8 DEF SendFails, TcpError, Disconnected
<1>9. CASE MarkScanSent
  BY <1>9 DEF MarkScanSent, Marks, GenericError, Disconnected
<1>10. CASE WriteDelivered
  BY <1>10 DEF WriteDelivered, GoOn, GenericError, Disconnected
<1>11. CASE WriteUnavailable
  BY <1>11 DEF WriteUnavailable, GoOn, WorkerDies
<1>12. CASE RefetchNextDue
  BY <1>12 DEF RefetchNextDue, Fetches, RetrySleep, WorkerDies
<1>13. CASE MarkScanFailed
  BY <1>13 DEF MarkScanFailed, Marks, RetrySleep, WorkerDies
<1>14. CASE WakeFromRetry
  BY <1>14 DEF WakeFromRetry, GoOn
<1>15. CASE WriteDeliveryError
  BY <1>15 DEF WriteDeliveryError, RetrySleep
<1> QED
  BY <1>1, <1>2, <1>3, <1>4, <1>5, <1>6, <1>7, <1>8, <1>9, <1>10, <1>11, <1>12,
     <1>13, <1>14, <1>15 DEF WorkerNext

\* The world touches the queue as the clock, as who sets it, and as the operator.
LEMMA WorldSteps == ASSUME World PROVE Quiet \/ Tick \/ SetClock \/ OperatorClears
BY DEF World, PlugOrUnplug, ServerComesOrGoes, RequestStop, Crash, Restart, CalmBegins,
   ProcessGone, Quiet, Holding, db, main, worker, world, history

\* All that can happen to queue and books.
LEMMA Steps ==
    ASSUME [Next]_vars
    PROVE  \/ Quiet \/ CaptureScan \/ CaptureFails \/ SendAccepted \/ Cleans \/ Marks
           \/ Fetches("send") \/ Fetches("mark_failed") \/ Tick \/ SetClock \/ OperatorClears
<1>1. CASE UNCHANGED vars
  BY <1>1 DEF Quiet, vars, db, worker, history
<1> QED
  BY <1>1, MainStepIsQuiet, WorkerSteps, WorldSteps DEF Next, MainNext

-----------------------------------------------------------------------------
(* What the statements do to failures and retry times. *)

\* A row that is kept stays failed, and waits only if it did before or failed.
KeepsFailures(r, q) ==
    \A i \in Present(q) :
        /\ r[i].failed => q[i].failed
        /\ q[i].wait > 0 => q[i].failed \/ r[i].wait > 0

\* mark_sent concerns one row.
LEMMA MarkSentRows ==
    ASSUME NEW r \in Table, NEW id
    PROVE  /\ KeepsFailures(r, MarkSent(r, id))
           /\ \A i \in RowIds \ {id} : MarkSent(r, id)[i] = r[i]
<1> DEFINE q == MarkSent(r, id)
<1>1. DOMAIN r = RowIds /\ DOMAIN q = RowIds
  BY DEF Table, RowSet, MarkSent
<1>2. ASSUME NEW i \in RowIds
      PROVE  /\ q[i].failed = r[i].failed
             /\ q[i].wait > 0 => r[i].wait > 0
             /\ i # id => q[i] = r[i]
  <2>1. r[i] \in Row
    BY DEF Table, RowSet, Row
  <2>2. q[i] = IF i = id /\ r[i].state # "absent"
               THEN [r[i] EXCEPT !.state = "sent", !.wait = 0] ELSE r[i]
    BY <1>1 DEF MarkSent
  <2> QED
    BY <2>1, <2>2 DEF Row
<1> HIDE DEF q
<1>3. KeepsFailures(r, q) /\ \A i \in RowIds \ {id} : q[i] = r[i]
  BY <1>1, <1>2 DEF KeepsFailures, Present
<1> QED
  BY <1>3 DEF q

\* So does mark_failed, and that row has failed.
LEMMA MarkFailedRows ==
    ASSUME NEW r \in Table, NEW id, NEW w \in 0 .. RetryTicks
    PROVE  /\ KeepsFailures(r, MarkFailed(r, id, w))
           /\ \A i \in RowIds \ {id} : MarkFailed(r, id, w)[i] = r[i]
           /\ id \in Present(r) => MarkFailed(r, id, w)[id].failed
<1> DEFINE q == MarkFailed(r, id, w)
<1>1. DOMAIN r = RowIds /\ DOMAIN q = RowIds
  BY DEF Table, RowSet, MarkFailed
<1>2. ASSUME NEW i \in RowIds
      PROVE  /\ r[i].failed => q[i].failed
             /\ q[i].wait > 0 => q[i].failed \/ r[i].wait > 0
             /\ i # id => q[i] = r[i]
             /\ i = id /\ r[i].state # "absent" => q[i].failed
  <2>1. r[i] \in Row
    BY DEF Table, RowSet, Row
  <2>2. q[i] = IF i = id /\ r[i].state # "absent"
               THEN [r[i] EXCEPT !.state = "pending", !.failed = TRUE, !.wait = w] ELSE r[i]
    BY <1>1 DEF MarkFailed
  <2> QED
    BY <2>1, <2>2 DEF Row
<1> HIDE DEF q
<1>3. /\ KeepsFailures(r, q) /\ \A i \in RowIds \ {id} : q[i] = r[i]
      /\ id \in Present(r) => q[id].failed
  BY <1>1, <1>2 DEF KeepsFailures, Present
<1> QED
  BY <1>3 DEF q

\* A DELETE leaves what it does not take as it is.
LEMMA DeleteRowsKept ==
    ASSUME NEW r \in Table, NEW gone
    PROVE  /\ KeepsFailures(r, DeleteRows(r, gone))
           /\ \A i \in Present(DeleteRows(r, gone)) : DeleteRows(r, gone)[i] = r[i]
BY DEF Table, RowSet, KeepsFailures, DeleteRows, Absent, Present

\* Time makes no row fail, and none wait.
LEMMA ElapseRows ==
    ASSUME NEW r \in Table
    PROVE  /\ KeepsFailures(r, Elapse(r))
           /\ \A i \in RowIds : Elapse(r)[i].failed = r[i].failed
<1> DEFINE q == Elapse(r)
<1>1. DOMAIN r = RowIds /\ DOMAIN q = RowIds
  BY DEF Table, RowSet, Elapse
<1>2. ASSUME NEW i \in RowIds
      PROVE  q[i].failed = r[i].failed /\ (q[i].wait > 0 => r[i].wait > 0)
  <2>1. r[i] \in Row
    BY DEF Table, RowSet, Row
  <2>2. q[i] = IF r[i].wait > 0 THEN [r[i] EXCEPT !.wait = @ - 1] ELSE r[i]
    BY <1>1 DEF Elapse
  <2> QED
    BY <2>1, <2>2 DEF Row
<1> HIDE DEF q
<1>3. KeepsFailures(r, q) /\ \A i \in RowIds : q[i].failed = r[i].failed
  BY <1>1, <1>2 DEF KeepsFailures, Present
<1> QED
  BY <1>3 DEF q

\* Nor does a clock that is set: only failed rows have a retry time.
LEMMA RescheduleRows ==
    ASSUME NEW r \in Table, NEW w \in [RowIds -> 0 .. RetryTicks]
    PROVE  /\ KeepsFailures(r, Reschedule(r, w))
           /\ \A i \in RowIds : Reschedule(r, w)[i].failed = r[i].failed
           /\ Present(Reschedule(r, w)) = Present(r)
<1> DEFINE q == Reschedule(r, w)
<1>1. DOMAIN r = RowIds /\ DOMAIN q = RowIds
  BY DEF Table, RowSet, Reschedule
<1>2. ASSUME NEW i \in RowIds
      PROVE  /\ q[i].failed = r[i].failed /\ q[i].state = r[i].state
             /\ q[i].wait > 0 => q[i].failed \/ r[i].wait > 0
  <2>1. r[i] \in Row
    BY DEF Table, RowSet, Row
  <2>2. q[i] = IF r[i].state = "pending" /\ r[i].failed
               THEN [r[i] EXCEPT !.wait = w[i]] ELSE r[i]
    BY <1>1 DEF Reschedule
  <2> QED
    BY <2>1, <2>2 DEF Row
<1> HIDE DEF q
<1>3. /\ KeepsFailures(r, q) /\ \A i \in RowIds : q[i].failed = r[i].failed
      /\ Present(q) = Present(r)
  BY <1>1, <1>2 DEF KeepsFailures, Present
<1> QED
  BY <1>3 DEF q

-----------------------------------------------------------------------------
(* The books are an invariant. *)

\* A step that adds no row keeps the order of the rows, and only failed ones wait.
LEMMA UpdateKeepsOrder ==
    ASSUME BookInv, KeepsScans(rows, rows'), KeepsFailures(rows, rows')
    PROVE  ScansAscend' /\ WaitsAfterFailure'
<1>1. ScansAscend'
  BY DEF BookInv, ScansAscend, KeepsScans
<1>2. WaitsAfterFailure'
  BY DEF BookInv, WaitsAfterFailure, KeepsScans, KeepsFailures
<1> QED
  BY <1>1, <1>2

\* A step that makes nothing pending agrees with the same books.
LEMMA UpdateAgrees ==
    ASSUME BookInv, KeepsScans(rows, rows'), Pending(rows') \subseteq Pending(rows),
           UNCHANGED <<captured, dropped, cleared>>
    PROVE  BooksAgree'
BY DEF BookInv, BooksAgree, KeepsScans, Pending, Present

\* Nothing is said of a worker that holds no row.
LEMMA NothingHeldIsPending == ~Holding' => HeldIsPending' /\ OlderFailed'
BY DEF HeldIsPending, OlderFailed, Holding

\* Nothing holds in the beginning.
LEMMA InitBook == Init => BookInv
<1> SUFFICES ASSUME Init PROVE BookInv
  OBVIOUS
<1>1. Present(rows) = {} /\ Pending(rows) = {}
  BY DEF Init, EmptyTable, Absent, Present, Pending
<1> QED
  BY <1>1 DEF Init, BookInv, ScansAscend, WaitsAfterFailure, BooksAgree, HeldIsPending,
     OlderFailed, Holding

\* A quiet step keeps them.
LEMMA QuietKeepsBook == ASSUME BookInv, Quiet PROVE BookInv'
BY DEF BookInv, Quiet, ScansAscend, WaitsAfterFailure, BooksAgree, HeldIsPending,
   OlderFailed, Holding, Present, Pending

\* An insert gives the newest scan the largest id.
LEMMA CaptureKeepsBook ==
    ASSUME TypedQueue, BookInv, CaptureScan
    PROVE  BookInv'
<1> DEFINE id == lastId + 1
<1>1. /\ captured' = captured + 1 /\ captured \in Nat /\ captured < MaxScans
      /\ UNCHANGED <<dpc, scan, dropped, cleared>>
      /\ rows' = EnqueueScan(rows, id, captured')
  BY DEF CaptureScan, Completed, NextRowId, worker, TypedQueue, TypeOK
<1>2. /\ id \in RowIds /\ id \notin Present(rows) /\ lastId \in Nat
      /\ \A i \in Present(rows) : i <= lastId /\ rows[i].scan \in 1 .. captured
  <2>1. lastId \in Nat /\ lastId <= captured
    BY DEF TypedQueue, TypeOK, QueueConsistent
  <2>2. \A i \in Present(rows) : i <= lastId /\ rows[i].scan \in 1 .. captured
    BY DEF TypedQueue, QueueConsistent
  <2>3. id \in RowIds
    BY <2>1, <1>1 DEF RowIds
  <2> QED
    BY <2>1, <2>2, <2>3
<1>3. DOMAIN rows = RowIds /\ DOMAIN rows' = RowIds
  BY <1>1 DEF TypedQueue, TypeOK, RowSet, EnqueueScan
<1>4. \A i \in RowIds : rows'[i] = IF i = id THEN NewRow(captured') ELSE rows[i]
  BY <1>1, <1>3 DEF EnqueueScan
<1>5. Present(rows') = Present(rows) \cup {id} /\ Pending(rows') = Pending(rows) \cup {id}
  BY <1>2, <1>3, <1>4 DEF Present, Pending, NewRow
<1>6. /\ rows'[id] = NewRow(captured')
      /\ \A i \in Present(rows) : i # id /\ rows'[i] = rows[i]
      /\ Pending(rows) \subseteq Present(rows)
  BY <1>2, <1>3, <1>4 DEF Present, Pending
<1> HIDE DEF id
<1>7. ScansAscend'
  <2> SUFFICES ASSUME NEW i \in Present(rows'), NEW j \in Present(rows'), i < j
               PROVE  rows'[i].scan < rows'[j].scan
    BY DEF ScansAscend
  <2>1. CASE i \in Present(rows) /\ j \in Present(rows)
    BY <2>1, <1>6 DEF BookInv, ScansAscend
  <2>2. CASE i \in Present(rows) /\ j = id
    BY <2>2, <1>1, <1>2, <1>6 DEF NewRow
  <2>3. CASE i = id
    BY <2>3, <1>2, <1>5 DEF id, RowIds
  <2> QED
    BY <2>1, <2>2, <2>3, <1>5
<1>8. WaitsAfterFailure'
  BY <1>5, <1>6 DEF BookInv, WaitsAfterFailure, NewRow
<1>9. BooksAgree'
  BY <1>1, <1>5, <1>6 DEF BookInv, BooksAgree, NewRow
<1>10. HeldIsPending' /\ OlderFailed'
  <2>1. Holding => scan.id \in 1 .. lastId
    BY DEF TypedQueue, QueueConsistent
  <2>2. HeldIsPending'
    BY <2>1, <1>1, <1>2, <1>5 DEF BookInv, HeldIsPending, Holding, id
  <2>3. OlderFailed'
    BY <2>1, <1>1, <1>2, <1>5, <1>6 DEF BookInv, OlderFailed, Holding, id
  <2> QED
    BY <2>2, <2>3
<1> QED
  BY <1>7, <1>8, <1>9, <1>10 DEF BookInv

\* So does a failed insert, for a scan that is in no row.
LEMMA CaptureFailsKeepsBook ==
    ASSUME TypedQueue, BookInv, CaptureFails
    PROVE  BookInv'
<1>1. /\ captured' = captured + 1 /\ captured \in Nat /\ dropped' = dropped \cup {captured'}
      /\ UNCHANGED <<rows, dpc, scan, cleared>>
  BY DEF CaptureFails, Completed, worker, db, TypedQueue, TypeOK
<1>2. \A i \in Pending(rows) : rows[i].scan # captured'
  BY <1>1 DEF TypedQueue, QueueConsistent, Present, Pending
<1>3. BooksAgree'
  BY <1>1, <1>2 DEF BookInv, BooksAgree, Pending
<1> QED
  BY <1>1, <1>3 DEF BookInv, ScansAscend, WaitsAfterFailure, HeldIsPending, OlderFailed,
     Holding, Present, Pending

\* The row that is fetched is due, and older rows wait.
LEMMA FetchKeepsBook ==
    ASSUME TypedQueue, BookInv, NEW p \in {"send", "mark_failed"}, Fetches(p)
    PROVE  BookInv'
<1>1. UNCHANGED <<rows, captured, dropped, cleared>> /\ dpc' = p
  BY DEF Fetches
<1>2. PICK i \in RowIds : IsNextDue(rows, i) /\ scan'.id = i
  BY DEF Fetches, Fetched
<1>3. i \in Pending(rows)
  BY <1>2 DEF IsNextDue, Due
<1>4. HeldIsPending'
  BY <1>1, <1>2, <1>3 DEF HeldIsPending, Pending
<1>5. ASSUME NEW j \in Pending(rows), j < i PROVE rows[j].failed
  <2>1. rows[j].wait # 0
    BY <1>2, <1>5 DEF IsNextDue, Due, Pending, TypedQueue, TypeOK, RowSet, RowIds
  <2>2. j \in Present(rows) /\ rows[j].wait \in Nat
    BY DEF Pending, Present, TypedQueue, TypeOK, RowSet
  <2> QED
    BY <2>1, <2>2 DEF BookInv, WaitsAfterFailure
<1>6. OlderFailed'
  BY <1>1, <1>2, <1>5 DEF OlderFailed, Pending
<1> QED
  BY <1>1, <1>4, <1>6 DEF BookInv, ScansAscend, WaitsAfterFailure, BooksAgree, Present, Pending

\* A send keeps the row in hand.
LEMMA SendKeepsBook == ASSUME BookInv, SendAccepted PROVE BookInv'
BY DEF BookInv, SendAccepted, GoOn, db, ScansAscend, WaitsAfterFailure, BooksAgree,
   HeldIsPending, OlderFailed, Holding, Present, Pending

\* What the worker marks was pending, or is gone.
LEMMA MarksKeepBook ==
    ASSUME TypedQueue, BookInv, Marks
    PROVE  BookInv'
<1> rows \in Table
  BY DEF TypedQueue, TypeOK, Table
<1>1. HeldIsPending' /\ OlderFailed'
  BY NothingHeldIsPending DEF Marks
<1>2. KeepsScans(rows, rows') /\ KeepsFailures(rows, rows')
  BY MarkSentEffect, MarkSentRows, MarkFailedEffect, MarkFailedRows DEF Marks
<1>3. Pending(rows') \subseteq Pending(rows)
  <2>1. CASE dpc = "mark_sent" /\ rows' = MarkSent(rows, scan.id)
    BY <2>1, MarkSentEffect
  <2>2. CASE dpc = "mark_failed" /\ \E w \in 0 .. RetryTicks : rows' = MarkFailed(rows, scan.id, w)
    <3>1. Pending(rows') = Pending(rows) \cup ({scan.id} \cap Present(rows))
      BY <2>2, MarkFailedEffect
    <3>2. scan.id \in Present(rows) => scan.id \in Pending(rows)
      BY <2>2 DEF BookInv, HeldIsPending, Holding
    <3> QED
      BY <3>1, <3>2
  <2> QED
    BY <2>1, <2>2 DEF Marks
<1>4. BooksAgree'
  BY <1>2, <1>3, UpdateAgrees DEF Marks
<1> QED
  BY <1>1, <1>2, <1>4, UpdateKeepsOrder DEF BookInv

\* Retention concerns rows that are sent, while the worker holds none.
LEMMA CleansKeepBook ==
    ASSUME TypedQueue, BookInv, Cleans
    PROVE  BookInv'
<1> rows \in Table
  BY DEF TypedQueue, TypeOK, Table
<1>1. HeldIsPending' /\ OlderFailed'
  BY NothingHeldIsPending DEF Cleans
<1>2. /\ KeepsScans(rows, rows') /\ KeepsFailures(rows, rows')
      /\ Pending(rows') \subseteq Pending(rows)
  BY DeleteEffect, DeleteRowsKept DEF Cleans
<1>3. BooksAgree'
  BY <1>2, UpdateAgrees DEF Cleans
<1> QED
  BY <1>1, <1>2, <1>3, UpdateKeepsOrder DEF BookInv

\* Time makes nothing pending.
LEMMA TickKeepsBook ==
    ASSUME TypedQueue, BookInv, Tick
    PROVE  BookInv'
<1> rows \in Table
  BY DEF TypedQueue, TypeOK, Table
<1>1. rows' = Elapse(rows) /\ UNCHANGED <<dpc, scan, captured, dropped, cleared>>
  BY DEF Tick, history
<1>2. /\ KeepsScans(rows, rows') /\ KeepsFailures(rows, rows')
      /\ Pending(rows') = Pending(rows)
      /\ \A i \in RowIds : rows'[i].failed = rows[i].failed
  BY <1>1, ElapseEffect, ElapseRows
<1>3. Present(rows') = Present(rows)
  BY <1>1 DEF Table, RowSet, Elapse, Present
<1>4. Pending(rows) \subseteq RowIds
  BY DEF Pending, Table, RowSet
<1>5. BooksAgree'
  BY <1>1, <1>2, UpdateAgrees
<1>6. HeldIsPending' /\ OlderFailed'
  BY <1>1, <1>2, <1>3, <1>4 DEF BookInv, HeldIsPending, OlderFailed, Holding
<1> QED
  BY <1>2, <1>5, <1>6, UpdateKeepsOrder DEF BookInv

\* Nor does a clock that is set.
LEMMA SetClockKeepsBook ==
    ASSUME TypedQueue, BookInv, SetClock
    PROVE  BookInv'
<1> rows \in Table
  BY DEF TypedQueue, TypeOK, Table
<1>1. PICK w \in [RowIds -> 0 .. RetryTicks] : rows' = Reschedule(rows, w)
  BY DEF SetClock
<1>2. UNCHANGED <<dpc, scan, captured, dropped, cleared>>
  BY DEF SetClock, worker, history
<1>3. /\ KeepsScans(rows, rows') /\ KeepsFailures(rows, rows')
      /\ Pending(rows') = Pending(rows) /\ Present(rows') = Present(rows)
      /\ \A i \in RowIds : rows'[i].failed = rows[i].failed
  BY <1>1, RescheduleEffect, RescheduleRows
<1>4. Pending(rows) \subseteq RowIds
  BY DEF Pending, Table, RowSet
<1>5. BooksAgree'
  BY <1>2, <1>3, UpdateAgrees
<1>6. HeldIsPending' /\ OlderFailed'
  BY <1>2, <1>3, <1>4 DEF BookInv, HeldIsPending, OlderFailed, Holding
<1> QED
  BY <1>3, <1>5, <1>6, UpdateKeepsOrder DEF BookInv

\* An operator clears whatever is pending, and it is on the books.
LEMMA ClearKeepsBook ==
    ASSUME TypedQueue, BookInv, OperatorClears
    PROVE  BookInv' /\ Pending(rows') = {}
<1> rows \in Table
  BY DEF TypedQueue, TypeOK, Table
<1>1. PICK all \in BOOLEAN : rows' = ClearQueue(rows, all)
  BY DEF OperatorClears
<1>2. /\ cleared' = cleared \cup {rows[i].scan : i \in Pending(rows)}
      /\ UNCHANGED <<dpc, scan, captured, dropped>>
  BY DEF OperatorClears, worker
<1> DEFINE gone == IF all THEN Present(rows) ELSE Pending(rows)
<1>3. rows' = DeleteRows(rows, gone) /\ Pending(rows) \subseteq gone /\ gone \subseteq Present(rows)
  BY <1>1 DEF ClearQueue, Pending, Present
<1> HIDE DEF gone
<1>4. /\ KeepsScans(rows, rows') /\ KeepsFailures(rows, rows')
      /\ Pending(rows') = {}
  BY <1>3, DeleteEffect, DeleteRowsKept
<1>5. Present(rows') = Present(rows) \ gone
  BY <1>3 DEF DeleteRows, Absent, Present, Table, RowSet
<1>6. BooksAgree'
  <2>1. {rows[i].scan : i \in Pending(rows)} \subseteq 1 .. captured
    BY DEF TypedQueue, QueueConsistent, Pending, Present
  <2> QED
    BY <2>1, <1>2, <1>4 DEF BookInv, BooksAgree
<1>7. HeldIsPending'
  <2>1. CASE scan.id \in Pending(rows)
    <3>1. Holding => rows[scan.id].scan = scan.scan
      BY <2>1 DEF TypedQueue, QueueConsistent, Pending, Present
    <3> QED
      BY <2>1, <3>1, <1>2, <1>3, <1>5 DEF HeldIsPending, Holding
  <2>2. CASE scan.id \notin Pending(rows)
    BY <2>2, <1>2, <1>5 DEF BookInv, HeldIsPending, Holding
  <2> QED
    BY <2>1, <2>2
<1>8. OlderFailed'
  BY <1>4 DEF OlderFailed
<1> QED
  BY <1>4, <1>6, <1>7, <1>8, UpdateKeepsOrder DEF BookInv

\* Every step keeps the books.
LEMMA NextBook == TypedQueue /\ BookInv /\ [Next]_vars => BookInv'
<1> SUFFICES ASSUME TypedQueue, BookInv, [Next]_vars PROVE BookInv'
  OBVIOUS
<1> QED
  BY Steps, QuietKeepsBook, CaptureKeepsBook, CaptureFailsKeepsBook, SendKeepsBook,
     FetchKeepsBook, MarksKeepBook, CleansKeepBook, TickKeepsBook,
     SetClockKeepsBook, ClearKeepsBook

-----------------------------------------------------------------------------
(* Every step is a step of the forwarder, or none. *)

ForwardStep == Forwarding!Next \/ UNCHANGED <<Fates, handed>>

\* A scan's fate is that of its row.
SameFate(s) == (IsNew(s)' <=> IsNew(s)) /\ (IsDeferred(s)' <=> IsDeferred(s))

\* The fates stay if the pending rows, their scans and their failures do.
LEMMA SameFates ==
    ASSUME UNCHANGED <<captured, dropped, cleared>>, \A s \in Scans : SameFate(s)
    PROVE  UNCHANGED Fates
<1>1. ASSUME NEW s \in Scans PROVE Fate(s)' = Fate(s)
  BY DEF SameFate, Fate
<1> QED
  BY <1>1 DEF Fates

\* One fate changes, and the others stay.
LEMMA OneFate ==
    ASSUME NEW s \in Scans, NEW f, Fate(s)' = f,
           \A t \in Scans \ {s} : Fate(t)' = Fate(t)
    PROVE  Fates' = [Fates EXCEPT ![s] = f]
BY DEF Fates

\* Nothing happens in a quiet step, nor when a row is fetched.
LEMMA StillRowsForward ==
    ASSUME UNCHANGED <<rows, captured, handed, dropped, cleared>>
    PROVE  ForwardStep
<1>1. \A s \in Scans : SameFate(s)
  BY DEF SameFate, IsNew, IsDeferred, Pending
<1> QED
  BY <1>1, SameFates DEF ForwardStep

\* Nor when time passes or rows are deleted that are not pending.
LEMMA SamePendingForwards ==
    ASSUME UNCHANGED <<captured, handed, dropped, cleared>>,
           Pending(rows') = Pending(rows),
           \A i \in Pending(rows) : rows'[i].scan = rows[i].scan /\ rows'[i].failed = rows[i].failed
    PROVE  ForwardStep
<1>1. \A s \in Scans : SameFate(s)
  BY DEF SameFate, IsNew, IsDeferred
<1> QED
  BY <1>1, SameFates DEF ForwardStep

\* A pending row is in the table.
LEMMA PendingRows == TypedQueue => Pending(rows) \subseteq Present(rows) \cap Int
BY DEF Pending, Present, TypedQueue, TypeOK, RowSet, RowIds

\* Which scans are outstanding.
LEMMA PendingFate ==
    ASSUME TypedQueue, BookInv, NEW i \in Pending(rows)
    PROVE  /\ rows[i].scan \in Scans
           /\ Fate(rows[i].scan) = IF rows[i].failed THEN "deferred" ELSE "new"
<1>1. /\ rows[i].scan \in 1 .. captured /\ captured \in 0 .. MaxScans
      /\ rows[i].failed \in BOOLEAN
  BY DEF TypedQueue, TypeOK, QueueConsistent, Pending, Present, RowSet
<1>2. rows[i].scan \notin dropped \cup cleared
  BY DEF BookInv, BooksAgree
<1>3. ASSUME NEW j \in Pending(rows), rows[j].scan = rows[i].scan PROVE j = i
  <2>1. i \in Present(rows) \cap Int /\ j \in Present(rows) \cap Int
    BY PendingRows
  <2>2. ~(i < j) /\ ~(j < i)
    BY <1>1, <1>3, <2>1 DEF BookInv, ScansAscend
  <2> QED
    BY <2>1, <2>2
<1>4. /\ IsNew(rows[i].scan) <=> ~rows[i].failed
      /\ IsDeferred(rows[i].scan) <=> rows[i].failed
  BY <1>3 DEF IsNew, IsDeferred
<1>5. ~(rows[i].scan > captured)
  BY <1>1
<1> QED
  BY <1>1, <1>2, <1>4, <1>5 DEF Fate, Scans

\* The scan in hand is outstanding, or gone.
LEMMA HeldFate ==
    ASSUME TypedQueue, BookInv, Holding
    PROVE  /\ scan.scan \in Scans
           /\ IF scan.id \in Pending(rows)
              THEN rows[scan.id].scan = scan.scan
              ELSE scan.id \notin Present(rows) /\ Fate(scan.scan) = "gone"
<1>1. scan.scan \in 1 .. captured /\ captured \in 0 .. MaxScans
  BY DEF TypedQueue, TypeOK, QueueConsistent
<1>2. scan.scan \in Scans /\ ~(scan.scan > captured)
  BY <1>1 DEF Scans
<1>3. CASE scan.id \in Pending(rows)
  BY <1>2, <1>3 DEF TypedQueue, QueueConsistent, Pending, Present
<1>4. CASE scan.id \notin Pending(rows)
  BY <1>2, <1>4 DEF BookInv, HeldIsPending, Fate
<1> QED
  BY <1>3, <1>4

\* A completed scan is taken: its row is new, and no other one is touched.
LEMMA CaptureForwards ==
    ASSUME TypedQueue, BookInv, CaptureScan
    PROVE  ForwardStep
<1> PICK new \in Scans : new = captured + 1
  BY DEF CaptureScan, Completed, TypedQueue, TypeOK, Scans
<1> PICK id : id = lastId + 1
  OBVIOUS
<1>1. /\ captured' = new /\ new = captured + 1 /\ captured \in Nat /\ captured < MaxScans
      /\ UNCHANGED <<handed, dropped, cleared>>
      /\ rows' = EnqueueScan(rows, id, new)
  BY DEF CaptureScan, Completed, NextRowId, TypedQueue, TypeOK, Scans
<1>2. /\ id \notin Pending(rows) /\ id \in RowIds
      /\ \A i \in Pending(rows) : rows[i].scan \in 1 .. captured
  <2>1. lastId \in Nat /\ lastId <= captured
    BY DEF TypedQueue, TypeOK, QueueConsistent
  <2>2. \A i \in Pending(rows) : i <= lastId /\ rows[i].scan \in 1 .. captured
    BY DEF TypedQueue, QueueConsistent, Pending, Present
  <2>3. id \in RowIds
    BY <2>1, <1>1 DEF RowIds
  <2> QED
    BY <2>1, <2>2, <2>3
<1>3. /\ Pending(rows') = Pending(rows) \cup {id}
      /\ rows'[id] = NewRow(new)
      /\ \A i \in Pending(rows) : rows'[i] = rows[i]
  BY <1>1, <1>2 DEF TypedQueue, TypeOK, RowSet, EnqueueScan, NewRow, Pending
<1>4. \A s \in dropped \cup cleared : s \in 1 .. captured
  BY DEF BookInv, BooksAgree
<1>5. ASSUME NEW s \in Scans PROVE /\ IsNew(s)' <=> IsNew(s) \/ s = new
                                   /\ IsDeferred(s)' <=> IsDeferred(s)
  BY <1>2, <1>3 DEF IsNew, IsDeferred, NewRow
<1>6. Fate(new)' = "new" /\ Fate(new) = "none"
  <2>1. new > captured /\ ~(new > captured') /\ new \notin dropped \cup cleared
    BY <1>1, <1>4
  <2> QED
    BY <2>1, <1>1, <1>5 DEF Fate
<1>7. ASSUME NEW t \in Scans \ {new} PROVE Fate(t)' = Fate(t)
  <2>1. t > captured' <=> t > captured
    BY <1>1, <1>7 DEF Scans
  <2> QED
    BY <2>1, <1>1, <1>5 DEF Fate
<1>8. \A t \in 1 .. (new - 1) : t \in Scans /\ Fates[t] # "none"
  <2> SUFFICES ASSUME NEW t \in 1 .. (new - 1) PROVE t \in Scans /\ Fates[t] # "none"
    OBVIOUS
  <2>1. t \in Scans /\ ~(t > captured)
    BY <1>1 DEF Scans
  <2> QED
    BY <2>1 DEF Fates, Fate
<1>9. Fates' = [Fates EXCEPT ![new] = "new"] /\ Fates[new] = "none"
  BY <1>1, <1>6, <1>7, OneFate DEF Fates
<1>10. Forwarding!Take(new)
  BY <1>1, <1>8, <1>9 DEF Forwarding!Take
<1> QED
  BY <1>1, <1>10 DEF ForwardStep, Forwarding!Next, Forwarding!Scans, Scans

\* A scan whose insert fails is taken and gone.
LEMMA CaptureFailsForwards ==
    ASSUME TypedQueue, BookInv, CaptureFails
    PROVE  ForwardStep
<1> PICK new \in Scans : new = captured + 1
  BY DEF CaptureFails, Completed, TypedQueue, TypeOK, Scans
<1>1. /\ captured' = new /\ new = captured + 1 /\ captured \in Nat
      /\ dropped' = dropped \cup {new}
      /\ UNCHANGED <<rows, handed, cleared>>
  BY DEF CaptureFails, Completed, TypedQueue, TypeOK, db
<1>2. \A s \in Scans : (IsNew(s)' <=> IsNew(s)) /\ (IsDeferred(s)' <=> IsDeferred(s))
  BY <1>1 DEF IsNew, IsDeferred, Pending
<1>3. Fate(new)' = "gone" /\ Fate(new) = "none"
  <2>1. new > captured /\ ~(new > captured')
    BY <1>1
  <2> QED
    BY <2>1, <1>1 DEF Fate
<1>4. ASSUME NEW t \in Scans \ {new} PROVE Fate(t)' = Fate(t)
  <2>1. t > captured' <=> t > captured
    BY <1>1, <1>4 DEF Scans
  <2> QED
    BY <2>1, <1>1, <1>2 DEF Fate
<1>5. \A t \in 1 .. (new - 1) : t \in Scans /\ Fates[t] # "none"
  <2> SUFFICES ASSUME NEW t \in 1 .. (new - 1) PROVE t \in Scans /\ Fates[t] # "none"
    OBVIOUS
  <2>1. t \in Scans /\ ~(t > captured)
    BY <1>1 DEF Scans
  <2> QED
    BY <2>1 DEF Fates, Fate
<1>6. Fates' = [Fates EXCEPT ![new] = "gone"] /\ Fates[new] = "none"
  BY <1>1, <1>3, <1>4, OneFate DEF Fates
<1>7. Forwarding!Take(new)
  BY <1>1, <1>5, <1>6 DEF Forwarding!Take
<1> QED
  BY <1>1, <1>7 DEF ForwardStep, Forwarding!Next, Forwarding!Scans, Scans

\* A send hands over the oldest new scan, a deferred one, or one just cleared.
LEMMA SendForwards ==
    ASSUME TypedQueue, BookInv, SendAccepted
    PROVE  ForwardStep
<1> PICK s : s = scan.scan
  OBVIOUS
<1>1. /\ dpc = "send" /\ handed' = handed \cup {s}
      /\ UNCHANGED <<rows, captured, dropped, cleared>>
  BY DEF SendAccepted, db
<1>2. s \in Scans
  BY <1>1, HeldFate DEF Holding
<1>3. UNCHANGED Fates
  <2>1. \A t \in Scans : SameFate(t)
    BY <1>1 DEF SameFate, IsNew, IsDeferred, Pending
  <2> QED
    BY <1>1, <2>1, SameFates
<1>4. \/ Fates[s] \in {"new", "deferred"} /\ \A t \in 1 .. (s - 1) : Fates[t] # "new"
      \/ Fates[s] = "gone"
  <2>1. CASE scan.id \in Pending(rows)
    <3>1. rows[scan.id].scan = s
      BY <2>1, <1>1, HeldFate DEF Holding
    <3>2. Fates[s] \in {"new", "deferred"}
      BY <2>1, <3>1, <1>2, PendingFate DEF Fates
    <3>3. ASSUME NEW t \in 1 .. (s - 1), Fates[t] = "new" PROVE FALSE
      <4>1. t \in Scans /\ t < s
        BY <1>2 DEF Scans
      <4>2. PICK j \in Pending(rows) : rows[j].scan = t /\ ~rows[j].failed
        BY <3>3, <4>1 DEF Fates, Fate, IsNew
      <4>3. j \in Present(rows) /\ scan.id \in Present(rows) /\ j \in Int /\ scan.id \in Int
        BY <2>1, PendingRows
      <4>4. ~(scan.id < j) /\ j # scan.id
        BY <4>1, <4>2, <4>3, <3>1, <1>2 DEF BookInv, ScansAscend, Scans
      <4>5. j < scan.id
        BY <4>3, <4>4
      <4> QED
        BY <4>2, <4>5, <1>1 DEF BookInv, OlderFailed
    <3> QED
      BY <3>2, <3>3
  <2>2. CASE scan.id \notin Pending(rows)
    BY <2>2, <1>1, <1>2, HeldFate DEF Holding, Fates
  <2> QED
    BY <2>1, <2>2
<1>5. Forwarding!Hand(s)
  BY <1>1, <1>2, <1>3, <1>4
     DEF Forwarding!Hand, Forwarding!Outstanding, Forwarding!Scans, Scans
<1> QED
  BY <1>2, <1>5 DEF ForwardStep, Forwarding!Next, Forwarding!Scans, Scans

\* Marking the row of scan s gives it the fate f, and no other scan another one.
LEMMA OneRowForwards ==
    ASSUME TypedQueue, BookInv, NEW id \in Pending(rows), NEW s, s = rows[id].scan,
           UNCHANGED <<captured, dropped, cleared>>,
           KeepsScans(rows, rows'),
           \A i \in RowIds \ {id} : rows'[i] = rows[i],
           NEW f,
           \/ f = "sent" /\ Pending(rows') = Pending(rows) \ {id}
           \/ f = "deferred" /\ Pending(rows') = Pending(rows) /\ rows'[id].failed
    PROVE  Fates' = [Fates EXCEPT ![s] = f]
<1>1. s \in Scans /\ ~(s > captured) /\ s \notin dropped \cup cleared
  <2>1. s \in 1 .. captured /\ captured \in 0 .. MaxScans
    BY PendingRows DEF TypedQueue, TypeOK, QueueConsistent
  <2> QED
    BY <2>1 DEF Scans, BookInv, BooksAgree
<1>2. ASSUME NEW i \in Pending(rows), i # id PROVE rows[i].scan # s
  <2>1. i \in Present(rows) \cap Int /\ id \in Present(rows) \cap Int
    BY PendingRows
  <2>2. rows[i].scan \in Int /\ s \in Int
    BY <2>1, <1>1 DEF TypedQueue, TypeOK, QueueConsistent, Scans
  <2> QED
    BY <1>2, <2>1, <2>2 DEF BookInv, ScansAscend
<1>3. /\ Pending(rows) \subseteq RowIds
      /\ id \in Pending(rows') => rows'[id].scan = s
  BY DEF TypedQueue, TypeOK, RowSet, Pending, Present, KeepsScans
<1>4. ASSUME NEW t \in Scans \ {s} PROVE Fate(t)' = Fate(t)
  <2>1. (IsNew(t)' <=> IsNew(t)) /\ (IsDeferred(t)' <=> IsDeferred(t))
    BY <1>3 DEF IsNew, IsDeferred
  <2> QED
    BY <2>1 DEF Fate
<1>5. Fate(s)' = f
  <2>1. CASE f = "sent" /\ Pending(rows') = Pending(rows) \ {id}
    <3>1. ~IsNew(s)' /\ ~IsDeferred(s)'
      BY <2>1, <1>2, <1>3 DEF IsNew, IsDeferred
    <3> QED
      BY <3>1, <2>1, <1>1 DEF Fate
  <2>2. CASE f = "deferred" /\ Pending(rows') = Pending(rows) /\ rows'[id].failed
    <3>1. ~IsNew(s)' /\ IsDeferred(s)'
      BY <2>2, <1>2, <1>3 DEF IsNew, IsDeferred
    <3> QED
      BY <3>1, <2>2, <1>1 DEF Fate
  <2> QED
    BY <2>1, <2>2
<1> QED
  BY <1>1, <1>4, <1>5, OneFate

\* A row that is gone is not marked.
LEMMA MarkingNothing ==
    ASSUME rows \in Table, NEW id, id \notin Present(rows)
    PROVE  MarkSent(rows, id) = rows /\ \A w : MarkFailed(rows, id, w) = rows
BY DEF MarkSent, MarkFailed, Present, Table, RowSet

\* mark_sent retires the scan that was handed over.
LEMMA MarkSentForwards ==
    ASSUME TypedQueue, BookInv, Marks, dpc = "mark_sent", rows' = MarkSent(rows, scan.id)
    PROVE  ForwardStep
<1> rows \in Table
  BY DEF TypedQueue, TypeOK, Table
<1> PICK s, id : s = scan.scan /\ id = scan.id
  OBVIOUS
<1>1. UNCHANGED <<captured, handed, dropped, cleared>>
  BY DEF Marks
<1>2. CASE id \in Pending(rows)
  <2>1. rows[id].scan = s /\ s \in Scans /\ s \in handed
    BY <1>2, HeldFate DEF Holding, TypedQueue, QueueConsistent
  <2>2. KeepsScans(rows, rows') /\ Pending(rows') = Pending(rows) \ {id}
    BY MarkSentEffect
  <2>3. \A i \in RowIds \ {id} : rows'[i] = rows[i]
    BY MarkSentRows
  <2>4. Fates' = [Fates EXCEPT ![s] = "sent"]
    BY <1>1, <1>2, <2>1, <2>2, <2>3, OneRowForwards
  <2>5. Fates[s] \in {"new", "deferred"}
    BY <1>2, <2>1, PendingFate DEF Fates
  <2>6. Forwarding!Retire(s)
    BY <1>1, <2>1, <2>4, <2>5
       DEF Forwarding!Retire, Forwarding!Outstanding, Forwarding!Scans, Scans
  <2> QED
    BY <2>1, <2>6 DEF ForwardStep, Forwarding!Next, Forwarding!Scans, Scans
<1>3. CASE id \notin Pending(rows)
  <2>1. id \notin Present(rows)
    BY <1>3, HeldFate DEF Holding
  <2> QED
    BY <1>1, <2>1, MarkingNothing, StillRowsForward
<1> QED
  BY <1>2, <1>3

\* mark_failed defers the scan it blames.
LEMMA MarkFailedForwards ==
    ASSUME TypedQueue, BookInv, Marks, dpc = "mark_failed",
           NEW w \in 0 .. RetryTicks, rows' = MarkFailed(rows, scan.id, w)
    PROVE  ForwardStep
<1> rows \in Table
  BY DEF TypedQueue, TypeOK, Table
<1> PICK s, id : s = scan.scan /\ id = scan.id
  OBVIOUS
<1>1. UNCHANGED <<captured, handed, dropped, cleared>>
  BY DEF Marks
<1>2. CASE id \in Pending(rows)
  <2>1. rows[id].scan = s /\ s \in Scans /\ id \in Present(rows)
    BY <1>2, HeldFate, PendingRows DEF Holding
  <2>2. KeepsScans(rows, rows') /\ Pending(rows') = Pending(rows)
    <3>1. /\ KeepsScans(rows, rows')
          /\ Pending(rows') = Pending(rows) \cup ({scan.id} \cap Present(rows))
      BY MarkFailedEffect
    <3> QED
      BY <1>2, <3>1
  <2>3. rows'[id].failed /\ \A i \in RowIds \ {id} : rows'[i] = rows[i]
    BY <2>1, MarkFailedRows
  <2>4. Fates' = [Fates EXCEPT ![s] = "deferred"]
    BY <1>1, <1>2, <2>1, <2>2, <2>3, OneRowForwards
  <2>5. Fates[s] \in {"new", "deferred"}
    BY <1>2, <2>1, PendingFate DEF Fates
  <2>6. Forwarding!Defer(s)
    BY <1>1, <2>1, <2>4, <2>5
       DEF Forwarding!Defer, Forwarding!Outstanding, Forwarding!Scans, Scans
  <2> QED
    BY <2>1, <2>6 DEF ForwardStep, Forwarding!Next, Forwarding!Scans, Scans
<1>3. CASE id \notin Pending(rows)
  <2>1. id \notin Present(rows)
    BY <1>3, HeldFate DEF Holding
  <2> QED
    BY <1>1, <2>1, MarkingNothing, StillRowsForward
<1> QED
  BY <1>2, <1>3

\* Retention does not touch pending rows.
LEMMA CleansForwards ==
    ASSUME TypedQueue, Cleans
    PROVE  ForwardStep
<1> rows \in Table
  BY DEF TypedQueue, TypeOK, Table
<1>1. PICK gone : rows' = DeleteRows(rows, gone \cap Sent(rows))
  BY DEF Cleans
<1>2. /\ Pending(rows') = Pending(rows) \ (gone \cap Sent(rows))
      /\ \A i \in Present(rows') : rows'[i] = rows[i]
  BY <1>1, DeleteEffect, DeleteRowsKept
<1>3. Pending(rows') = Pending(rows) /\ Pending(rows') \subseteq Present(rows')
  BY <1>2, PendingIsNotSent DEF Pending, Present
<1> QED
  BY <1>2, <1>3, SamePendingForwards DEF Cleans

\* Nor does time.
LEMMA TickForwards ==
    ASSUME TypedQueue, Tick
    PROVE  ForwardStep
<1> rows \in Table
  BY DEF TypedQueue, TypeOK, Table
<1>1. /\ rows' = Elapse(rows) /\ KeepsScans(rows, rows') /\ Pending(rows') = Pending(rows)
      /\ \A i \in RowIds : rows'[i].failed = rows[i].failed
  BY ElapseEffect, ElapseRows DEF Tick
<1>2. Pending(rows') \subseteq Present(rows') \cap RowIds
  BY <1>1 DEF Pending, Present, Table, RowSet
<1> QED
  BY <1>1, <1>2, SamePendingForwards DEF Tick, history, KeepsScans

\* Nor does a clock that is set.
LEMMA SetClockForwards ==
    ASSUME TypedQueue, SetClock
    PROVE  ForwardStep
<1> rows \in Table
  BY DEF TypedQueue, TypeOK, Table
<1>1. PICK w \in [RowIds -> 0 .. RetryTicks] : rows' = Reschedule(rows, w)
  BY DEF SetClock
<1>2. /\ KeepsScans(rows, rows') /\ Pending(rows') = Pending(rows)
      /\ \A i \in RowIds : rows'[i].failed = rows[i].failed
  BY <1>1, RescheduleEffect, RescheduleRows
<1>3. Pending(rows') \subseteq Present(rows') \cap RowIds
  BY <1>2 DEF Pending, Present, Table, RowSet
<1> QED
  BY <1>2, <1>3, SamePendingForwards DEF SetClock, history, KeepsScans

\* An operator clears what is outstanding.
LEMMA ClearForwards ==
    ASSUME TypedQueue, BookInv, OperatorClears
    PROVE  ForwardStep
<1>1. /\ cleared' = cleared \cup {rows[i].scan : i \in Pending(rows)}
      /\ UNCHANGED <<captured, handed, dropped>>
      /\ Pending(rows') = {}
  BY ClearKeepsBook DEF OperatorClears
<1>2. ASSUME NEW s \in Scans
      PROVE  Fate(s)' = IF Fate(s) \in {"new", "deferred"} THEN "gone" ELSE Fate(s)
  <2>1. ~IsNew(s)' /\ ~IsDeferred(s)'
    BY <1>1 DEF IsNew, IsDeferred
  <2>2. CASE \E i \in Pending(rows) : rows[i].scan = s
    <3>1. PICK i \in Pending(rows) : rows[i].scan = s
      BY <2>2
    <3>2. Fate(s) \in {"new", "deferred"} /\ s \in cleared'
      BY <1>1, <3>1, PendingFate
    <3>3. ~(s > captured)
      BY <3>2 DEF Fate
    <3> QED
      BY <1>1, <3>2, <3>3 DEF Fate
  <2>3. CASE ~\E i \in Pending(rows) : rows[i].scan = s
    <3>1. ~IsNew(s) /\ ~IsDeferred(s) /\ (s \in cleared' <=> s \in cleared)
      BY <1>1, <2>3 DEF IsNew, IsDeferred
    <3> QED
      BY <1>1, <2>1, <3>1 DEF Fate
  <2> QED
    BY <2>2, <2>3
<1>3. Fates' = [s \in Scans |-> IF Fates[s] \in {"new", "deferred"} THEN "gone" ELSE Fates[s]]
  BY <1>2 DEF Fates
<1>4. Forwarding!Clear
  BY <1>1, <1>3 DEF Forwarding!Clear, Forwarding!Outstanding, Forwarding!Scans, Scans
<1> QED
  BY <1>4 DEF ForwardStep, Forwarding!Next

\* Every step of the service is a step of the forwarder, or none.
LEMMA NextForwards == TypedQueue /\ BookInv /\ [Next]_vars => ForwardStep
<1> SUFFICES ASSUME TypedQueue, BookInv, [Next]_vars PROVE ForwardStep
  OBVIOUS
<1>1. CASE Quiet \/ Fetches("send") \/ Fetches("mark_failed")
  BY <1>1, StillRowsForward DEF Quiet, Fetches
<1>2. CASE Marks
  BY <1>2, MarkSentForwards, MarkFailedForwards DEF Marks
<1> QED
  BY <1>1, <1>2, Steps, CaptureForwards, CaptureFailsForwards, SendForwards,
     CleansForwards, TickForwards, SetClockForwards, ClearForwards

\* The service is an at-least-once forwarder, oldest scan first: whatever fails,
\* crashes, restarts or is cleared, and however many scans there are.
THEOREM ServiceForwards == Spec => ForwardsScans
<1>1. Init => Forwarding!Init
  <2> SUFFICES ASSUME Init PROVE Fates = [s \in Scans |-> "none"] /\ handed = {}
    BY DEF Forwarding!Init, Forwarding!Scans, Scans
  <2>1. captured = 0 /\ handed = {}
    BY DEF Init
  <2>2. \A s \in Scans : Fate(s) = "none"
    BY <2>1 DEF Fate, Scans
  <2> QED
    BY <2>1, <2>2 DEF Fates
<1>2. TypedQueue /\ BookInv /\ [Next]_vars => [Forwarding!Next]_<<Fates, handed>>
  BY NextForwards DEF ForwardStep
<1> QED
  BY InitTypedQueue, NextTypedQueue, InitBook, NextBook, <1>1, <1>2, PTL
     DEF Spec, ForwardsScans, Forwarding!Spec

\* What the books say of a scan that is off the books.
Final(s) == Fates[s] \in {"sent", "gone"}

\* The forwarder takes nothing back on its books.
LEMMA ForwardIsFinal ==
    ASSUME ForwardStep, NEW s \in Scans, Final(s)
    PROVE  Fates'[s] = Fates[s]
<1> USE DEF Final, Forwarding!Scans, Scans
<1>1. CASE Forwarding!Clear
  BY <1>1 DEF Forwarding!Clear, Forwarding!Outstanding
<1>2. CASE \E t \in Forwarding!Scans : Forwarding!Take(t)
  <2>1. PICK t \in Forwarding!Scans, f \in {"new", "gone"} :
            Fates[t] = "none" /\ Fates' = [Fates EXCEPT ![t] = f]
    BY <1>2 DEF Forwarding!Take
  <2>2. s # t
    BY <2>1
  <2> QED
    BY <2>1, <2>2 DEF Fates
<1>3. CASE \E t \in Forwarding!Scans : Forwarding!Hand(t)
  BY <1>3 DEF Forwarding!Hand
<1>4. CASE \E t \in Forwarding!Scans : Forwarding!Defer(t) \/ Forwarding!Retire(t)
  <2>1. PICK t \in Forwarding!Scans, f \in {"deferred", "sent"} :
            t \in Forwarding!Outstanding /\ Fates' = [Fates EXCEPT ![t] = f]
    BY <1>4 DEF Forwarding!Defer, Forwarding!Retire
  <2>2. s # t
    BY <2>1 DEF Forwarding!Outstanding
  <2> QED
    BY <2>1, <2>2 DEF Fates
<1>5. CASE UNCHANGED <<Fates, handed>>
  BY <1>5
<1> QED
  BY <1>1, <1>2, <1>3, <1>4, <1>5 DEF ForwardStep, Forwarding!Next

\* A scan that was recorded as sent, was cleared, or never reached the queue does
\* not come back into it, though mark_failed makes its row pending whatever it
\* was: over any number of restarts, whoever clears the queue meanwhile.
THEOREM FatesAreFinal == Spec => [][\A s \in Scans : Final(s) => Fates'[s] = Fates[s]]_vars
<1>1. TypedQueue /\ BookInv /\ [Next]_vars
          => [\A s \in Scans : Final(s) => Fates'[s] = Fates[s]]_vars
  BY NextForwards, ForwardIsFinal
<1> QED
  BY InitTypedQueue, NextTypedQueue, InitBook, NextBook, <1>1, PTL DEF Spec

=============================================================================
