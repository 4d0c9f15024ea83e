-------------------------- MODULE ScanServiceProofs --------------------------
(***************************************************************************)
(* Theorems about ScanService, for any number of scans, any retry interval *)
(* and any setting of the switches.                                        *)
(***************************************************************************)
EXTENDS ScanService, TLAPS

USE MaxScansAssumption, RetryTicksAssumption

-----------------------------------------------------------------------------
(* The statements on the scans table keep it a table. *)

Table == RowSet(RowIds, 0 .. MaxScans, 0 .. RetryTicks)

Row == [state : {"absent", "pending", "sent"}, scan : 0 .. MaxScans,
        failed : BOOLEAN, wait : 0 .. RetryTicks]

\* What the process and the worker fall back to is typed.
LEMMA NothingHeld ==
    NoScan \in [id : 0 .. MaxScans, scan : 0 .. MaxScans] /\ 0 \in 0 .. RetryTicks
BY DEF NoScan

\* An insert yields a table.
LEMMA EnqueueType ==
    ASSUME NEW r \in Table, NEW id \in RowIds, NEW s \in Scans
    PROVE  EnqueueScan(r, id, s) \in Table
BY DEF Table, RowSet, EnqueueScan, NewRow, RowIds, Scans

\* So does mark_sent, for a row that exists or not.
LEMMA MarkSentType ==
    ASSUME NEW r \in Table, NEW id
    PROVE  MarkSent(r, id) \in Table
<1> DEFINE new(i) == IF i = id /\ r[i].state # "absent"
                     THEN [r[i] EXCEPT !.state = "sent", !.wait = 0] ELSE r[i]
<1>1. DOMAIN r = RowIds
  BY DEF Table, RowSet
<1>2. ASSUME NEW i \in RowIds PROVE new(i) \in Row
  <2>1. r[i] \in Row
    BY DEF Table, RowSet, Row
  <2>2. 0 \in 0 .. RetryTicks
    OBVIOUS
  <2> QED
    BY <2>1, <2>2 DEF Row
<1>3. MarkSent(r, id) = [i \in RowIds |-> new(i)]
  BY <1>1 DEF MarkSent
<1> QED
  BY <1>2, <1>3 DEF Table, RowSet, Row

\* So does mark_failed, with a retry time of at most the interval.
LEMMA MarkFailedType ==
    ASSUME NEW r \in Table, NEW id, NEW w \in 0 .. RetryTicks
    PROVE  MarkFailed(r, id, w) \in Table
BY DEF Table, RowSet, MarkFailed, RowIds

\* So does every DELETE.
LEMMA DeleteType ==
    ASSUME NEW r \in Table, NEW gone
    PROVE  DeleteRows(r, gone) \in Table
BY DEF Table, RowSet, DeleteRows, Absent, RowIds

\* So does the passing of time.
LEMMA ElapseType ==
    ASSUME NEW r \in Table
    PROVE  Elapse(r) \in Table
BY DEF Table, RowSet, Elapse, RowIds

\* So does a clock that is set.
LEMMA RescheduleType ==
    ASSUME NEW r \in Table, NEW w \in [RowIds -> 0 .. RetryTicks]
    PROVE  Reschedule(r, w) \in Table
BY DEF Table, RowSet, Reschedule, RowIds

-----------------------------------------------------------------------------
(* What they do to the three sets of rows, and that a row keeps its scan.  *)

KeepsScans(r, q) == \A i \in Present(q) : i \in Present(r) /\ q[i].scan = r[i].scan

\* mark_sent moves one row, if it is there.
LEMMA MarkSentEffect ==
    ASSUME NEW r \in Table, NEW id
    PROVE  /\ KeepsScans(r, MarkSent(r, id))
           /\ Pending(MarkSent(r, id)) = Pending(r) \ {id}
           /\ Sent(MarkSent(r, id)) = Sent(r) \cup ({id} \cap Present(r))
<1> DEFINE q == MarkSent(r, id)
<1>1. DOMAIN r = RowIds /\ DOMAIN q = RowIds
  BY DEF Table, RowSet, MarkSent
<1>2. ASSUME NEW i \in RowIds
      PROVE  /\ q[i].scan = r[i].scan
             /\ q[i].state = IF i = id /\ r[i].state # "absent" THEN "sent" ELSE r[i].state
  <2>1. r[i] \in Row
    BY DEF Table, RowSet, Row
  <2>2. q[i] = IF i = id /\ r[i].state # "absent"
               THEN [r[i] EXCEPT !.state = "sent", !.wait = 0] ELSE r[i]
    BY <1>1 DEF MarkSent
  <2> QED
    BY <2>1, <2>2 DEF Row
<1> HIDE DEF q
<1>3. KeepsScans(r, q) /\ Pending(q) = Pending(r) \ {id}
      /\ Sent(q) = Sent(r) \cup ({id} \cap Present(r))
  BY <1>1, <1>2 DEF KeepsScans, Present, Pending, Sent
<1> QED
  BY <1>3 DEF q

\* mark_failed leaves one row pending, if it is there.
LEMMA MarkFailedEffect ==
    ASSUME NEW r \in Table, NEW id, NEW w \in 0 .. RetryTicks
    PROVE  /\ KeepsScans(r, MarkFailed(r, id, w))
           /\ Pending(MarkFailed(r, id, w)) = Pending(r) \cup ({id} \cap Present(r))
           /\ Sent(MarkFailed(r, id, w)) = Sent(r) \ {id}
<1> DEFINE q == MarkFailed(r, id, w)
<1>1. DOMAIN r = RowIds /\ DOMAIN q = RowIds
  BY DEF Table, RowSet, MarkFailed
<1>2. ASSUME NEW i \in RowIds
      PROVE  /\ q[i].scan = r[i].scan
             /\ q[i].state = IF i = id /\ r[i].state # "absent" THEN "pending" ELSE r[i].state
  <2>1. r[i] \in Row
    BY DEF Table, RowSet, Row
  <2>2. q[i] = IF i = id /\ r[i].state # "absent"
               THEN [r[i] EXCEPT !.state = "pending", !.failed = TRUE, !.wait = w] ELSE r[i]
    BY <1>1 DEF MarkFailed
  <2> QED
    BY <2>1, <2>2 DEF Row
<1> HIDE DEF q
<1>3. KeepsScans(r, q) /\ Pending(q) = Pending(r) \cup ({id} \cap Present(r))
      /\ Sent(q) = Sent(r) \ {id}
  BY <1>1, <1>2 DEF KeepsScans, Present, Pending, Sent
<1> QED
  BY <1>3 DEF q

\* A DELETE takes rows away and does nothing else.
LEMMA DeleteEffect ==
    ASSUME NEW r \in Table, NEW gone
    PROVE  /\ KeepsScans(r, DeleteRows(r, gone))
           /\ Pending(DeleteRows(r, gone)) = Pending(r) \ gone
           /\ Sent(DeleteRows(r, gone)) = Sent(r) \ gone
BY DEF Table, RowSet, KeepsScans, DeleteRows, Absent, Present, Pending, Sent

\* Time changes no state and no scan.
LEMMA ElapseEffect ==
    ASSUME NEW r \in Table
    PROVE  /\ KeepsScans(r, Elapse(r))
           /\ Pending(Elapse(r)) = Pending(r)
           /\ Sent(Elapse(r)) = Sent(r)
BY DEF Table, RowSet, KeepsScans, Elapse, Present, Pending, Sent

\* Nor does a clock that is set.
LEMMA RescheduleEffect ==
    ASSUME NEW r \in Table, NEW w \in [RowIds -> 0 .. RetryTicks]
    PROVE  /\ KeepsScans(r, Reschedule(r, w))
           /\ Pending(Reschedule(r, w)) = Pending(r)
           /\ Sent(Reschedule(r, w)) = Sent(r)
BY DEF Table, RowSet, KeepsScans, Reschedule, Present, Pending, Sent

-----------------------------------------------------------------------------
(* Types and the consistency of the queue are invariant together: an insert *)
(* finds a free id only because lastId <= captured, and the scan written to *)
(* the socket is a scan only because the worker holds a row.                *)

TypedQueue == TypeOK /\ QueueConsistent

\* A step that leaves the queue and the history alone, and the scan in hand
\* unless the worker lets go of it.
Quiet == /\ UNCHANGED <<rows, lastId, captured, handed, dropped, cleared>>
         /\ UNCHANGED <<dpc, scan>> \/ ~Holding'

\* Such a step keeps the queue consistent.
LEMMA QuietKeepsQueue ==
    ASSUME QueueConsistent, Quiet
    PROVE  QueueConsistent'
BY DEF QueueConsistent, Quiet, Holding, Present, Sent

\* The initial state is typed, and its queue consistent.
LEMMA InitTypedQueue == Init => TypedQueue
<1> SUFFICES ASSUME Init PROVE TypedQueue
  OBVIOUS
<1>1. EmptyTable \in Table
  BY DEF EmptyTable, Absent, Table, RowSet
<1>2. TypeOK
  <2>1. rows \in Table /\ lastId \in 0 .. MaxScans /\ captured \in 0 .. MaxScans
    BY <1>1 DEF Init
  <2>2. /\ status \in [scanner : StatusValues, server : StatusValues]
        /\ mpc \in MainPoints /\ stop \in BOOLEAN /\ runtime \in ScannerStates
    BY DEF Init, StatusValues, MainPoints, ScannerStates
  <2>3. /\ dpc \in WorkerPoints /\ sock \in {"none", "open", "broken"}
        /\ scan \in [id : 0 .. MaxScans, scan : 0 .. MaxScans]
        /\ sleep \in 0 .. RetryTicks
    BY NothingHeld DEF Init, WorkerPoints
  <2>4. /\ plugged \in BOOLEAN /\ serverUp \in BOOLEAN /\ calm \in BOOLEAN
        /\ handed \subseteq Scans /\ dropped \subseteq Scans /\ cleared \subseteq Scans
    BY DEF Init
  <2> QED
    BY <2>1, <2>2, <2>3, <2>4 DEF TypeOK, Table
<1>3. Present(rows) = {} /\ Sent(rows) = {}
  BY DEF Init, EmptyTable, Absent, Present, Sent
<1>4. QueueConsistent
  BY <1>3 DEF Init, QueueConsistent, Holding
<1> QED
  BY <1>2, <1>4 DEF TypedQueue

\* The main thread's own steps leave the queue alone.
LEMMA MainStepKeepsQueue ==
    ASSUME TypedQueue, MainStep
    PROVE  TypedQueue'
<1> USE DEF TypedQueue
<1>1. CASE Initialize
  <2>1. TypeOK'
    BY <1>1 DEF Initialize, TypeOK, db, main, worker, world, history, ScannerStates, StatusValues, MainPoints, WorkerPoints
  <2>2. Quiet
    BY <1>1 DEF Initialize, Quiet, Holding, db, main, worker, world, history, ScannerStates, StatusValues, MainPoints, WorkerPoints
  <2> QED
    BY <2>1, <2>2, QuietKeepsQueue
<1>2. CASE InitializeFails
  <2>1. TypeOK'
    BY <1>2, NothingHeld DEF InitializeFails, TypeOK, db, main, worker, world, history, ScannerStates, StatusValues, MainPoints, WorkerPoints, ProcessGone
  <2>2. Quiet
    BY <1>2 DEF InitializeFails, Quiet, Holding, db, main, worker, world, history, ScannerStates, StatusValues, MainPoints, WorkerPoints, ProcessGone, NoScan
  <2> QED
    BY <2>1, <2>2, QuietKeepsQueue
<1>3. CASE EnterScannerLoop
  <2>1. TypeOK'
    BY <1>3 DEF EnterScannerLoop, TypeOK, db, main, worker, world, history, ScannerStates, StatusValues, MainPoints, WorkerPoints
  <2>2. Quiet
    BY <1>3 DEF EnterScannerLoop, Quiet, Holding, db, main, worker, world, history, ScannerStates, StatusValues, MainPoints, WorkerPoints
  <2> QED
    BY <2>1, <2>2, QuietKeepsQueue
<1>4. CASE StopRequested
  <2>1. TypeOK'
    BY <1>4 DEF StopRequested, TypeOK, db, main, worker, world, history, ScannerStates, StatusValues, MainPoints, WorkerPoints, Finally
  <2>2. Quiet
    BY <1>4 DEF StopRequested, Quiet, Holding, db, main, worker, world, history, ScannerStates, StatusValues, MainPoints, WorkerPoints, Finally
  <2> QED
    BY <2>1, <2>2, QuietKeepsQueue
<1>5. CASE Discover
  <2>1. TypeOK'
    BY <1>5 DEF Discover, TypeOK, db, main, worker, world, history, ScannerStates, StatusValues, MainPoints, WorkerPoints, Update
  <2>2. Quiet
    BY <1>5 DEF Discover, Quiet, Holding, db, main, worker, world, history, ScannerStates, StatusValues, MainPoints, WorkerPoints, Update
  <2> QED
    BY <2>1, <2>2, QuietKeepsQueue
<1>6. CASE OpenDevice
  <2>1. TypeOK'
    BY <1>6 DEF OpenDevice, TypeOK, db, main, worker, world, history, ScannerStates, StatusValues, MainPoints, WorkerPoints, Update
  <2>2. Quiet
    BY <1>6 DEF OpenDevice, Quiet, Holding, db, main, worker, world, history, ScannerStates, StatusValues, MainPoints, WorkerPoints, Update
  <2> QED
    BY <2>1, <2>2, QuietKeepsQueue
<1>7. CASE PersistScannerState
  <2>1. TypeOK'
    BY <1>7 DEF PersistScannerState, TypeOK, db, main, worker, world, history, ScannerStates, StatusValues, MainPoints, WorkerPoints, ScannerStatus, PersistedAvailability, AfterPersist
  <2>2. Quiet
    BY <1>7 DEF PersistScannerState, Quiet, Holding, db, main, worker, world, history, ScannerStates, StatusValues, MainPoints, WorkerPoints, ScannerStatus, PersistedAvailability, AfterPersist
  <2> QED
    BY <2>1, <2>2, QuietKeepsQueue
<1>8. CASE PersistFails
  <2>1. TypeOK'
    <3>1. UNCHANGED <<db, worker, world, history>>
      BY <1>8 DEF PersistFails
    <3>2. mpc' \in MainPoints /\ stop' \in BOOLEAN /\ runtime' \in ScannerStates
      <4>1. CASE runtime = "connected"
        BY <1>8, <4>1 DEF PersistFails, Update, TypeOK, MainPoints, ScannerStates
      <4>2. CASE runtime # "connected"
        BY <1>8, <4>2 DEF PersistFails, Finally, TypeOK, MainPoints
      <4> QED
        BY <4>1, <4>2
    <3> QED
      BY <3>1, <3>2 DEF TypeOK, db, worker, world, history
  <2>2. Quiet
    BY <1>8 DEF PersistFails, Quiet, Holding, db, main, worker, world, history, ScannerStates, StatusValues, MainPoints, WorkerPoints, Finally, Update
  <2> QED
    BY <2>1, <2>2, QuietKeepsQueue
<1>9. CASE PersistScannerStateSafely
  <2>1. TypeOK'
    BY <1>9 DEF PersistScannerStateSafely, TypeOK, db, main, worker, world, history, ScannerStates, StatusValues, MainPoints, WorkerPoints, ScannerStatus, PersistedAvailability
  <2>2. Quiet
    BY <1>9 DEF PersistScannerStateSafely, Quiet, Holding, db, main, worker, world, history, ScannerStates, StatusValues, MainPoints, WorkerPoints, ScannerStatus, PersistedAvailability
  <2> QED
    BY <2>1, <2>2, QuietKeepsQueue
<1>10. CASE WakeFromNap
  <2>1. TypeOK'
    BY <1>10 DEF WakeFromNap, TypeOK, db, main, worker, world, history, ScannerStates, StatusValues, MainPoints, WorkerPoints
  <2>2. Quiet
    BY <1>10 DEF WakeFromNap, Quiet, Holding, db, main, worker, world, history, ScannerStates, StatusValues, MainPoints, WorkerPoints
  <2> QED
    BY <2>1, <2>2, QuietKeepsQueue
<1>11. CASE ReadFails
  <2>1. TypeOK'
    BY <1>11 DEF ReadFails, TypeOK, db, main, worker, world, history, ScannerStates, StatusValues, MainPoints, WorkerPoints, Update
  <2>2. Quiet
    BY <1>11 DEF ReadFails, Quiet, Holding, db, main, worker, world, history, ScannerStates, StatusValues, MainPoints, WorkerPoints, Update
  <2> QED
    BY <2>1, <2>2, QuietKeepsQueue
<1>12. CASE SetLastScanId
  <2>1. TypeOK'
    BY <1>12 DEF SetLastScanId, TypeOK, db, main, worker, world, history, ScannerStates, StatusValues, MainPoints, WorkerPoints, Update
  <2>2. Quiet
    BY <1>12 DEF SetLastScanId, Quiet, Holding, db, main, worker, world, history, ScannerStates, StatusValues, MainPoints, WorkerPoints, Update
  <2> QED
    BY <2>1, <2>2, QuietKeepsQueue
<1>13. CASE JoinWorker
  <2>1. TypeOK'
    BY <1>13 DEF JoinWorker, TypeOK, db, main, worker, world, history, ScannerStates, StatusValues, MainPoints, WorkerPoints
  <2>2. Quiet
    BY <1>13 DEF JoinWorker, Quiet, Holding, db, main, worker, world, history, ScannerStates, StatusValues, MainPoints, WorkerPoints
  <2> QED
    BY <2>1, <2>2, QuietKeepsQueue
<1>14. CASE WriteStopped
  <2>1. TypeOK'
    BY <1>14 DEF WriteStopped, TypeOK, db, main, worker, world, history, ScannerStates, StatusValues, MainPoints, WorkerPoints
  <2>2. Quiet
    BY <1>14 DEF WriteStopped, Quiet, Holding, db, main, worker, world, history, ScannerStates, StatusValues, MainPoints, WorkerPoints
  <2> QED
    BY <2>1, <2>2, QuietKeepsQueue
<1>15. CASE Exit
  <2>1. TypeOK'
    BY <1>15, NothingHeld DEF Exit, TypeOK, db, main, worker, world, history, ScannerStates, StatusValues, MainPoints, WorkerPoints, ProcessGone
  <2>2. Quiet
    BY <1>15 DEF Exit, Quiet, Holding, db, main, worker, world, history, ScannerStates, StatusValues, MainPoints, WorkerPoints, ProcessGone, NoScan
  <2> QED
    BY <2>1, <2>2, QuietKeepsQueue
<1> QED
  BY <1>1, <1>2, <1>3, <1>4, <1>5, <1>6, <1>7, <1>8, <1>9, <1>10, <1>11, <1>12, <1>13, <1>14, <1>15 DEF MainStep

\* A completed scan gets a row with an id that was never used, or is dropped.
LEMMA CaptureKeepsQueue ==
    ASSUME TypedQueue, CaptureScan \/ CaptureFails
    PROVE  TypedQueue'
<1> USE DEF TypedQueue
<1>1. CASE CaptureScan
  <2>1. captured' \in Scans /\ captured' = captured + 1 /\ lastId' = lastId + 1
    BY <1>1 DEF CaptureScan, Completed, NextRowId, TypeOK, Scans
  <2>2. lastId' \in RowIds /\ lastId' <= captured' /\ lastId \in Nat
    BY <2>1 DEF TypeOK, QueueConsistent, RowIds, Scans
  <2>3. rows' = EnqueueScan(rows, lastId', captured')
    BY <1>1 DEF CaptureScan
  <2>4. rows' \in Table
    BY <2>1, <2>2, <2>3, EnqueueType DEF TypeOK, Table
  <2>5. TypeOK'
    BY <1>1, <2>1, <2>2, <2>4 DEF CaptureScan, TypeOK, Table, Scans, RowIds, MainPoints, worker, world
  <2>6. ASSUME NEW i \in RowIds
        PROVE  rows'[i] = IF i = lastId' THEN NewRow(captured') ELSE rows[i]
    BY <2>3 DEF EnqueueScan, TypeOK, RowSet
  <2>7. DOMAIN rows = RowIds /\ DOMAIN rows' = RowIds
    BY <2>4 DEF TypeOK, Table, RowSet
  <2>8. UNCHANGED <<dpc, scan, handed>>
    BY <1>1 DEF CaptureScan, worker
  <2>9. QueueConsistent'
    <3>1. \A i \in Present(rows') : i <= lastId' /\ rows'[i].scan \in 1 .. captured'
      BY <2>1, <2>2, <2>6, <2>7 DEF Present, NewRow, QueueConsistent, TypeOK, RowIds, Scans
    <3>2. \A i \in Sent(rows') : rows'[i].scan \in handed'
      BY <2>6, <2>7, <2>8 DEF Sent, NewRow, QueueConsistent
    <3>3. ASSUME Holding'
          PROVE  /\ scan'.id \in 1 .. lastId' /\ scan'.scan \in 1 .. captured'
                 /\ scan'.id \in Present(rows') => rows'[scan'.id].scan = scan'.scan
      <4>1. Holding /\ scan.id \in 1 .. lastId /\ scan.scan \in 1 .. captured
        BY <3>3, <2>8 DEF Holding, QueueConsistent
      <4>2. scan.id # lastId' /\ scan.id \in RowIds
        BY <4>1, <2>1, <2>2 DEF RowIds, TypeOK
      <4>3. scan.id \in Present(rows') => rows'[scan.id].scan = scan.scan
        BY <4>1, <4>2, <2>6, <2>7 DEF QueueConsistent, Present
      <4> QED
        BY <4>1, <4>3, <2>1, <2>2, <2>8 DEF TypeOK
    <3> QED
      BY <2>2, <2>8, <3>1, <3>2, <3>3 DEF QueueConsistent
  <2> QED
    BY <2>5, <2>9
<1>2. CASE CaptureFails
  <2>1. captured' \in Scans /\ captured' = captured + 1
    BY <1>2 DEF CaptureFails, Completed, TypeOK, Scans
  <2>2. TypeOK'
    BY <1>2, <2>1 DEF CaptureFails, Update, TypeOK, Scans, MainPoints, ScannerStates, db, worker, world
  <2>3. QueueConsistent'
    BY <1>2, <2>1 DEF CaptureFails, QueueConsistent, TypeOK, Holding, Present, Sent, db, worker, Scans, RowIds
  <2> QED
    BY <2>2, <2>3
<1> QED
  BY <1>1, <1>2

\* An update that keeps the scan of every row it keeps, and calls only scans
\* sent that were handed over, keeps the queue consistent.
LEMMA UpdateKeepsQueue ==
    ASSUME TypedQueue,
           UNCHANGED <<lastId, captured, handed>>,
           UNCHANGED <<dpc, scan>> \/ ~Holding',
           KeepsScans(rows, rows'),
           \A i \in Sent(rows') : i \in Sent(rows) \/ rows[i].scan \in handed,
           Sent(rows') \subseteq Present(rows')
    PROVE  QueueConsistent'
<1> USE DEF TypedQueue, KeepsScans
<1>1. \A i \in Present(rows') : i <= lastId' /\ rows'[i].scan \in 1 .. captured'
  BY DEF QueueConsistent
<1>2. \A i \in Sent(rows') : rows'[i].scan \in handed'
  BY DEF QueueConsistent
<1>3. Holding' => /\ scan'.id \in 1 .. lastId' /\ scan'.scan \in 1 .. captured'
                  /\ scan'.id \in Present(rows') => rows'[scan'.id].scan = scan'.scan
  BY DEF QueueConsistent, Holding
<1>4. dpc' = "mark_sent" => scan'.scan \in handed'
  BY DEF QueueConsistent, Holding
<1> QED
  BY <1>1, <1>2, <1>3, <1>4 DEF QueueConsistent

\* A row called sent is in the table.
LEMMA SentArePresent == ASSUME NEW r PROVE Sent(r) \subseteq Present(r)
BY DEF Sent, Present

\* The worker updates the row it holds, and marks it sent only after a send.
LEMMA WorkerKeepsQueue ==
    ASSUME TypedQueue, WorkerNext
    PROVE  TypedQueue'
<1> USE DEF TypedQueue
<1>1. CASE Snapshot
  <2>1. TypeOK'
    BY <1>1 DEF Snapshot, TypeOK, db, main, worker, world, history, ScannerStates, StatusValues, MainPoints, WorkerPoints, Disconnected
  <2>2. Quiet
    BY <1>1 DEF Snapshot, Quiet, Holding, db, main, worker, world, history, ScannerStates, StatusValues, MainPoints, WorkerPoints, Disconnected
  <2> QED
    BY <2>1, <2>2, QuietKeepsQueue
<1>2. CASE WriteNotAttempted
  <2>1. TypeOK'
    BY <1>2, NothingHeld DEF WriteNotAttempted, TypeOK, db, main, worker, world, history, ScannerStates, StatusValues, MainPoints, WorkerPoints, ServerStatus, GoOn, WorkerDies
  <2>2. Quiet
    BY <1>2 DEF WriteNotAttempted, Quiet, Holding, db, main, worker, world, history, ScannerStates, StatusValues, MainPoints, WorkerPoints, ServerStatus, GoOn, WorkerDies, NoScan
  <2> QED
    BY <2>1, <2>2, QuietKeepsQueue
<1>3. CASE Connect
  <2>1. TypeOK'
    BY <1>3 DEF Connect, TypeOK, db, main, worker, world, history, ScannerStates, StatusValues, MainPoints, WorkerPoints, GoOn, TcpError, Disconnected
  <2>2. Quiet
    BY <1>3 DEF Connect, Quiet, Holding, db, main, worker, world, history, ScannerStates, StatusValues, MainPoints, WorkerPoints, GoOn, TcpError, Disconnected
  <2> QED
    BY <2>1, <2>2, QuietKeepsQueue
<1>4. CASE WriteConnected
  <2>1. TypeOK'
    BY <1>4, NothingHeld DEF WriteConnected, TypeOK, db, main, worker, world, history, ScannerStates, StatusValues, MainPoints, WorkerPoints, ServerStatus, GoOn, GenericError, Disconnected
  <2>2. Quiet
    BY <1>4 DEF WriteConnected, Quiet, Holding, db, main, worker, world, history, ScannerStates, StatusValues, MainPoints, WorkerPoints, ServerStatus, GoOn, GenericError, Disconnected, NoScan
  <2> QED
    BY <2>1, <2>2, QuietKeepsQueue
<1>5. CASE WakeFromPoll
  <2>1. TypeOK'
    BY <1>5 DEF WakeFromPoll, TypeOK, db, main, worker, world, history, ScannerStates, StatusValues, MainPoints, WorkerPoints, GoOn
  <2>2. Quiet
    BY <1>5 DEF WakeFromPoll, Quiet, Holding, db, main, worker, world, history, ScannerStates, StatusValues, MainPoints, WorkerPoints, GoOn
  <2> QED
    BY <2>1, <2>2, QuietKeepsQueue
<1>6. CASE SendFails
  <2>1. TypeOK'
    BY <1>6 DEF SendFails, TypeOK, db, main, worker, world, history, ScannerStates, StatusValues, MainPoints, WorkerPoints, TcpError, Disconnected
  <2>2. Quiet
    BY <1>6 DEF SendFails, Quiet, Holding, db, main, worker, world, history, ScannerStates, StatusValues, MainPoints, WorkerPoints, TcpError, Disconnected
  <2> QED
    BY <2>1, <2>2, QuietKeepsQueue
<1>7. CASE WriteDelivered
  <2>1. TypeOK'
    BY <1>7, NothingHeld DEF WriteDelivered, TypeOK, db, main, worker, world, history, ScannerStates, StatusValues, MainPoints, WorkerPoints, ServerStatus, GoOn, GenericError, Disconnected
  <2>2. Quiet
    BY <1>7 DEF WriteDelivered, Quiet, Holding, db, main, worker, world, history, ScannerStates, StatusValues, MainPoints, WorkerPoints, ServerStatus, GoOn, GenericError, Disconnected, NoScan
  <2> QED
    BY <2>1, <2>2, QuietKeepsQueue
<1>8. CASE WriteUnavailable
  <2>1. TypeOK'
    BY <1>8, NothingHeld DEF WriteUnavailable, TypeOK, db, main, worker, world, history, ScannerStates, StatusValues, MainPoints, WorkerPoints, ServerStatus, GoOn, WorkerDies
  <2>2. Quiet
    BY <1>8 DEF WriteUnavailable, Quiet, Holding, db, main, worker, world, history, ScannerStates, StatusValues, MainPoints, WorkerPoints, ServerStatus, GoOn, WorkerDies, NoScan
  <2> QED
    BY <2>1, <2>2, QuietKeepsQueue
<1>9. CASE WakeFromRetry
  <2>1. TypeOK'
    BY <1>9 DEF WakeFromRetry, TypeOK, db, main, worker, world, history, ScannerStates, StatusValues, MainPoints, WorkerPoints, GoOn
  <2>2. Quiet
    BY <1>9 DEF WakeFromRetry, Quiet, Holding, db, main, worker, world, history, ScannerStates, StatusValues, MainPoints, WorkerPoints, GoOn
  <2> QED
    BY <2>1, <2>2, QuietKeepsQueue
<1>10. CASE WriteDeliveryError
  <2>1. TypeOK'
    BY <1>10, NothingHeld DEF WriteDeliveryError, TypeOK, db, main, worker, world, history, ScannerStates, StatusValues, MainPoints, WorkerPoints, ServerStatus, RetrySleep
  <2>2. Quiet
    BY <1>10 DEF WriteDeliveryError, Quiet, Holding, db, main, worker, world, history, ScannerStates, StatusValues, MainPoints, WorkerPoints, ServerStatus, RetrySleep, NoScan
  <2> QED
    BY <2>1, <2>2, QuietKeepsQueue
<1>11. CASE FetchNextDue
  <2>1. UNCHANGED <<db, main, world, history>>
    BY <1>11 DEF FetchNextDue
  <2>2. CASE \E i \in RowIds : /\ IsNextDue(rows, i) /\ Fetched(i)
                              /\ dpc' = "send" /\ UNCHANGED <<sock, sleep>>
    <3>1. PICK i \in RowIds : /\ IsNextDue(rows, i) /\ Fetched(i)
                              /\ dpc' = "send" /\ UNCHANGED <<sock, sleep>>
      BY <2>2
    <3>2. i \in Present(rows) /\ rows[i].scan \in 1 .. captured /\ i <= lastId
      BY <3>1 DEF IsNextDue, Due, Pending, Present, QueueConsistent
    <3>3. scan' = [id |-> i, scan |-> rows[i].scan]
      BY <3>1 DEF Fetched
    <3>4. scan' \in [id : 0 .. MaxScans, scan : 0 .. MaxScans]
      BY <3>2, <3>3 DEF TypeOK, RowIds
    <3>5. TypeOK'
      BY <2>1, <3>1, <3>4 DEF TypeOK, WorkerPoints, db, main, world, history
    <3>6. scan'.id \in 1 .. lastId /\ scan'.scan \in 1 .. captured /\ rows[scan'.id].scan = scan'.scan
      BY <3>2, <3>3 DEF TypeOK, RowIds
    <3>7. QueueConsistent'
      BY <2>1, <3>1, <3>6 DEF QueueConsistent, Present, Sent, db, history
    <3> QED
      BY <3>5, <3>7
  <2>3. CASE GoOn("cleanup") \/ GenericError
    <3>1. TypeOK'
      BY <2>1, <2>3, NothingHeld DEF TypeOK, WorkerPoints, GoOn, GenericError, Disconnected, db, main, world, history
    <3>2. Quiet
      BY <2>1, <2>3 DEF Quiet, Holding, GoOn, GenericError, Disconnected, db, history
    <3> QED
      BY <3>1, <3>2, QuietKeepsQueue
  <2> QED
    BY <1>11, <2>2, <2>3 DEF FetchNextDue
<1>12. CASE RefetchNextDue
  <2>1. UNCHANGED <<db, main, world, history>>
    BY <1>12 DEF RefetchNextDue
  <2>2. CASE \E i \in RowIds : /\ IsNextDue(rows, i) /\ Fetched(i)
                              /\ dpc' = "mark_failed" /\ UNCHANGED <<sock, sleep>>
    <3>1. PICK i \in RowIds : /\ IsNextDue(rows, i) /\ Fetched(i)
                              /\ dpc' = "mark_failed" /\ UNCHANGED <<sock, sleep>>
      BY <2>2
    <3>2. i \in Present(rows) /\ rows[i].scan \in 1 .. captured /\ i <= lastId
      BY <3>1 DEF IsNextDue, Due, Pending, Present, QueueConsistent
    <3>3. scan' = [id |-> i, scan |-> rows[i].scan]
      BY <3>1 DEF Fetched
    <3>4. scan' \in [id : 0 .. MaxScans, scan : 0 .. MaxScans]
      BY <3>2, <3>3 DEF TypeOK, RowIds
    <3>5. TypeOK'
      BY <2>1, <3>1, <3>4 DEF TypeOK, WorkerPoints, db, main, world, history
    <3>6. scan'.id \in 1 .. lastId /\ scan'.scan \in 1 .. captured /\ rows[scan'.id].scan = scan'.scan
      BY <3>2, <3>3 DEF TypeOK, RowIds
    <3>7. QueueConsistent'
      BY <2>1, <3>1, <3>6 DEF QueueConsistent, Present, Sent, db, history
    <3> QED
      BY <3>5, <3>7
  <2>3. CASE RetrySleep \/ WorkerDies
    <3>1. TypeOK'
      BY <2>1, <2>3, NothingHeld DEF TypeOK, WorkerPoints, RetrySleep, WorkerDies, db, main, world, history
    <3>2. Quiet
      BY <2>1, <2>3 DEF Quiet, Holding, RetrySleep, WorkerDies, db, history
    <3> QED
      BY <3>1, <3>2, QuietKeepsQueue
  <2> QED
    BY <1>12, <2>2, <2>3 DEF RefetchNextDue
<1>13. CASE SendAccepted
  <2>1. scan.scan \in Scans
    BY <1>13 DEF SendAccepted, QueueConsistent, Holding, TypeOK, Scans
  <2>2. TypeOK'
    BY <1>13, <2>1 DEF SendAccepted, GoOn, TypeOK, WorkerPoints, db, main, world
  <2>3. QueueConsistent'
    BY <1>13 DEF SendAccepted, GoOn, QueueConsistent, Holding, Present, Sent, db
  <2> QED
    BY <2>2, <2>3
<1>14. CASE Cleanup
  <2>1. UNCHANGED <<lastId, status, main, world, history>>
    BY <1>14 DEF Cleanup
  <2>2. CASE \E old \in SUBSET RowIds : rows' = CleanupSent(rows, old) /\ GoOn("poll_sleep")
    <3>1. PICK old \in SUBSET RowIds : rows' = CleanupSent(rows, old) /\ GoOn("poll_sleep")
      BY <2>2
    <3>2. rows' \in Table
      BY <3>1, DeleteType DEF CleanupSent, TypeOK, Table
    <3>3. TypeOK'
      BY <2>1, <3>1, <3>2 DEF TypeOK, Table, GoOn, WorkerPoints, main, world, history
    <3>4. KeepsScans(rows, rows') /\ Sent(rows') \subseteq Sent(rows)
      BY <3>1, DeleteEffect DEF CleanupSent, TypeOK, Table
    <3>5. QueueConsistent'
      BY <2>1, <3>1, <3>4, UpdateKeepsQueue, SentArePresent DEF GoOn, Holding, history
    <3> QED
      BY <3>3, <3>5
  <2>3. CASE UNCHANGED rows /\ GenericError
    <3>1. TypeOK'
      BY <2>1, <2>3, NothingHeld DEF TypeOK, WorkerPoints, GenericError, Disconnected, main, world, history
    <3>2. Quiet
      BY <2>1, <2>3 DEF Quiet, Holding, GenericError, history
    <3> QED
      BY <3>1, <3>2, QuietKeepsQueue
  <2> QED
    BY <1>14, <2>2, <2>3 DEF Cleanup
<1>15. CASE MarkScanSent
  <2>1. UNCHANGED <<lastId, status, main, world, history>>
    BY <1>15 DEF MarkScanSent
  <2>2. CASE /\ rows' = MarkSent(rows, scan.id)
             /\ dpc' = "sent_status" /\ scan' = NoScan /\ UNCHANGED <<sock, sleep>>
    <3>1. rows' \in Table
      BY <2>2, MarkSentType DEF TypeOK, Table
    <3>2. TypeOK'
      BY <2>1, <2>2, <3>1, NothingHeld DEF TypeOK, Table, WorkerPoints, main, world, history
    <3>3. KeepsScans(rows, rows')
      BY <2>2, MarkSentEffect DEF TypeOK, Table
    <3>4. ASSUME NEW i \in Sent(rows') PROVE i \in Sent(rows) \/ rows[i].scan \in handed
      <4>1. i \in Sent(rows) \/ (i = scan.id /\ i \in Present(rows))
        BY <2>2, MarkSentEffect DEF TypeOK, Table
      <4> QED
        BY <1>15, <4>1 DEF MarkScanSent, QueueConsistent, Holding
    <3>5. QueueConsistent'
      BY <2>1, <2>2, <3>3, <3>4, UpdateKeepsQueue, SentArePresent DEF Holding, history
    <3> QED
      BY <3>2, <3>5
  <2>3. CASE UNCHANGED rows /\ GenericError
    <3>1. TypeOK'
      BY <2>1, <2>3, NothingHeld DEF TypeOK, WorkerPoints, GenericError, Disconnected, main, world, history
    <3>2. Quiet
      BY <2>1, <2>3 DEF Quiet, Holding, GenericError, history
    <3> QED
      BY <3>1, <3>2, QuietKeepsQueue
  <2> QED
    BY <1>15, <2>2, <2>3 DEF MarkScanSent
<1>16. CASE MarkScanFailed
  <2>1. UNCHANGED <<lastId, status, main, world, history>>
    BY <1>16 DEF MarkScanFailed
  <2>2. CASE \E w \in 0 .. RetryTicks : rows' = MarkFailed(rows, scan.id, w) /\ RetrySleep
    <3>1. PICK w \in 0 .. RetryTicks : rows' = MarkFailed(rows, scan.id, w) /\ RetrySleep
      BY <2>2
    <3>2. rows' \in Table
      BY <3>1, MarkFailedType DEF TypeOK, Table
    <3>3. TypeOK'
      BY <2>1, <3>1, <3>2, NothingHeld DEF TypeOK, Table, WorkerPoints, RetrySleep, main, world, history
    <3>4. KeepsScans(rows, rows') /\ Sent(rows') \subseteq Sent(rows)
      BY <3>1, MarkFailedEffect DEF TypeOK, Table
    <3>5. QueueConsistent'
      BY <2>1, <3>1, <3>4, UpdateKeepsQueue, SentArePresent DEF RetrySleep, Holding, history
    <3> QED
      BY <3>3, <3>5
  <2>3. CASE UNCHANGED rows /\ WorkerDies
    <3>1. TypeOK'
      BY <2>1, <2>3, NothingHeld DEF TypeOK, WorkerPoints, WorkerDies, main, world, history
    <3>2. Quiet
      BY <2>1, <2>3 DEF Quiet, Holding, WorkerDies, history
    <3> QED
      BY <3>1, <3>2, QuietKeepsQueue
  <2> QED
    BY <1>16, <2>2, <2>3 DEF MarkScanFailed
<1> QED
  BY <1>1, <1>2, <1>3, <1>4, <1>5, <1>6, <1>7, <1>8, <1>9, <1>10, <1>11, <1>12, <1>13, <1>14, <1>15, <1>16 DEF WorkerNext

\* Whatever the world does, the rows that stay keep their scans.
LEMMA WorldKeepsQueue ==
    ASSUME TypedQueue, World
    PROVE  TypedQueue'
<1> USE DEF TypedQueue
<1>1. CASE PlugOrUnplug
  <2>1. TypeOK'
    BY <1>1 DEF PlugOrUnplug, TypeOK, db, main, worker, world, history, ScannerStates, StatusValues, MainPoints, WorkerPoints
  <2>2. Quiet
    BY <1>1 DEF PlugOrUnplug, Quiet, Holding, db, main, worker, world, history, ScannerStates, StatusValues, MainPoints, WorkerPoints
  <2> QED
    BY <2>1, <2>2, QuietKeepsQueue
<1>2. CASE ServerComesOrGoes
  <2>1. TypeOK'
    BY <1>2 DEF ServerComesOrGoes, TypeOK, db, main, worker, world, history, ScannerStates, StatusValues, MainPoints, WorkerPoints
  <2>2. Quiet
    BY <1>2 DEF ServerComesOrGoes, Quiet, Holding, db, main, worker, world, history, ScannerStates, StatusValues, MainPoints, WorkerPoints
  <2> QED
    BY <2>1, <2>2, QuietKeepsQueue
<1>3. CASE RequestStop
  <2>1. TypeOK'
    BY <1>3 DEF RequestStop, TypeOK, db, main, worker, world, history, ScannerStates, StatusValues, MainPoints, WorkerPoints
  <2>2. Quiet
    BY <1>3 DEF RequestStop, Quiet, Holding, db, main, worker, world, history, ScannerStates, StatusValues, MainPoints, WorkerPoints
  <2> QED
    BY <2>1, <2>2, QuietKeepsQueue
<1>4. CASE Crash
  <2>1. TypeOK'
    BY <1>4, NothingHeld DEF Crash, TypeOK, db, main, worker, world, history, ScannerStates, StatusValues, MainPoints, WorkerPoints, ProcessGone
  <2>2. Quiet
    BY <1>4 DEF Crash, Quiet, Holding, db, main, worker, world, history, ScannerStates, StatusValues, MainPoints, WorkerPoints, ProcessGone, NoScan
  <2> QED
    BY <2>1, <2>2, QuietKeepsQueue
<1>5. CASE Restart
  <2>1. TypeOK'
    BY <1>5 DEF Restart, TypeOK, db, main, worker, world, history, ScannerStates, StatusValues, MainPoints, WorkerPoints
  <2>2. Quiet
    BY <1>5 DEF Restart, Quiet, Holding, db, main, worker, world, history, ScannerStates, StatusValues, MainPoints, WorkerPoints
  <2> QED
    BY <2>1, <2>2, QuietKeepsQueue
<1>6. CASE CalmBegins
  <2>1. TypeOK'
    BY <1>6 DEF CalmBegins, TypeOK, db, main, worker, world, history, ScannerStates, StatusValues, MainPoints, WorkerPoints
  <2>2. Quiet
    BY <1>6 DEF CalmBegins, Quiet, Holding, db, main, worker, world, history, ScannerStates, StatusValues, MainPoints, WorkerPoints
  <2> QED
    BY <2>1, <2>2, QuietKeepsQueue
<1>7. CASE Tick
  <2>1. rows' \in Table /\ rows' = Elapse(rows)
    BY <1>7, ElapseType DEF Tick, TypeOK, Table
  <2>2. TypeOK'
    BY <1>7, <2>1 DEF Tick, TypeOK, Table, main, world, history
  <2>3. KeepsScans(rows, rows') /\ Sent(rows') \subseteq Sent(rows)
    BY <2>1, ElapseEffect DEF TypeOK, Table
  <2>4. QueueConsistent'
    BY <1>7, <2>3, UpdateKeepsQueue, SentArePresent DEF Tick, history
  <2> QED
    BY <2>2, <2>4
<1>8. CASE SetClock
  <2>1. PICK w \in [RowIds -> 0 .. RetryTicks] : rows' = Reschedule(rows, w)
    BY <1>8 DEF SetClock
  <2>2. rows' \in Table
    BY <2>1, RescheduleType DEF TypeOK, Table
  <2>3. TypeOK'
    BY <1>8, <2>2 DEF SetClock, TypeOK, Table, main, worker, world, history
  <2>4. KeepsScans(rows, rows') /\ Sent(rows') \subseteq Sent(rows)
    BY <2>1, RescheduleEffect DEF TypeOK, Table
  <2>5. QueueConsistent'
    BY <1>8, <2>4, UpdateKeepsQueue, SentArePresent DEF SetClock, worker, history
  <2> QED
    BY <2>3, <2>5
<1>9. CASE OperatorClears
  <2>1. PICK all \in BOOLEAN : rows' = ClearQueue(rows, all)
    BY <1>9 DEF OperatorClears
  <2>2. rows' \in Table
    BY <2>1, DeleteType DEF ClearQueue, TypeOK, Table
  <2>3. {rows[i].scan : i \in Pending(rows)} \subseteq Scans
    BY DEF Pending, Present, QueueConsistent, TypeOK, Scans
  <2>4. TypeOK'
    BY <1>9, <2>2, <2>3 DEF OperatorClears, TypeOK, Table, main, worker, world
  <2>5. KeepsScans(rows, rows') /\ Sent(rows') \subseteq Sent(rows)
    BY <2>1, DeleteEffect DEF ClearQueue, TypeOK, Table
  <2>6. QueueConsistent'
    BY <1>9, <2>5, UpdateKeepsQueue, SentArePresent DEF OperatorClears, worker
  <2> QED
    BY <2>4, <2>6
<1> QED
  BY <1>1, <1>2, <1>3, <1>4, <1>5, <1>6, <1>7, <1>8, <1>9 DEF World

\* Every step keeps types and queue.
LEMMA NextTypedQueue == TypedQueue /\ [Next]_vars => TypedQueue'
<1> SUFFICES ASSUME TypedQueue, [Next]_vars PROVE TypedQueue'
  OBVIOUS
<1>1. CASE MainNext
  BY <1>1, MainStepKeepsQueue, CaptureKeepsQueue DEF MainNext
<1>2. CASE WorkerNext
  BY <1>2, WorkerKeepsQueue
<1>3. CASE World
  BY <1>3, WorldKeepsQueue
<1>4. CASE UNCHANGED vars
  <2>1. TypeOK'
    BY <1>4 DEF TypedQueue, TypeOK, vars, db, main, worker, world, history
  <2>2. Quiet
    BY <1>4 DEF Quiet, vars, db, worker, history
  <2> QED
    BY <2>1, <2>2, QuietKeepsQueue DEF TypedQueue
<1> QED
  BY <1>1, <1>2, <1>3, <1>4 DEF Next

\* Every variable keeps its type, for any number of scans.
THEOREM TypeCorrect == Spec => []TypeOK
<1>1. TypedQueue => TypeOK
  BY DEF TypedQueue
<1> QED
  BY InitTypedQueue, NextTypedQueue, <1>1, PTL DEF Spec

\* Row ids are never reused, the worker holds the scan of its row, and only
\* scans that were written to a socket are called sent.
THEOREM QueueIsConsistent == Spec => []QueueConsistent
<1>1. TypedQueue => QueueConsistent
  BY DEF TypedQueue
<1> QED
  BY InitTypedQueue, NextTypedQueue, <1>1, PTL DEF Spec

-----------------------------------------------------------------------------
(* No scan is lost on the way to the socket. *)

\* An update keeps a scan if it leaves its row pending, or the scan was handed
\* over or cleared.
LEMMA UpdateRetains ==
    ASSUME RetainedUntilSent, captured' = captured,
           handed \subseteq handed', dropped \subseteq dropped', cleared \subseteq cleared',
           KeepsScans(rows, rows'),
           \A i \in Pending(rows) : \/ i \in Pending(rows')
                                   \/ rows[i].scan \in handed' \cup cleared'
    PROVE  RetainedUntilSent'
<1> SUFFICES ASSUME NEW s \in 1 .. captured,
                    s \notin handed' \cup dropped' \cup cleared'
             PROVE  s \in PendingScans'
  BY DEF RetainedUntilSent
<1>1. PICK i \in Pending(rows) : rows[i].scan = s
  BY DEF RetainedUntilSent, PendingScans
<1>2. i \in Pending(rows') /\ rows'[i].scan = s
  BY <1>1 DEF KeepsScans, Pending, Present
<1> QED
  BY <1>2 DEF PendingScans

\* So does a step that leaves queue and history alone.
LEMMA QuietRetains ==
    ASSUME RetainedUntilSent, UNCHANGED <<rows, captured, handed, dropped, cleared>>
    PROVE  RetainedUntilSent'
BY DEF RetainedUntilSent, PendingScans, Pending

\* The rows that DELETE ... WHERE status = 'sent' removes are not pending.
LEMMA PendingIsNotSent == ASSUME NEW r PROVE Pending(r) \cap Sent(r) = {}
BY DEF Pending, Sent

\* The steps that change rows or history keep every scan.
LEMMA NextRetains == TypedQueue /\ RetainedUntilSent /\ [Next]_vars => RetainedUntilSent'
<1> SUFFICES ASSUME TypedQueue, RetainedUntilSent, [Next]_vars
             PROVE  RetainedUntilSent'
  OBVIOUS
<1> rows \in Table
  BY DEF TypedQueue, TypeOK, Table
<1>1. CASE CaptureScan
  <2>1. /\ rows' = EnqueueScan(rows, lastId + 1, captured') /\ captured' = captured + 1
        /\ UNCHANGED <<handed, dropped, cleared>> /\ captured \in Nat
    BY <1>1 DEF CaptureScan, Completed, NextRowId, TypedQueue, TypeOK
  <2>2. lastId + 1 \in RowIds /\ lastId + 1 \notin Pending(rows)
    BY <1>1 DEF CaptureScan, Completed, TypedQueue, TypeOK, QueueConsistent, RowIds, Pending, Present
  <2>3. /\ lastId + 1 \in Pending(rows') /\ rows'[lastId + 1].scan = captured'
        /\ \A i \in Pending(rows) : i \in Pending(rows') /\ rows'[i].scan = rows[i].scan
    BY <2>1, <2>2 DEF EnqueueScan, NewRow, Pending, Table, RowSet
  <2>4. PendingScans' = {rows'[i].scan : i \in Pending(rows')}
    BY DEF PendingScans
  <2>5. captured' \in PendingScans' /\ PendingScans \subseteq PendingScans'
    BY <2>3, <2>4 DEF PendingScans
  <2>6. ASSUME NEW s \in 1 .. captured'
        PROVE  s \in PendingScans' \/ s \in handed' \/ s \in dropped' \cup cleared'
    <3>1. CASE s = captured'
      BY <3>1, <2>5
    <3>2. CASE s # captured'
      <4>1. s \in 1 .. captured
        BY <3>2, <2>1
      <4> QED
        BY <4>1, <2>1, <2>5 DEF RetainedUntilSent
    <3> QED
      BY <3>1, <3>2
  <2> QED
    BY <2>6 DEF RetainedUntilSent
<1>2. CASE CaptureFails
  <2>1. /\ captured' = captured + 1 /\ dropped' = dropped \cup {captured'}
        /\ UNCHANGED <<rows, handed, cleared>> /\ captured \in Nat
    BY <1>2 DEF CaptureFails, Completed, TypedQueue, TypeOK, db
  <2> QED
    BY <2>1 DEF RetainedUntilSent, PendingScans, Pending
<1>3. CASE SendAccepted
  BY <1>3 DEF SendAccepted, RetainedUntilSent, PendingScans, Pending, db
<1>4. CASE MarkScanSent
  <2>1. CASE rows' = MarkSent(rows, scan.id)
    <3>1. KeepsScans(rows, rows') /\ Pending(rows') = Pending(rows) \ {scan.id}
      BY <2>1, MarkSentEffect
    <3>2. scan.id \in Pending(rows) => rows[scan.id].scan \in handed
      BY <1>4 DEF MarkScanSent, TypedQueue, QueueConsistent, Holding, Pending, Present
    <3> QED
      BY <1>4, <3>1, <3>2, UpdateRetains DEF MarkScanSent, history
  <2>2. CASE UNCHANGED rows
    BY <1>4, <2>2, QuietRetains DEF MarkScanSent, history
  <2> QED
    BY <1>4, <2>1, <2>2 DEF MarkScanSent
<1>5. CASE MarkScanFailed
  <2>1. CASE \E w \in 0 .. RetryTicks : rows' = MarkFailed(rows, scan.id, w)
    <3>1. KeepsScans(rows, rows') /\ Pending(rows) \subseteq Pending(rows')
      BY <2>1, MarkFailedEffect
    <3> QED
      BY <1>5, <3>1, UpdateRetains DEF MarkScanFailed, history
  <2>2. CASE UNCHANGED rows
    BY <1>5, <2>2, QuietRetains DEF MarkScanFailed, history
  <2> QED
    BY <1>5, <2>1, <2>2 DEF MarkScanFailed
<1>6. CASE Cleanup
  <2>1. CASE \E old \in SUBSET RowIds : rows' = CleanupSent(rows, old)
    <3>1. PICK old \in SUBSET RowIds : rows' = DeleteRows(rows, old \cap Sent(rows))
      BY <2>1 DEF CleanupSent
    <3>2. KeepsScans(rows, rows') /\ Pending(rows') = Pending(rows) \ (old \cap Sent(rows))
      BY <3>1, DeleteEffect
    <3>3. Pending(rows') = Pending(rows)
      BY <3>2, PendingIsNotSent
    <3> QED
      BY <1>6, <3>2, <3>3, UpdateRetains DEF Cleanup, history
  <2>2. CASE UNCHANGED rows
    BY <1>6, <2>2, QuietRetains DEF Cleanup, history
  <2> QED
    BY <1>6, <2>1, <2>2 DEF Cleanup
<1>7. CASE Tick
  <2>1. KeepsScans(rows, rows') /\ Pending(rows') = Pending(rows)
    BY <1>7, ElapseEffect DEF Tick
  <2> QED
    BY <1>7, <2>1, UpdateRetains DEF Tick, history
<1>8. CASE OperatorClears
  <2>1. PICK all \in BOOLEAN : rows' = ClearQueue(rows, all)
    BY <1>8 DEF OperatorClears
  <2>2. KeepsScans(rows, rows')
    BY <2>1, DeleteEffect DEF ClearQueue
  <2>3. \A i \in Pending(rows) : rows[i].scan \in cleared'
    BY <1>8 DEF OperatorClears
  <2> QED
    BY <1>8, <2>2, <2>3, UpdateRetains DEF OperatorClears
<1>9. CASE MainStep
  BY <1>9, QuietRetains DEF MainStep, Initialize, InitializeFails, EnterScannerLoop,
     StopRequested, Discover, OpenDevice, PersistScannerState, PersistFails,
     PersistScannerStateSafely, WakeFromNap, ReadFails, SetLastScanId, JoinWorker,
     WriteStopped, Exit, db, history
<1>10. CASE \/ Snapshot \/ WriteNotAttempted \/ Connect \/ WriteConnected \/ FetchNextDue
            \/ WakeFromPoll \/ SendFails \/ WriteDelivered \/ WriteUnavailable
            \/ RefetchNextDue \/ WakeFromRetry \/ WriteDeliveryError
  BY <1>10, QuietRetains DEF Snapshot, WriteNotAttempted, Connect, WriteConnected,
     FetchNextDue, WakeFromPoll, SendFails, WriteDelivered, WriteUnavailable,
     RefetchNextDue, WakeFromRetry, WriteDeliveryError, db, history
<1>11. CASE PlugOrUnplug \/ ServerComesOrGoes \/ RequestStop \/ Crash \/ Restart \/ CalmBegins
  BY <1>11, QuietRetains DEF PlugOrUnplug, ServerComesOrGoes, RequestStop, Crash,
     Restart, CalmBegins, db, history
<1>12. CASE SetClock
  <2>1. KeepsScans(rows, rows') /\ Pending(rows') = Pending(rows)
    BY <1>12, RescheduleEffect DEF SetClock
  <2> QED
    BY <1>12, <2>1, UpdateRetains DEF SetClock, history
<1>13. CASE UNCHANGED vars
  BY <1>13, QuietRetains DEF vars, db, history
<1> QED
  BY <1>1, <1>2, <1>3, <1>4, <1>5, <1>6, <1>7, <1>8, <1>9, <1>10, <1>11, <1>12, <1>13
     DEF Next, MainNext, WorkerNext, World

\* Every completed scan stays pending in the queue until it was written to a
\* socket, through every failure, crash and restart, unless its insert failed
\* or an operator cleared it.
THEOREM NoScanIsLost == Spec => []RetainedUntilSent
<1>1. Init => RetainedUntilSent
  BY DEF Init, RetainedUntilSent
<1> QED
  BY InitTypedQueue, NextTypedQueue, <1>1, NextRetains, PTL DEF Spec

-----------------------------------------------------------------------------
(* No socket outlives the worker. *)

\* Wherever an exception can end the worker it has disconnected before.
DisconnectedOffPath ==
    dpc \in {"off", "idle_status", "tcp_error", "refetch", "mark_failed",
             "retry_sleep", "generic_error", "done", "dead"} => sock = "none"

\* Every step keeps it so.
LEMMA NextDisconnected == DisconnectedOffPath /\ [Next]_vars => DisconnectedOffPath'
<1> SUFFICES ASSUME DisconnectedOffPath, [Next]_vars PROVE DisconnectedOffPath'
  OBVIOUS
<1> USE DEF DisconnectedOffPath, worker
<1>1. CASE MainNext
  BY <1>1 DEF MainNext, MainStep, Initialize, InitializeFails, EnterScannerLoop, StopRequested, Discover, OpenDevice, PersistScannerState, PersistFails, PersistScannerStateSafely, WakeFromNap, ReadFails, SetLastScanId, JoinWorker, WriteStopped, Exit, CaptureScan, CaptureFails, ProcessGone
<1>2. CASE WorkerNext
  <2>1. CASE Snapshot
    BY <1>2, <2>1 DEF Snapshot, Disconnected
  <2>2. CASE WriteNotAttempted
    BY <1>2, <2>2 DEF WriteNotAttempted, GoOn, WorkerDies
  <2>3. CASE Connect
    BY <1>2, <2>3 DEF Connect, GoOn, TcpError, Disconnected
  <2>4. CASE WriteConnected
    BY <1>2, <2>4 DEF WriteConnected, GoOn, GenericError, Disconnected
  <2>5. CASE FetchNextDue
    BY <1>2, <2>5 DEF FetchNextDue, GoOn, GenericError, Disconnected
  <2>6. CASE Cleanup
    BY <1>2, <2>6 DEF Cleanup, GoOn, GenericError, Disconnected
  <2>7. CASE WakeFromPoll
    BY <1>2, <2>7 DEF WakeFromPoll, GoOn
  <2>8. CASE SendAccepted
    BY <1>2, <2>8 DEF SendAccepted, GoOn
  <2>9. CASE SendFails
    BY <1>2, <2>9 DEF SendFails, TcpError, Disconnected
  <2>10. CASE MarkScanSent
    BY <1>2, <2>10 DEF MarkScanSent, GenericError, Disconnected
  <2>11. CASE WriteDelivered
    BY <1>2, <2>11 DEF WriteDelivered, GoOn, GenericError, Disconnected
  <2>12. CASE WriteUnavailable
    BY <1>2, <2>12 DEF WriteUnavailable, GoOn, WorkerDies
  <2>13. CASE RefetchNextDue
    BY <1>2, <2>13 DEF RefetchNextDue, RetrySleep, WorkerDies
  <2>14. CASE MarkScanFailed
    BY <1>2, <2>14 DEF MarkScanFailed, RetrySleep, WorkerDies
  <2>15. CASE WakeFromRetry
    BY <1>2, <2>15 DEF WakeFromRetry, GoOn
  <2>16. CASE WriteDeliveryError
    BY <1>2, <2>16 DEF WriteDeliveryError, RetrySleep
  <2> QED
    BY <1>2, <2>1, <2>2, <2>3, <2>4, <2>5, <2>6, <2>7, <2>8, <2>9, <2>10, <2>11, <2>12, <2>13, <2>14, <2>15, <2>16 DEF WorkerNext
<1>3. CASE World
  BY <1>3 DEF World, PlugOrUnplug, ServerComesOrGoes, Tick, SetClock, RequestStop, Crash, Restart, OperatorClears, CalmBegins, ProcessGone
<1>4. CASE UNCHANGED vars
  BY <1>4 DEF vars
<1> QED
  BY <1>1, <1>2, <1>3, <1>4 DEF Next

\* A worker that ended, in whatever way, has closed its connection.
THEOREM NoSocketIsLeaked == Spec => []EndedWorkerHoldsNoSocket
<1>1. Init => DisconnectedOffPath
  BY DEF Init, DisconnectedOffPath
<1>2. DisconnectedOffPath => EndedWorkerHoldsNoSocket
  BY DEF DisconnectedOffPath, EndedWorkerHoldsNoSocket
<1> QED
  BY <1>1, <1>2, NextDisconnected, PTL DEF Spec

=============================================================================
