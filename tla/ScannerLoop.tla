----------------------------- MODULE ScannerLoop -----------------------------
(***************************************************************************)
(* The main thread of the scanner service: ScannerClientService.run,       *)
(* _scanner_loop and _read_device.  It starts the worker, looks for the    *)
(* configured scanner, reads it while it is there, inserts every completed *)
(* scan into the queue, and on the way out stops and joins the worker.     *)
(*                                                                         *)
(* A step ends where another thread can see the difference: after a change *)
(* of RuntimeState, after a transaction, before a wait.                    *)
(***************************************************************************)
EXTENDS ServiceState

(* run(): store.initialize() and the first status keys, before any thread  *)
(* exists; an exception here ends the process at once.                     *)
Initialize ==
    /\ mpc = "initialize"
    /\ mpc' = "enter"
    /\ dpc' = "loop"
    /\ UNCHANGED <<db, stop, runtime, scan, sock, sleep, world, history>>

InitializeFails ==
    /\ mpc = "initialize" /\ Fault
    /\ ProcessGone
    /\ UNCHANGED <<db, world, history>>

(* _scanner_loop: the configuration either names a scanner or does not.    *)
EnterScannerLoop ==
    /\ mpc = "enter"
    /\ \/ mpc' = "discover" /\ UNCHANGED runtime
       \/ ~calm /\ runtime' = "misconfigured" /\ mpc' = "persist"
    /\ UNCHANGED <<db, stop, worker, world, history>>

(* The finally clause of run(): set the stop event, then join the worker.  *)
Finally == mpc' = "join" /\ stop' = TRUE

StopRequested ==
    /\ mpc \in {"discover", "idle", "read"} /\ stop
    /\ Finally
    /\ UNCHANGED <<db, runtime, worker, world, history>>

(* Record state s in RuntimeState, then go on at point p.                  *)
Update(s, p) == runtime' = s /\ mpc' = p

(* find_matching_devices: the device, nothing (also if a device that is    *)
(* there cannot be inspected), a DeviceError (whose state is persisted     *)
(* unguarded) or some other exception.                                     *)
Discover ==
    /\ mpc = "discover" /\ ~stop
    /\ \/ plugged /\ mpc' = "open" /\ UNCHANGED runtime
       \/ (~plugged \/ Fault) /\ Update("unavailable", "persist")
       \/ Fault /\ Update("error", "persist")
       \/ Fault /\ Update("error", "persist_safely")
    /\ UNCHANGED <<db, stop, worker, world, history>>

(* open_input_device and grab: an OSError if the device has gone since, or *)
(* is held by another process.                                             *)
OpenDevice ==
    /\ mpc = "open"
    /\ \/ plugged /\ Update("connected", "persist")
       \/ (~plugged \/ Fault) /\ Update("unavailable", "persist")
       \/ Fault /\ Update("error", "persist_safely")
    /\ UNCHANGED <<db, stop, worker, world, history>>

PersistedAvailability == IF ScannerAvailable THEN "yes" ELSE "no"

AfterPersist ==
    CASE runtime = "connected" -> "read"
      [] runtime = "misconfigured" -> "idle"
      [] OTHER -> "nap"

(* _persist_scanner_state: write to the database what RuntimeState says.   *)
PersistScannerState ==
    /\ mpc = "persist"
    /\ ScannerStatus(PersistedAvailability)
    /\ mpc' = AfterPersist
    /\ UNCHANGED <<rows, lastId, stop, runtime, worker, world, history>>

(* If that write fails under _read_device the generic handler takes it;    *)
(* everywhere else nothing does, and the exception leaves _scanner_loop.   *)
PersistFails ==
    /\ mpc = "persist" /\ Fault
    /\ IF runtime = "connected"
       THEN Update("error", "persist_safely") /\ UNCHANGED stop
       ELSE Finally /\ UNCHANGED runtime
    /\ UNCHANGED <<db, worker, world, history>>

PersistScannerStateSafely ==
    /\ mpc = "persist_safely"
    /\ ScannerStatus(PersistedAvailability) \/ (Fault /\ UNCHANGED status)
    /\ mpc' = "nap"
    /\ UNCHANGED <<rows, lastId, stop, runtime, worker, world, history>>

(* time.sleep(reconnect_interval): the stop event does not cut it short.   *)
WakeFromNap ==
    /\ mpc = "nap"
    /\ mpc' = "discover"
    /\ UNCHANGED <<db, stop, runtime, worker, world, history>>

(* device.read() raises OSError (ENODEV) once the scanner is gone; any     *)
(* other exception has its state persisted with care.                      *)
ReadFails ==
    /\ mpc = "read"
    /\ \/ (~plugged \/ Fault) /\ Update("unavailable", "persist")
       \/ Fault /\ Update("error", "persist_safely")
    /\ UNCHANGED <<db, stop, worker, world, history>>

Completed == captured < MaxScans /\ captured' = captured + 1

\* Mutation: without AUTOINCREMENT an id is given out again after a DELETE.
ReusedRowId == IF Present(rows) = {} THEN 1
               ELSE 1 + CHOOSE i \in Present(rows) : \A j \in Present(rows) : j <= i

\* AUTOINCREMENT
NextRowId == lastId + 1

(* A scan is complete and enqueue_scan commits its row.                    *)
CaptureScan ==
    /\ mpc = "read" /\ plugged
    /\ Completed
    /\ rows' = EnqueueScan(rows, NextRowId, captured')
    /\ lastId' = NextRowId
    /\ mpc' = "last_scan_id"
    /\ UNCHANGED <<status, stop, runtime, worker, world, handed, dropped, cleared>>

(* A scan is complete but enqueue_scan raises: the scan is gone, and with  *)
(* it whatever else device.read() had returned.                            *)
CaptureFails ==
    /\ mpc = "read" /\ plugged /\ Fault
    /\ Completed
    /\ dropped' = dropped \cup {captured'}
    /\ Update("error", "persist_safely")
    /\ UNCHANGED <<db, stop, worker, world, handed, cleared>>

(* set_status("last_scan_id"); the same batch may hold the next scan.      *)
SetLastScanId ==
    /\ mpc = "last_scan_id"
    /\ \/ mpc' = "read" /\ UNCHANGED runtime
       \/ Fault /\ Update("error", "persist_safely")
    /\ UNCHANGED <<db, stop, worker, world, history>>

\* Mutation: run() does not wait for the worker before it writes "stopped".
NoJoin ==
    /\ mpc = "join"
    /\ mpc' = "final_status"
    /\ UNCHANGED <<db, stop, runtime, worker, world, history>>

(* delivery_thread.join(timeout=10): the worker may still be in a sleep, a *)
(* connect, a send or a locked database when the timeout passes.           *)
JoinWorker ==
    /\ mpc = "join"
    /\ dpc \in {"done", "dead"} \/ JoinTimeouts
    /\ mpc' = "final_status"
    /\ UNCHANGED <<db, stop, runtime, worker, world, history>>

(* The last set_status_many; if it fails the process still ends.           *)
WriteStopped ==
    /\ mpc = "final_status"
    /\ \/ status' = [scanner |-> "stopped", server |-> "stopped"]
       \/ Fault /\ UNCHANGED status
    /\ mpc' = "exit"
    /\ UNCHANGED <<rows, lastId, stop, runtime, worker, world, history>>

Exit ==
    /\ mpc = "exit"
    /\ ProcessGone
    /\ UNCHANGED <<db, world, history>>

-----------------------------------------------------------------------------

(* The steps the thread takes by itself; a scan is completed only when     *)
(* somebody scans.                                                         *)
MainStep ==
    \/ Initialize \/ InitializeFails \/ EnterScannerLoop \/ StopRequested
    \/ Discover \/ OpenDevice \/ PersistScannerState \/ PersistFails
    \/ PersistScannerStateSafely \/ WakeFromNap \/ ReadFails
    \/ SetLastScanId \/ JoinWorker \/ WriteStopped \/ Exit

MainNext == MainStep \/ CaptureScan \/ CaptureFails

=============================================================================
