---------------------------- MODULE ServiceState ----------------------------
(***************************************************************************)
(* The state that the threads of the scanner service share (service.py):   *)
(* the SQLite file, the in-memory RuntimeState and stop event, the control *)
(* point and the locals of the main thread (ScannerLoop) and of the        *)
(* delivery worker (DeliveryLoop), the world around the process, and the   *)
(* history variables that the properties read.                             *)
(***************************************************************************)
EXTENDS Integers, FiniteSets, ScanStore

CONSTANTS
    MaxScans,     \* bound: how many scans the scanner completes
    RetryTicks,   \* server.retry_interval, in clock ticks
    Faults,       \* may database and device calls fail?
    Restarts,     \* does the process come back once it is gone (Restart=always)?
    JoinTimeouts, \* can the worker outlive join(timeout=10)?
    Clears,       \* does an operator run clear-scan-queue.sh?
    ClockMoves,   \* is the wall clock set while the queue holds retry times?
    CalmComes     \* is there a moment from which nothing fails any more?

ASSUME MaxScansAssumption == MaxScans \in Nat \ {0}
ASSUME RetryTicksAssumption == RetryTicks \in Nat \ {0}
ASSUME SwitchesAssumption ==
    /\ Faults \in BOOLEAN /\ Restarts \in BOOLEAN /\ JoinTimeouts \in BOOLEAN
    /\ Clears \in BOOLEAN /\ ClockMoves \in BOOLEAN /\ CalmComes \in BOOLEAN

Scans == 1 .. MaxScans      \* the k-th scan completed by the scanner
RowIds == 1 .. MaxScans     \* enough: an insert takes one id per scan

VARIABLES
    \* The SQLite file.  It survives every crash: a committed transaction is durable.
    rows,      \* table scans (see ScanStore)
    lastId,    \* sqlite_sequence: the largest id ever given out
    status,    \* table service_status: what the service last wrote of its scanner and server
    \* The process and its main thread.
    mpc,       \* control point of the main thread, "off" when there is no process
    stop,      \* stop_event
    runtime,   \* RuntimeState.scanner_state
    \* The delivery worker.
    dpc,       \* its control point
    scan,      \* the QueuedScan it holds, or NoScan
    sock,      \* its socket: "none", "open", or "broken" (the peer is gone)
    sleep,     \* ticks left of time.sleep(retry_interval)
    \* The world.
    plugged,   \* the USB scanner is there
    serverUp,  \* the logger accepts connections
    calm,      \* from here on nothing fails any more (used for liveness)
    \* History.
    captured,  \* how many scans were completed
    handed,    \* scans that were written to a socket
    dropped,   \* scans that never reached the queue: the insert failed
    cleared    \* pending scans an operator cleared

db    == <<rows, lastId, status>>
main  == <<mpc, stop, runtime>>
worker == <<dpc, scan, sock, sleep>>
world == <<plugged, serverUp, calm>>
history == <<captured, handed, dropped, cleared>>
vars  == <<db, main, worker, world, history>>

NoScan == [id |-> 0, scan |-> 0]

ScannerStates == {"starting", "misconfigured", "connected", "unavailable", "error"}
\* scanner_available is true in exactly one of the states.
ScannerAvailable == runtime = "connected"

\* What the status rows say of the scanner (scanner_available) and the server
\* (server_connected), and whether the process signed off (both states are
\* "stopped"); the wording of the other states is left out.
StatusValues == {"yes", "no", "stopped"}

MainPoints == {"off", "initialize", "enter", "discover", "open", "persist",
               "persist_safely", "idle", "read", "last_scan_id", "nap",
               "join", "final_status", "exit"}
WorkerPoints == {"off", "loop", "idle_status", "connect", "conn_status", "fetch",
                 "cleanup", "send", "mark_sent", "sent_status", "tcp_error",
                 "refetch", "mark_failed", "generic_error", "retry_sleep",
                 "poll_sleep", "done", "dead"}

\* Every variable has its type.
TypeOK ==
    /\ rows \in RowSet(RowIds, 0 .. MaxScans, 0 .. RetryTicks)
    /\ lastId \in 0 .. MaxScans
    /\ status \in [scanner : StatusValues, server : StatusValues]
    /\ mpc \in MainPoints /\ stop \in BOOLEAN /\ runtime \in ScannerStates
    /\ dpc \in WorkerPoints
    /\ scan \in [id : 0 .. MaxScans, scan : 0 .. MaxScans]
    /\ sock \in {"none", "open", "broken"}
    /\ sleep \in 0 .. RetryTicks
    /\ plugged \in BOOLEAN /\ serverUp \in BOOLEAN /\ calm \in BOOLEAN
    /\ captured \in 0 .. MaxScans
    /\ handed \subseteq Scans /\ dropped \subseteq Scans /\ cleared \subseteq Scans

-----------------------------------------------------------------------------
(* What a call to the database or to the device layer may do besides        *)
(* succeed: sqlite3.Error (the file is locked for longer than 10 s, the     *)
(* disk is full) and, from evdev, any exception.                            *)
Fault == Faults /\ ~calm

\* One upsert into service_status; the columns that are not named keep their value.
ScannerStatus(s) == status' = [status EXCEPT !.scanner = s]
ServerStatus(s) == status' = [status EXCEPT !.server = s]

\* The process ends, however it ends: daemon threads and sockets go with it.
ProcessGone ==
    /\ mpc' = "off" /\ stop' = FALSE /\ runtime' = "starting"
    /\ dpc' = "off" /\ scan' = NoScan /\ sock' = "none" /\ sleep' = 0

=============================================================================
