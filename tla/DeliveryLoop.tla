---------------------------- MODULE DeliveryLoop ----------------------------
(***************************************************************************)
(* The delivery worker of the scanner service: _delivery_loop and the      *)
(* TcpScanSender it owns.  While the scanner is available it holds one     *)
(* connection and writes the queued scans to it, oldest due row first.     *)
(*                                                                         *)
(* Two except clauses guard the loop.  A TcpSenderError is handled by a    *)
(* clause that itself writes to the database; any other exception by one   *)
(* that does so safely.  An exception of the first clause, or of the       *)
(* branch above the try, ends the thread.                                  *)
(***************************************************************************)
EXTENDS ServiceState

\* sender.disconnect()
Disconnected == sock' = "none"

\* An exception no clause takes: the thread is gone, the process stays.
WorkerDies == dpc' = "dead" /\ scan' = NoScan /\ UNCHANGED <<sock, sleep>>

\* except Exception: the first thing it does is to disconnect.
GenericError == dpc' = "generic_error" /\ scan' = NoScan /\ Disconnected /\ UNCHANGED sleep

\* Mutation: the socket is left to be closed later.
TcpErrorKeepingSocket == dpc' = "tcp_error" /\ UNCHANGED <<scan, sock, sleep>>

\* except TcpSenderError: likewise; the scan whose send failed, if it was a send
\* that failed, is still in the local variable.
TcpError == dpc' = "tcp_error" /\ Disconnected /\ UNCHANGED <<scan, sleep>>

\* Go on at point p with nothing else changed.
GoOn(p) == dpc' = p /\ UNCHANGED <<scan, sock, sleep>>

\* Mutation: the unavailable branch forgets to disconnect.
SnapshotKeepingSocket ==
    /\ dpc = "loop"
    /\ IF stop THEN dpc' = "done" /\ Disconnected
       ELSE IF ScannerAvailable THEN dpc' = "connect" /\ UNCHANGED sock
       ELSE dpc' = "idle_status" /\ UNCHANGED sock
    /\ UNCHANGED <<db, main, scan, sleep, world, history>>

(* The head of the loop: leave it, or act on a snapshot of RuntimeState    *)
(* that may be out of date by the time it is used.                         *)
Snapshot ==
    /\ dpc = "loop"
    /\ IF stop THEN dpc' = "done" /\ Disconnected
       ELSE IF ScannerAvailable THEN dpc' = "connect" /\ UNCHANGED sock
       ELSE dpc' = "idle_status" /\ Disconnected
    /\ UNCHANGED <<db, main, scan, sleep, world, history>>

(* The scanner is not available: say so in the status, outside the try.    *)
WriteNotAttempted ==
    /\ dpc = "idle_status"
    /\ \/ ServerStatus("no") /\ GoOn("poll_sleep")
       \/ Fault /\ WorkerDies /\ UNCHANGED status
    /\ UNCHANGED <<rows, lastId, main, world, history>>

(* if not sender.connected: sender.connect()                               *)
Connect ==
    /\ dpc = "connect"
    /\ \/ sock # "none" /\ GoOn("fetch")
       \/ sock = "none" /\ serverUp
            /\ sock' = "open" /\ dpc' = "conn_status" /\ UNCHANGED <<scan, sleep>>
       \/ sock = "none" /\ ~serverUp /\ TcpError
    /\ UNCHANGED <<db, main, world, history>>

\* Mutation: the status is written only after a delivery.
ConnectedUnreported ==
    /\ dpc = "conn_status"
    /\ GoOn("fetch")
    /\ UNCHANGED <<db, main, world, history>>

WriteConnected ==
    /\ dpc = "conn_status"
    /\ \/ ServerStatus("yes") /\ GoOn("fetch")
       \/ Fault /\ GenericError /\ UNCHANGED status
    /\ UNCHANGED <<rows, lastId, main, world, history>>

\* The row that fetch_next_due returns, as the worker keeps it.
Fetched(i) == scan' = [id |-> i, scan |-> rows[i].scan]

FetchNextDue ==
    /\ dpc = "fetch"
    /\ \/ \E i \in RowIds : IsNextDue(rows, i) /\ Fetched(i)
            /\ dpc' = "send" /\ UNCHANGED <<sock, sleep>>
       \/ Due(rows) = {} /\ GoOn("cleanup")
       \/ Fault /\ GenericError
    /\ UNCHANGED <<db, main, world, history>>

(* Nothing is due: cleanup_sent once an hour (of any rows that are beyond  *)
(* the window by then), and time.sleep(poll_interval).                     *)
Cleanup ==
    /\ dpc = "cleanup"
    /\ \/ \E old \in SUBSET RowIds : rows' = CleanupSent(rows, old)
            /\ GoOn("poll_sleep")
       \/ UNCHANGED rows /\ Fault /\ GenericError
    /\ UNCHANGED <<lastId, status, main, world, history>>

WakeFromPoll ==
    /\ dpc = "poll_sleep"
    /\ GoOn("loop")
    /\ UNCHANGED <<db, main, world, history>>

(* sendall() returns: the frame is in the socket's buffer.  If the peer is *)
(* gone nobody will ever read it, and nothing says so.                     *)
SendAccepted ==
    /\ dpc = "send"
    /\ handed' = handed \cup {scan.scan}
    /\ GoOn("mark_sent")
    /\ UNCHANGED <<db, main, world, captured, dropped, cleared>>

(* sendall() raises: the peer reset the connection, or has not read for    *)
(* longer than send_timeout.                                               *)
SendFails ==
    /\ dpc = "send"
    /\ sock = "broken" \/ ~calm
    /\ TcpError
    /\ UNCHANGED <<db, main, world, history>>

(* store.mark_sent(scan.id); if it fails the scan is sent again.           *)
MarkScanSent ==
    /\ dpc = "mark_sent"
    /\ \/ /\ rows' = MarkSent(rows, scan.id)
          /\ dpc' = "sent_status" /\ scan' = NoScan /\ UNCHANGED <<sock, sleep>>
       \/ Fault /\ GenericError /\ UNCHANGED rows
    /\ UNCHANGED <<lastId, status, main, world, history>>

WriteDelivered ==
    /\ dpc = "sent_status"
    /\ \/ ServerStatus("yes") /\ GoOn("loop")
       \/ Fault /\ GenericError /\ UNCHANGED status
    /\ UNCHANGED <<rows, lastId, main, world, history>>

\* Mutation: the worker wakes before the retry time of the row.
RetrySleepCutShort ==
    dpc' = "retry_sleep" /\ sleep' = RetryTicks - 1 /\ scan' = NoScan /\ UNCHANGED sock

\* time.sleep(retry_interval)
RetrySleep == dpc' = "retry_sleep" /\ sleep' = RetryTicks /\ scan' = NoScan /\ UNCHANGED sock

\* Mutation: the handler goes on without a word in the status.
UnavailableUnreported ==
    /\ dpc = "tcp_error"
    /\ GoOn("refetch")
    /\ UNCHANGED <<db, main, world, history>>

(* except TcpSenderError: three unguarded database calls and a sleep.      *)
WriteUnavailable ==
    /\ dpc = "tcp_error"
    /\ \/ ServerStatus("no") /\ GoOn("refetch")
       \/ Fault /\ WorkerDies /\ UNCHANGED status
    /\ UNCHANGED <<rows, lastId, main, world, history>>

(* The row to blame is fetched again, rather than the one that was sent.   *)
RefetchNextDue ==
    /\ dpc = "refetch"
    /\ \/ \E i \in RowIds : IsNextDue(rows, i) /\ Fetched(i)
            /\ dpc' = "mark_failed" /\ UNCHANGED <<sock, sleep>>
       \/ Due(rows) = {} /\ RetrySleep
       \/ Fault /\ WorkerDies
    /\ UNCHANGED <<db, main, world, history>>

(* store.mark_failed: the retry time is cut down to whole seconds and the  *)
(* transaction may wait for the lock, so that it is at most the interval.  *)
MarkScanFailed ==
    /\ dpc = "mark_failed"
    /\ \/ \E w \in 0 .. RetryTicks : rows' = MarkFailed(rows, scan.id, w) /\ RetrySleep
       \/ Fault /\ WorkerDies /\ UNCHANGED rows
    /\ UNCHANGED <<lastId, status, main, world, history>>

WakeFromRetry ==
    /\ dpc = "retry_sleep" /\ sleep = 0
    /\ GoOn("loop")
    /\ UNCHANGED <<db, main, world, history>>

(* except Exception: _set_status_safely and a sleep.                       *)
WriteDeliveryError ==
    /\ dpc = "generic_error"
    /\ ServerStatus("no") \/ (Fault /\ UNCHANGED status)
    /\ RetrySleep
    /\ UNCHANGED <<rows, lastId, main, world, history>>

-----------------------------------------------------------------------------

WorkerNext ==
    \/ Snapshot \/ WriteNotAttempted \/ Connect \/ WriteConnected \/ FetchNextDue
    \/ Cleanup \/ WakeFromPoll \/ SendAccepted \/ SendFails \/ MarkScanSent
    \/ WriteDelivered \/ WriteUnavailable \/ RefetchNextDue \/ MarkScanFailed
    \/ WakeFromRetry \/ WriteDeliveryError

=============================================================================
