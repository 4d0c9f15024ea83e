------------------------------ MODULE ScanStore ------------------------------
(***************************************************************************)
(* The scans table of the client's SQLite queue (storage.py), as operators *)
(* on a value: a table r is a function from row ids to rows, and a row     *)
(* that is not in the table is Absent.  Every operator is the effect of    *)
(* one transaction; a transaction that fails is rolled back and leaves the *)
(* table as it was.                                                        *)
(*                                                                         *)
(* A row keeps what delivery tells apart: its status, the scan it carries  *)
(* (scan k is the k-th scan the scanner completed, so that its number      *)
(* stands for both barcode and captured_at), whether an attempt has failed *)
(* (attempts > 0), and in how many clock ticks next_attempt_at is reached  *)
(* (0 for NULL or a time that has passed).                                 *)
(***************************************************************************)
EXTENDS Integers

Absent == [state |-> "absent", scan |-> 0, failed |-> FALSE, wait |-> 0]

NewRow(s) == [state |-> "pending", scan |-> s, failed |-> FALSE, wait |-> 0]

RowSet(ids, scans, waits) ==
    [ids -> [state : {"absent", "pending", "sent"}, scan : scans,
             failed : BOOLEAN, wait : waits]]

Present(r) == {i \in DOMAIN r : r[i].state # "absent"}

Pending(r) == {i \in DOMAIN r : r[i].state = "pending"}

Sent(r) == {i \in DOMAIN r : r[i].state = "sent"}

-----------------------------------------------------------------------------
(* Queries *)

\* Mutation: rows whose delivery was already recorded are selected again.
DueWhateverStatus(r) == {i \in Present(r) : r[i].wait = 0}

\* WHERE status = 'pending' AND (next_attempt_at IS NULL OR <= now)
Due(r) == {i \in Pending(r) : r[i].wait = 0}

\* Mutation: ORDER BY id DESC.
NewestDue(r, i) == i \in Due(r) /\ \A j \in Due(r) : j <= i

\* ORDER BY id ASC LIMIT 1
IsNextDue(r, i) == i \in Due(r) /\ \A j \in Due(r) : i <= j

-----------------------------------------------------------------------------
(* Updates *)

EnqueueScan(r, id, s) == [r EXCEPT ![id] = NewRow(s)]

\* UPDATE ... WHERE id = ?: a row that is gone stays gone
MarkSent(r, id) ==
    [i \in DOMAIN r |->
        IF i = id /\ r[i].state # "absent"
        THEN [r[i] EXCEPT !.state = "sent", !.wait = 0]
        ELSE r[i]]

\* The row becomes pending whatever it was, with a retry time w ticks ahead.
MarkFailed(r, id, w) ==
    [i \in DOMAIN r |->
        IF i = id /\ r[i].state # "absent"
        THEN [r[i] EXCEPT !.state = "pending", !.failed = TRUE, !.wait = w]
        ELSE r[i]]

DeleteRows(r, gone) == [i \in DOMAIN r |-> IF i \in gone THEN Absent ELSE r[i]]

\* Mutation: retention is applied to every row, not only to sent ones.
CleanupAnyStatus(r, old) == DeleteRows(r, old)

\* DELETE ... WHERE status = 'sent' AND sent_at < cutoff; old is the set of
\* rows beyond the retention window.
CleanupSent(r, old) == DeleteRows(r, old \cap Sent(r))

\* scripts/clear-scan-queue.sh, with and without --include-sent
ClearQueue(r, includeSent) ==
    DeleteRows(r, IF includeSent THEN Present(r) ELSE Pending(r))

-----------------------------------------------------------------------------
(* The clock: retry times come closer by one tick. *)

\* Mutation: retry times are not held at zero.
ElapseBelowZero(r) == [i \in DOMAIN r |-> [r[i] EXCEPT !.wait = @ - 1]]

Elapse(r) == [i \in DOMAIN r |->
                 IF r[i].wait > 0 THEN [r[i] EXCEPT !.wait = @ - 1] ELSE r[i]]

\* The clock is set, and row i waits w[i] ticks from now on.  Only a pending row
\* whose delivery failed has a retry time: a new row has none, and mark_sent
\* forgets it.
Reschedule(r, w) ==
    [i \in DOMAIN r |->
        IF r[i].state = "pending" /\ r[i].failed
        THEN [r[i] EXCEPT !.wait = w[i]] ELSE r[i]]

=============================================================================
