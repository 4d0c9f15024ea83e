---------------------------- MODULE MCScanService ----------------------------
(***************************************************************************)
(* ScanService on small instances.                                         *)
(***************************************************************************)
EXTENDS ScanService

\* The view of the runs whose properties do not read the status table.  No
\* action reads it either (the service only writes it, for the health report
\* and the monitor), so that states that differ in it have the same futures.
WithoutStatus == <<rows, lastId, main, worker, world, history>>

=============================================================================
