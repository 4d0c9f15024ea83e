--------------------------- MODULE MCHealthReport ---------------------------
(***************************************************************************)
(* HealthReport on a small instance.                                       *)
(***************************************************************************)
EXTENDS HealthReport

=============================================================================
