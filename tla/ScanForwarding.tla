--------------------------- MODULE ScanForwarding ---------------------------
(***************************************************************************)
(* What the client promises about the scans it takes: at-least-once        *)
(* forwarding, oldest first.  A scan that was taken stays on the books     *)
(* until it has been handed to a connection; it is never overtaken by a    *)
(* later scan unless an attempt to hand it over has failed before; only an *)
(* operator takes it off the books unsent.                                 *)
(*                                                                         *)
(* There are no threads, no database and no crash here: they may make the  *)
(* client slow or repeat itself, never anything else.                      *)
(***************************************************************************)
EXTENDS Naturals

CONSTANT MaxScans

Scans == 1 .. MaxScans

VARIABLES
    fate,   \* "none" (not scanned yet), "new", "deferred", "sent", or "gone"
    handed  \* the scans that were handed over at least once

Outstanding == {s \in Scans : fate[s] \in {"new", "deferred"}}

Init == fate = [s \in Scans |-> "none"] /\ handed = {}

\* The next scan is taken, or is lost before it is (the disk is full).
Take(s) ==
    /\ fate[s] = "none" /\ \A t \in 1 .. (s - 1) : fate[t] # "none"
    /\ \E f \in {"new", "gone"} : fate' = [fate EXCEPT ![s] = f]
    /\ UNCHANGED handed

\* A scan is handed over; one that was just cleared may still be in flight.
Hand(s) ==
    /\ \/ s \in Outstanding /\ \A t \in 1 .. (s - 1) : fate[t] # "new"
       \/ fate[s] = "gone"
    /\ handed' = handed \cup {s}
    /\ UNCHANGED fate

\* An attempt failed, and later scans may go first until the retry.
Defer(s) ==
    /\ s \in Outstanding
    /\ fate' = [fate EXCEPT ![s] = "deferred"]
    /\ UNCHANGED handed

Retire(s) ==
    /\ s \in Outstanding /\ s \in handed
    /\ fate' = [fate EXCEPT ![s] = "sent"]
    /\ UNCHANGED handed

Clear ==
    /\ fate' = [s \in Scans |-> IF s \in Outstanding THEN "gone" ELSE fate[s]]
    /\ UNCHANGED handed

Next == Clear \/ \E s \in Scans : Take(s) \/ Hand(s) \/ Defer(s) \/ Retire(s)

Spec == Init /\ [][Next]_<<fate, handed>>

=============================================================================
