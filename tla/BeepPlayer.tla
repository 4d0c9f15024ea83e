----------------------------- MODULE BeepPlayer -----------------------------
(***************************************************************************)
(* BeepPlayer (alert_monitor.py): a pattern is a number of beeps, and each *)
(* beep is tried on one backend after another until one plays it, the one  *)
(* that worked last time first.  AlertMonitor says when a pattern starts   *)
(* and what becomes of one that fails.                                     *)
(***************************************************************************)
EXTENDS Integers, Sequences

CONSTANTS
    BeepCount,  \* alerting.*_beeps: the number of beeps of each alert
    Fixed       \* the backend named by alerting.backend where that is not auto

AutoBackends == <<"aplay", "beep", "console_bell">>
NoBackend == "none"
Backends == {AutoBackends[i] : i \in 1 .. Len(AutoBackends)}

ASSUME BeepCountAssumption == \A a \in DOMAIN BeepCount : BeepCount[a] \in Nat \ {0}
ASSUME FixedAssumption == Fixed \in Backends \cup {"stdout"}

VARIABLES
    automatic,   \* alerting.backend is auto
    remembered,  \* _auto_backend
    candidates,  \* the backends still to be tried for this beep
    left,        \* beeps of the pattern that are still to be played
    failed       \* history: the backends that failed for this beep

player == <<automatic, remembered, candidates, left, failed>>

PlayerTypeOK ==
    /\ automatic \in BOOLEAN
    /\ remembered \in Backends \cup {NoBackend}
    /\ candidates \in Seq(Backends \cup {Fixed}) /\ Len(candidates) <= Len(AutoBackends)
    /\ left \in Nat
    /\ failed \subseteq Backends \cup {Fixed}

-----------------------------------------------------------------------------

\* Mutation: once a backend is remembered it is the only one that is tried.
CandidatesWithoutFallback(b) ==
    IF ~automatic THEN <<Fixed>>
    ELSE IF b = NoBackend THEN AutoBackends
    ELSE <<b>>

Position(b) == CHOOSE i \in 1 .. Len(AutoBackends) : AutoBackends[i] = b

\* Which backends a beep is tried on, and in which order: the remembered one comes
\* first, and those that stood before it move back by one place.
Candidates(b) ==
    IF ~automatic THEN <<Fixed>>
    ELSE IF b = NoBackend THEN AutoBackends
    ELSE [i \in 1 .. Len(AutoBackends) |->
             IF i = 1 THEN b
             ELSE IF i <= Position(b) THEN AutoBackends[i - 1]
             ELSE AutoBackends[i]]

\* The backends that are tried before a beep is given up.
Allowed == IF automatic THEN Backends ELSE {Fixed}

\* A player as a process makes it, with nothing to play.
InitPlayer ==
    /\ automatic \in BOOLEAN /\ remembered = NoBackend
    /\ candidates = << >> /\ left = 0 /\ failed = {}

StartPlayer ==
    /\ remembered' = NoBackend /\ candidates' = << >> /\ left' = 0 /\ failed' = {}
    /\ UNCHANGED automatic

\* play_pattern(n)
StartPattern(n) ==
    /\ left' = n /\ candidates' = Candidates(remembered) /\ failed' = {}
    /\ UNCHANGED <<automatic, remembered>>

\* The candidate plays the beep: its command ends with 0, or it is the beep
\* command and fails without a word.
BeepWorks ==
    /\ remembered' = IF automatic THEN Head(candidates) ELSE remembered
    /\ left' = left - 1
    /\ candidates' = IF left = 1 THEN << >> ELSE Candidates(remembered')
    /\ failed' = {}
    /\ UNCHANGED automatic

\* It raises AlertMonitorError.
BeepFails ==
    /\ remembered' = IF Head(candidates) = remembered THEN NoBackend ELSE remembered
    /\ failed' = failed \cup {Head(candidates)}
    /\ candidates' = Tail(candidates)
    /\ left' = IF Len(candidates) = 1 THEN 0 ELSE left
    /\ UNCHANGED automatic

\* The pattern is given up: the command cannot be started (OSError is not caught),
\* or nothing is to be played.
GiveUpPattern ==
    /\ candidates' = << >> /\ left' = 0 /\ failed' = {}
    /\ UNCHANGED <<automatic, remembered>>

=============================================================================
