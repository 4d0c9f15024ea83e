------------------------------ MODULE Keyboard ------------------------------
(***************************************************************************)
(* From key events to scans (keyboard.py): KeyboardDecoder turns the evdev *)
(* events of a keyboard-wedge scanner into characters, ScanAccumulator     *)
(* turns characters into completed scans.  The state is that of the two    *)
(* objects _read_device makes each time it opens the scanner; the scanner  *)
(* may be lost and opened again between any two events.                    *)
(*                                                                         *)
(* The key tables are cut down to one key of each kind: a letter, which    *)
(* shift and caps lock change; a key that shift changes; one that shift    *)
(* does not; one that has no meaning with shift; and a key in no table.    *)
(***************************************************************************)
EXTENDS Integers, Sequences

CONSTANTS
    MaxChars,   \* scanner.max_scan_chars
    Events,     \* the key events the device may deliver: pairs of key and value
    MaxEvents   \* bound: how many of them are fed over all openings

ASSUME MaxCharsAssumption == MaxChars \in Nat \ {0}
ASSUME MaxEventsAssumption == MaxEvents \in Nat

ShiftKeys == {"KEY_LEFTSHIFT", "KEY_RIGHTSHIFT"}
EnterKeys == {"KEY_ENTER", "KEY_KPENTER"}
LetterKeys == {"KEY_A"}

UnshiftedKeys == [k \in {"KEY_A", "KEY_1", "KEY_SPACE", "KEY_KP1"} |->
                     CASE k = "KEY_A" -> "a"
                       [] k = "KEY_SPACE" -> " "
                       [] OTHER -> "1"]

ShiftedKeys == [k \in {"KEY_A", "KEY_1", "KEY_SPACE"} |->
                   CASE k = "KEY_A" -> "A"
                     [] k = "KEY_SPACE" -> " "
                     [] OTHER -> "!"]

Keys == ShiftKeys \cup EnterKeys \cup DOMAIN UnshiftedKeys
            \cup {"KEY_CAPSLOCK", "KEY_BACKSPACE", "KEY_F1"}

ASSUME EventsAssumption == Events \subseteq Keys \X {0, 1, 2}

Text == {"a", "A", "1", "!", " "}
NoCharacter == "no character"
Newline == "newline"
Backspace == "backspace"

VARIABLES
    sendEmpty, \* scanner.send_empty_scans, as read from the configuration
    shift,     \* KeyboardDecoder._shift_pressed
    caps,      \* KeyboardDecoder._caps_lock
    buffer,    \* ScanAccumulator._buffer
    dropping,  \* ScanAccumulator._dropping_oversized
    open,      \* _read_device is in its loop
    scans,     \* history: the barcodes queued so far
    log,       \* history: the events fed so far
    opened,    \* history: the lengths the log had when the scanner was opened
    lost       \* history: the positions in the log of the scans that were not queued

decoder == <<shift, caps>>
accumulator == <<buffer, dropping>>
vars == <<sendEmpty, decoder, accumulator, open, scans, log, opened, lost>>

\* Every variable has its type; the frame in the buffer is never longer than
\* the limit.
TypeOK ==
    /\ open \in BOOLEAN /\ opened \subseteq 0 .. MaxEvents /\ lost \subseteq 1 .. MaxEvents
    /\ sendEmpty \in BOOLEAN /\ shift \in BOOLEAN /\ caps \in BOOLEAN /\ dropping \in BOOLEAN
    /\ buffer \in Seq(Text) /\ Len(buffer) <= MaxChars
    /\ scans \in Seq(Seq(Text))
    /\ log \in Seq(Events) /\ Len(log) <= MaxEvents

-----------------------------------------------------------------------------
(* KeyboardDecoder.feed_key *)

ShiftAfter(k, v) == IF k \in ShiftKeys THEN v \in {1, 2} ELSE shift

CapsAfter(k, v) == IF k = "KEY_CAPSLOCK" /\ v = 1 THEN ~caps ELSE caps

Shifted(k) == IF k \in LetterKeys /\ caps THEN ~shift ELSE shift

Lookup(k) ==
    LET table == IF Shifted(k) THEN ShiftedKeys ELSE UnshiftedKeys
    IN  IF k \in DOMAIN table THEN table[k] ELSE NoCharacter

Character(k, v) ==
    IF k \in ShiftKeys \/ v # 1 THEN NoCharacter
    ELSE IF k \in EnterKeys THEN Newline
    ELSE IF k = "KEY_BACKSPACE" THEN Backspace
    ELSE Lookup(k)

-----------------------------------------------------------------------------
(* ScanAccumulator.feed_character *)

\* str.strip()
Blank(c) == c = " "
Strip(s) ==
    LET solid == {i \in 1 .. Len(s) : ~Blank(s[i])}
    IN  IF solid = {} THEN << >>
        ELSE SubSeq(s, CHOOSE i \in solid : \A j \in solid : i <= j,
                       CHOOSE i \in solid : \A j \in solid : i >= j)

Erase ==
    /\ buffer' = IF buffer = << >> THEN buffer ELSE SubSeq(buffer, 1, Len(buffer) - 1)
    /\ UNCHANGED <<dropping, scans>>

\* Mutation: whether the scan is empty is tested before it is stripped.
EndFrameTestedUnstripped ==
    /\ scans' = IF ~dropping /\ (buffer # << >> \/ sendEmpty)
                THEN Append(scans, Strip(buffer)) ELSE scans
    /\ buffer' = << >>
    /\ dropping' = FALSE

\* A frame is a scan unless it was too long, or is empty and those are not sent.
Completed == ~dropping /\ (Strip(buffer) # << >> \/ sendEmpty)

EndFrame ==
    /\ scans' = IF Completed THEN Append(scans, Strip(buffer)) ELSE scans
    /\ buffer' = << >>
    /\ dropping' = FALSE

\* Mutation: the limit is tested before the character is appended.
TakeCharacterBeyondLimit(c) ==
    /\ IF dropping THEN UNCHANGED <<buffer, dropping>>
       ELSE IF Len(buffer) > MaxChars THEN buffer' = << >> /\ dropping' = TRUE
       ELSE buffer' = Append(buffer, c) /\ UNCHANGED dropping
    /\ UNCHANGED scans

\* One character beyond the limit discards the frame up to its end.
TakeCharacter(c) ==
    /\ IF dropping THEN UNCHANGED <<buffer, dropping>>
       ELSE IF Len(buffer) + 1 > MaxChars THEN buffer' = << >> /\ dropping' = TRUE
       ELSE buffer' = Append(buffer, c) /\ UNCHANGED dropping
    /\ UNCHANGED scans

-----------------------------------------------------------------------------

Init ==
    /\ sendEmpty \in BOOLEAN /\ shift = FALSE /\ caps = FALSE
    /\ buffer = << >> /\ dropping = FALSE /\ open = FALSE
    /\ scans = << >> /\ log = << >> /\ opened = {} /\ lost = {}

\* Mutation: the decoder and the accumulator are made once, by the service.
OpenDeviceKeepingObjects ==
    /\ ~open /\ open' = TRUE
    /\ Len(log) < MaxEvents
    /\ opened' = opened \cup {Len(log)}
    /\ UNCHANGED <<decoder, accumulator, sendEmpty, scans, log, lost>>

(* The scanner is found and opened: a decoder and an accumulator of its own. *)
OpenDevice ==
    /\ ~open /\ open' = TRUE
    /\ Len(log) < MaxEvents
    /\ opened' = opened \cup {Len(log)}
    /\ shift' = FALSE /\ caps' = FALSE
    /\ buffer' = << >> /\ dropping' = FALSE
    /\ UNCHANGED <<sendEmpty, scans, log, lost>>

(* The scanner is unplugged, the service stops, or the write of the scanner *)
(* state or of last_scan_id raises: the loop is left, and with it the rest  *)
(* of the events read; what was typed of a line is forgotten.               *)
LoseDevice ==
    /\ open /\ open' = FALSE
    /\ UNCHANGED <<decoder, accumulator, sendEmpty, scans, log, opened, lost>>

Feed(k, v) ==
    /\ open /\ Len(log) < MaxEvents
    /\ log' = Append(log, <<k, v>>)
    /\ shift' = ShiftAfter(k, v) /\ caps' = CapsAfter(k, v)
    /\ UNCHANGED <<sendEmpty, opened>>

(* One event of device.read(): decode it, and feed the character, if any.  *)
KeyEvent(k, v) ==
    LET c == Character(k, v)
    IN  /\ Feed(k, v)
        /\ UNCHANGED <<open, lost>>
        /\ \/ c = NoCharacter /\ UNCHANGED <<accumulator, scans>>
           \/ c = Backspace /\ Erase
           \/ c = Newline /\ EndFrame
           \/ c \in Text /\ TakeCharacter(c)

(* The event completes a scan and enqueue_scan raises: the scan is lost, the *)
(* device is closed, and the scanner loop opens it again.                    *)
EnqueueFails(k, v) ==
    /\ Feed(k, v)
    /\ Character(k, v) = Newline /\ Completed
    /\ buffer' = << >> /\ dropping' = FALSE
    /\ open' = FALSE
    /\ lost' = lost \cup {Len(log) + 1}
    /\ UNCHANGED scans

Next ==
    \/ OpenDevice
    \/ LoseDevice
    \/ \E e \in Events : KeyEvent(e[1], e[2]) \/ EnqueueFails(e[1], e[2])

Spec == Init /\ [][Next]_vars

-----------------------------------------------------------------------------

\* No scan is longer than the limit after stripping and backspaces, and none is
\* empty, or was nothing but blanks, unless those are sent (feed_character).
ScansWithinLimit ==
    \A i \in 1 .. Len(scans) :
        Len(scans[i]) <= MaxChars /\ (scans[i] # << >> \/ sendEmpty)

=============================================================================
