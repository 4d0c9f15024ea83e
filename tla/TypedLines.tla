----------------------------- MODULE TypedLines -----------------------------
(***************************************************************************)
(* The scans that the logged key events should yield: a definition of them *)
(* that looks at the whole log and keeps none of the state that Keyboard   *)
(* carries from one event to the next.                                     *)
(***************************************************************************)
EXTENDS Keyboard, FiniteSets

\* The scanner was not opened anew between the event at position i and the one at n.
SameOpening(i, n) == ~\E m \in opened : i <= m /\ m < n

\* The last shift event before position n was not a release.
ShiftAt(n) ==
    \E i \in 1 .. (n - 1) :
        /\ SameOpening(i, n)
        /\ log[i][1] \in ShiftKeys /\ log[i][2] # 0
        /\ \A j \in (i + 1) .. (n - 1) : log[j][1] \notin ShiftKeys

\* Caps lock was pressed an odd number of times before position n.
CapsPresses(n) ==
    {i \in 1 .. (n - 1) : SameOpening(i, n) /\ log[i] = <<"KEY_CAPSLOCK", 1>>}
CapsAt(n) == Cardinality(CapsPresses(n)) % 2 = 1

\* What the event at position n types, if anything.
Typed(n) ==
    LET k == log[n][1]
        upper == IF k \in LetterKeys THEN ShiftAt(n) <=> ~CapsAt(n) ELSE ShiftAt(n)
        keys == IF upper THEN ShiftedKeys ELSE UnshiftedKeys
    IN  IF log[n][2] # 1 THEN NoCharacter
        ELSE IF k \in EnterKeys THEN Newline
        ELSE IF k = "KEY_BACKSPACE" THEN Backspace
        ELSE IF k \in DOMAIN keys THEN keys[k]
        ELSE NoCharacter

\* The position after which the line that position n belongs to begins.
Greatest(S) == CHOOSE m \in S : \A k \in S : k <= m
LineStarts(n) == {m \in 0 .. (n - 1) : m = 0 \/ m \in opened \/ Typed(m) = Newline}
LineStart(n) == Greatest(LineStarts(n))

\* A line after one more key.
After(text, c) ==
    IF c = Backspace /\ text # << >> THEN SubSeq(text, 1, Len(text) - 1)
    ELSE IF c \in Text THEN Append(text, c)
    ELSE text

\* A line that begins after position a, as it stands after each position up to b.
Line(typed, a, b) ==
    LET text[i \in a .. b] == IF i = a THEN << >> ELSE After(text[i - 1], typed[i])
    IN  text

\* The line that position n belongs to, up to there; how it stands just before n, and
\* whether it was too long at some moment while it was typed.
LineBefore(n) == Line([i \in 1 .. Len(log) |-> Typed(i)], LineStart(n), n - 1)
LineAt(n) == LineBefore(n)[n - 1]
TooLong(n) == LET line == LineBefore(n) IN \E i \in DOMAIN line : Len(line[i]) > MaxChars

\* The positions at which a scan should be queued, and was.
Ends ==
    {n \in 1 .. Len(log) : /\ Typed(n) = Newline
                           /\ n \notin lost /\ ~TooLong(n)
                           /\ Strip(LineAt(n)) # << >> \/ sendEmpty}

\* How many of the numbers in S are not greater than n.
Rank(S, n) == Cardinality({m \in S : m <= n})

\* The queued scans are the lines that were typed, each once and in order, without
\* the ones that were too long at some moment, the ones that were not queued and,
\* if so configured, the empty ones.  No line begins before the scanner was last
\* opened: the part typed before, its shift and its caps lock are forgotten
\* (feed_key and feed_character over every opening of the scanner).
ScansAreTheLinesTyped ==
    /\ Len(scans) = Cardinality(Ends)
    /\ \A n \in Ends : scans[Rank(Ends, n)] = Strip(LineAt(n))

=============================================================================
