--------------------------- MODULE KeyboardProofs ---------------------------
(***************************************************************************)
(* Theorems about Keyboard, for any limit, any set of key events, any      *)
(* number of events and however often the scanner is opened.               *)
(***************************************************************************)
EXTENDS TypedLines, SequenceTheorems, FiniteSetTheorems, WellFoundedInduction, TLAPS

USE MaxCharsAssumption, MaxEventsAssumption

-----------------------------------------------------------------------------
(* strip() *)

\* A set of naturals has a least element.
LEMMA LeastExists ==
    ASSUME NEW T, T \subseteq Nat, T # {}
    PROVE  \E x \in T : \A y \in T : x <= y
<1>1. PICK x \in T : \A y \in T : ~(<<y, x>> \in OpToRel(<, Nat))
  BY NatLessThanWellFounded, WFMin
<1>2. \A y \in T : ~(y < x)
  BY <1>1 DEF OpToRel
<1> QED
  BY <1>2

\* One that is bounded has a greatest.
LEMMA GreatestExists ==
    ASSUME NEW n \in Nat, NEW T, T \subseteq 0 .. n, T # {}
    PROVE  \E x \in T : \A y \in T : x >= y
<1> DEFINE U == {n - x : x \in T}
<1>1. U \subseteq Nat /\ U # {}
  <2>1. \A x \in T : n - x \in Nat
    OBVIOUS
  <2> QED
    BY <2>1
<1>2. PICK u \in U : \A v \in U : u <= v
  <2> HIDE DEF U
  <2> QED
    BY <1>1, LeastExists
<1>3. PICK x \in T : u = n - x
  OBVIOUS
<1>4. \A y \in T : n - x <= n - y
  BY <1>2, <1>3
<1> QED
  BY <1>4

\* What is stripped is a piece of the text.
LEMMA StripIsShorter ==
    ASSUME NEW s \in Seq(Text)
    PROVE  Strip(s) \in Seq(Text) /\ Len(Strip(s)) <= Len(s)
<1> DEFINE solid == {i \in 1 .. Len(s) : ~Blank(s[i])}
           a == CHOOSE i \in solid : \A j \in solid : i <= j
           b == CHOOSE i \in solid : \A j \in solid : i >= j
<1>1. Strip(s) = IF solid = {} THEN << >> ELSE SubSeq(s, a, b)
  BY DEF Strip
<1>2. /\ Len(s) \in Nat /\ solid \subseteq 1 .. Len(s)
      /\ solid \subseteq Nat /\ solid \subseteq 0 .. Len(s)
  OBVIOUS
<1> HIDE DEF solid
<1>3. CASE solid = {}
  BY <1>1, <1>3
<1>4. CASE solid # {}
  <2>1. a \in 1 .. Len(s) /\ b \in 1 .. Len(s)
    BY <1>2, <1>4, LeastExists, GreatestExists
  <2> HIDE DEF a, b
  <2>2. \A i \in a .. b : s[i] \in Text
    BY <2>1
  <2>3. /\ SubSeq(s, a, b) \in Seq(Text)
        /\ Len(SubSeq(s, a, b)) = IF a <= b THEN b - a + 1 ELSE 0
    BY <2>1, <2>2, SubSeqProperties
  <2> QED
    BY <1>1, <1>4, <2>1, <2>3
<1> QED
  BY <1>3, <1>4

-----------------------------------------------------------------------------
(* Types and limit *)

KeyboardInv == TypeOK /\ ScansWithinLimit

\* The empty frame is a frame.
LEMMA EmptyFrame == << >> \in Seq(Text) /\ Len(<< >>) = 0
OBVIOUS

\* As long as no scan is added there is nothing to show of the scans.
LEMMA SameScans ==
    ASSUME ScansWithinLimit, UNCHANGED <<scans, sendEmpty>>
    PROVE  ScansWithinLimit'
BY DEF ScansWithinLimit

\* The end of a frame adds at most one scan, of at most the length of the frame.
LEMMA EndFrameKeeps ==
    ASSUME KeyboardInv, EndFrame, UNCHANGED sendEmpty
    PROVE  /\ buffer' \in Seq(Text) /\ Len(buffer') <= MaxChars /\ dropping' \in BOOLEAN
           /\ scans' \in Seq(Seq(Text)) /\ ScansWithinLimit'
<1>1. /\ buffer \in Seq(Text) /\ Len(buffer) <= MaxChars /\ scans \in Seq(Seq(Text))
      /\ ScansWithinLimit
  BY DEF KeyboardInv, TypeOK
<1>2. buffer' \in Seq(Text) /\ Len(buffer') <= MaxChars /\ dropping' \in BOOLEAN
  <2>1. buffer' = << >> /\ dropping' = FALSE
    BY DEF EndFrame
  <2>2. buffer' \in Seq(Text) /\ Len(buffer') <= MaxChars
    BY <2>1, EmptyFrame
  <2>3. dropping' \in BOOLEAN
    BY <2>1
  <2> QED
    BY <2>2, <2>3
<1> PICK barcode : barcode = Strip(buffer)
  OBVIOUS
<1>3. barcode \in Seq(Text) /\ Len(barcode) <= MaxChars
  BY <1>1, StripIsShorter
<1>4. scans' = IF ~dropping /\ (barcode # << >> \/ sendEmpty)
               THEN Append(scans, barcode) ELSE scans
  BY DEF EndFrame, Completed
<1>5. CASE scans' = scans
  BY <1>1, <1>2, <1>5, SameScans
<1>6. CASE scans' = Append(scans, barcode) /\ (barcode # << >> \/ sendEmpty)
  <2>1. /\ scans' \in Seq(Seq(Text)) /\ Len(scans') = Len(scans) + 1
        /\ \A i \in 1 .. Len(scans) : scans'[i] = scans[i]
        /\ scans'[Len(scans) + 1] = barcode
    BY <1>1, <1>3, <1>6
  <2>2. ASSUME NEW i \in 1 .. Len(scans')
        PROVE  Len(scans'[i]) <= MaxChars /\ (scans'[i] # << >> \/ sendEmpty)
    <3>1. CASE i = Len(scans) + 1
      BY <1>3, <1>6, <2>1, <3>1
    <3>2. CASE i # Len(scans) + 1
      <4>1. i \in 1 .. Len(scans)
        BY <2>1, <3>2, <1>1
      <4> QED
        BY <4>1, <2>1, <1>1 DEF ScansWithinLimit
    <3> QED
      BY <3>1, <3>2
  <2>3. ScansWithinLimit'
    BY <2>2 DEF ScansWithinLimit
  <2> QED
    BY <1>2, <2>1, <2>3
<1> QED
  BY <1>4, <1>5, <1>6

\* A fed event is logged, and the decoder's flags stay flags.
LEMMA FeedKeeps ==
    ASSUME KeyboardInv, NEW e \in Events, Feed(e[1], e[2])
    PROVE  /\ log' \in Seq(Events) /\ Len(log') <= MaxEvents /\ Len(log) + 1 \in 1 .. MaxEvents
           /\ sendEmpty' \in BOOLEAN /\ shift' \in BOOLEAN /\ caps' \in BOOLEAN
           /\ opened' \subseteq 0 .. MaxEvents /\ UNCHANGED sendEmpty
<1>1. /\ log \in Seq(Events) /\ Len(log) < MaxEvents
      /\ log' = Append(log, <<e[1], e[2]>>) /\ UNCHANGED <<sendEmpty, opened>>
      /\ shift' = ShiftAfter(e[1], e[2]) /\ caps' = CapsAfter(e[1], e[2])
  BY DEF Feed, KeyboardInv, TypeOK
<1>2. <<e[1], e[2]>> \in Events
  BY EventsAssumption
<1>3. /\ log' \in Seq(Events) /\ Len(log') <= MaxEvents /\ Len(log) + 1 \in 1 .. MaxEvents
  BY <1>1, <1>2
<1>4. ShiftAfter(e[1], e[2]) \in BOOLEAN
  <2>1. shift \in BOOLEAN /\ (e[2] \in {1, 2}) \in BOOLEAN
    BY DEF KeyboardInv, TypeOK
  <2> QED
    BY <2>1 DEF ShiftAfter
<1>5. CapsAfter(e[1], e[2]) \in BOOLEAN
  BY DEF KeyboardInv, TypeOK, CapsAfter
<1> QED
  BY <1>1, <1>3, <1>4, <1>5 DEF KeyboardInv, TypeOK

\* Every step keeps types and limit.
LEMMA NextKeyboard == KeyboardInv /\ [Next]_vars => KeyboardInv'
<1> SUFFICES ASSUME KeyboardInv, [Next]_vars PROVE KeyboardInv'
  OBVIOUS
<1>1. /\ buffer \in Seq(Text) /\ Len(buffer) <= MaxChars /\ scans \in Seq(Seq(Text))
      /\ dropping \in BOOLEAN /\ open \in BOOLEAN /\ lost \subseteq 1 .. MaxEvents
      /\ ScansWithinLimit
  BY DEF KeyboardInv, TypeOK
<1>2. CASE UNCHANGED vars
  BY <1>2 DEF KeyboardInv, TypeOK, ScansWithinLimit, vars, decoder, accumulator
<1>3. CASE OpenDevice
  <2>1. buffer' \in Seq(Text) /\ Len(buffer') <= MaxChars
    BY <1>3, EmptyFrame DEF OpenDevice
  <2>2. ScansWithinLimit'
    BY <1>1, <1>3, SameScans DEF OpenDevice
  <2>3. opened' \subseteq 0 .. MaxEvents
    <3>1. Len(log) \in 0 .. MaxEvents
      BY DEF KeyboardInv, TypeOK
    <3> QED
      BY <1>3, <3>1 DEF OpenDevice, KeyboardInv, TypeOK
  <2> QED
    BY <1>3, <2>1, <2>2, <2>3 DEF OpenDevice, KeyboardInv, TypeOK
<1>4. CASE LoseDevice
  <2>1. ScansWithinLimit'
    BY <1>1, <1>4, SameScans DEF LoseDevice
  <2> QED
    BY <1>4, <2>1 DEF LoseDevice, KeyboardInv, TypeOK, decoder, accumulator
<1>5. ASSUME NEW e \in Events, KeyEvent(e[1], e[2]) PROVE KeyboardInv'
  <2> PICK c : c = Character(e[1], e[2])
    OBVIOUS
  <2>1. /\ Feed(e[1], e[2]) /\ UNCHANGED <<open, lost>>
        /\ \/ c = NoCharacter /\ UNCHANGED <<accumulator, scans>>
           \/ c = Backspace /\ Erase
           \/ c = Newline /\ EndFrame
           \/ c \in Text /\ TakeCharacter(c)
    BY <1>5 DEF KeyEvent
  <2>2. UNCHANGED sendEmpty
    BY <2>1, FeedKeeps
  <2>3. /\ buffer' \in Seq(Text) /\ Len(buffer') <= MaxChars /\ dropping' \in BOOLEAN
        /\ scans' \in Seq(Seq(Text)) /\ ScansWithinLimit'
    <3>1. CASE UNCHANGED <<accumulator, scans>>
      BY <1>1, <2>2, <3>1, SameScans DEF accumulator
    <3>2. CASE Erase
      <4>1. buffer' \in Seq(Text) /\ Len(buffer') <= MaxChars
        <5>1. CASE buffer = << >>
          BY <1>1, <3>2, <5>1 DEF Erase
        <5>2. CASE buffer # << >>
          BY <1>1, <3>2, <5>2, SubSeqProperties DEF Erase
        <5> QED
          BY <5>1, <5>2
      <4> QED
        BY <1>1, <2>2, <3>2, <4>1, SameScans DEF Erase
    <3>3. CASE EndFrame
      BY <2>2, <3>3, EndFrameKeeps
    <3>4. CASE c \in Text /\ TakeCharacter(c)
      <4>1. buffer' \in Seq(Text) /\ Len(buffer') <= MaxChars
        <5>1. CASE buffer' = buffer
          BY <1>1, <5>1
        <5>2. CASE buffer' = << >>
          BY <5>2, EmptyFrame
        <5>3. CASE buffer' = Append(buffer, c) /\ Len(buffer) + 1 <= MaxChars
          BY <1>1, <3>4, <5>3
        <5>4. Len(buffer) \in Nat
          BY <1>1
        <5> QED
          BY <3>4, <5>1, <5>2, <5>3, <5>4 DEF TakeCharacter
      <4>2. UNCHANGED scans /\ dropping' \in BOOLEAN
        BY <1>1, <3>4 DEF TakeCharacter
      <4> QED
        BY <1>1, <2>2, <4>1, <4>2, SameScans
    <3> QED
      BY <2>1, <3>1, <3>2, <3>3, <3>4
  <2>4. open' \in BOOLEAN /\ lost' \subseteq 1 .. MaxEvents
    BY <1>1, <2>1
  <2> QED
    BY <2>1, <2>3, <2>4, FeedKeeps DEF KeyboardInv, TypeOK
<1>6. ASSUME NEW e \in Events, EnqueueFails(e[1], e[2]) PROVE KeyboardInv'
  <2>1. /\ Feed(e[1], e[2]) /\ buffer' = << >> /\ dropping' = FALSE /\ open' = FALSE
        /\ lost' = lost \cup {Len(log) + 1} /\ UNCHANGED scans
    BY <1>6 DEF EnqueueFails
  <2>2. UNCHANGED sendEmpty /\ Len(log) + 1 \in 1 .. MaxEvents
    BY <2>1, FeedKeeps
  <2>3. ScansWithinLimit'
    BY <1>1, <2>1, <2>2, SameScans
  <2>4. buffer' \in Seq(Text) /\ Len(buffer') <= MaxChars
    BY <2>1, EmptyFrame
  <2>5. scans' \in Seq(Seq(Text)) /\ lost' \subseteq 1 .. MaxEvents
    BY <1>1, <2>1, <2>2
  <2> QED
    BY <2>1, <2>3, <2>4, <2>5, FeedKeeps DEF KeyboardInv, TypeOK
<1> QED
  BY <1>2, <1>3, <1>4, <1>5, <1>6 DEF Next

\* The service starts with nothing.
LEMMA InitKeyboard == Init => KeyboardInv
<1> SUFFICES ASSUME Init PROVE KeyboardInv
  OBVIOUS
<1>1. buffer \in Seq(Text) /\ Len(buffer) <= MaxChars
  BY EmptyFrame DEF Init
<1>2. scans \in Seq(Seq(Text)) /\ log \in Seq(Events) /\ Len(log) <= MaxEvents
  BY DEF Init
<1>3. ScansWithinLimit
  BY DEF Init, ScansWithinLimit
<1> QED
  BY <1>1, <1>2, <1>3 DEF Init, KeyboardInv, TypeOK

\* Every variable keeps its type: the frame never outgrows the limit.
THEOREM KeyboardTypes == Spec => []TypeOK
<1>1. KeyboardInv => TypeOK
  BY DEF KeyboardInv
<1> QED
  BY InitKeyboard, NextKeyboard, <1>1, PTL DEF Spec

\* No scan is longer than the limit, and an empty one is a scan only where those
\* are sent, whatever keys are typed and for however long.
THEOREM ScansKeepToTheLimit == Spec => []ScansWithinLimit
<1>1. KeyboardInv => ScansWithinLimit
  BY DEF KeyboardInv
<1> QED
  BY InitKeyboard, NextKeyboard, <1>1, PTL DEF Spec

-----------------------------------------------------------------------------
(* What keys make of a line.                                               *)

\* A property of 0 that every number passes on to the next holds of all of them.
LEMMA AllNaturals ==
    ASSUME NEW T, T \subseteq Nat, 0 \in T, \A k \in T : k + 1 \in T
    PROVE  T = Nat
<1>1. ASSUME Nat \ T # {} PROVE FALSE
  <2>1. PICK x \in Nat \ T : \A y \in Nat \ T : x <= y
    BY <1>1, LeastExists
  <2>2. x # 0 /\ x - 1 \in Nat /\ ~(x <= x - 1)
    BY <2>1
  <2>3. x - 1 \in T
    BY <2>1, <2>2
  <2>4. (x - 1) + 1 \in T
    BY <2>3
  <2>5. (x - 1) + 1 = x
    BY <2>1
  <2> QED
    BY <2>1, <2>4, <2>5
<1> QED
  BY <1>1

\* There is a line for any keys, and it grows key by key.
LEMMA LineGrows ==
    ASSUME NEW typed, NEW a \in Nat, NEW b \in Nat, a <= b
    PROVE  Line(typed, a, b) =
              [i \in a .. b |-> IF i = a THEN << >> ELSE After(Line(typed, a, b)[i - 1], typed[i])]
<1> DEFINE Grows(s, c) ==
              s = [i \in a .. c |-> IF i = a THEN << >> ELSE After(s[i - 1], typed[i])]
           T == {k \in Nat : \E s : Grows(s, a + k)}
<1>1. 0 \in T
  <2> DEFINE s == [i \in a .. a |-> << >>]
  <2>1. Grows(s, a)
    OBVIOUS
  <2>2. a + 0 = a
    OBVIOUS
  <2> QED
    BY <2>1, <2>2
<1>2. ASSUME NEW k \in T PROVE k + 1 \in T
  <2>1. PICK s : Grows(s, a + k)
    OBVIOUS
  <2> DEFINE t == [i \in a .. (a + k + 1) |->
                      IF i = a + k + 1 THEN After(s[a + k], typed[i]) ELSE s[i]]
  <2>2. Grows(t, a + k + 1)
    <3> SUFFICES ASSUME NEW i \in a .. (a + k + 1)
                 PROVE  t[i] = IF i = a THEN << >> ELSE After(t[i - 1], typed[i])
      OBVIOUS
    <3>1. CASE i = a + k + 1
      <4>1. i # a /\ i - 1 = a + k /\ i - 1 \in a .. (a + k + 1) /\ i - 1 # a + k + 1
        BY <3>1
      <4>2. t[i] = After(s[a + k], typed[i]) /\ t[i - 1] = s[a + k]
        BY <3>1, <4>1
      <4> QED
        BY <4>1, <4>2
    <3>2. CASE i # a + k + 1
      <4>0. i \in a .. (a + k)
        BY <3>2
      <4>1. i \in a .. (a + k) /\ t[i] = s[i]
        BY <3>2, <4>0
      <4>2. i # a => i - 1 \in a .. (a + k) /\ i - 1 # a + k + 1 /\ i - 1 \in a .. (a + k + 1)
        BY <4>1
      <4>3. i # a => t[i - 1] = s[i - 1]
        BY <4>2
      <4>4. s[i] = IF i = a THEN << >> ELSE After(s[i - 1], typed[i])
        BY <2>1, <4>1
      <4> QED
        BY <4>1, <4>3, <4>4
    <3> QED
      BY <3>1, <3>2
  <2>3. a + (k + 1) = a + k + 1
    OBVIOUS
  <2> HIDE DEF t
  <2> QED
    BY <2>2, <2>3
<1>3. T \subseteq Nat
  OBVIOUS
<1>4. b - a \in T
  <2>1. b - a \in Nat
    OBVIOUS
  <2> HIDE DEF T
  <2>2. T = Nat
    BY <1>1, <1>2, <1>3, AllNaturals
  <2> QED
    BY <2>1, <2>2
<1>5. a + (b - a) = b
  OBVIOUS
<1>6. \E s : Grows(s, b)
  BY <1>4, <1>5
<1>7. Line(typed, a, b) = CHOOSE s : Grows(s, b)
  BY DEF Line
<1> HIDE DEF Grows
<1>8. Grows(Line(typed, a, b), b)
  BY <1>6, <1>7
<1> QED
  BY <1>8 DEF Grows

\* So a line has a text at its beginning and after every position.
LEMMA LineIsFunction ==
    ASSUME NEW typed, NEW a \in Nat, NEW b \in Nat, a <= b
    PROVE  DOMAIN Line(typed, a, b) = a .. b
<1> DEFINE s == Line(typed, a, b)
<1>1. s = [i \in a .. b |-> IF i = a THEN << >> ELSE After(s[i - 1], typed[i])]
  BY LineGrows
<1> HIDE DEF s
<1>2. DOMAIN s = a .. b
  BY <1>1
<1> QED
  BY <1>2 DEF s

\* It begins empty.
LEMMA LineBegins ==
    ASSUME NEW typed, NEW a \in Nat, NEW b \in Nat, a <= b
    PROVE  Line(typed, a, b)[a] = << >>
<1> DEFINE s == Line(typed, a, b)
<1>1. s = [i \in a .. b |-> IF i = a THEN << >> ELSE After(s[i - 1], typed[i])]
  BY LineGrows
<1> HIDE DEF s
<1>2. a \in a .. b
  OBVIOUS
<1>3. s[a] = << >>
  BY <1>1, <1>2
<1> QED
  BY <1>3 DEF s

\* A key adds to what the line was before it.
LEMMA LineGoesOn ==
    ASSUME NEW typed, NEW a \in Nat, NEW b \in Nat, NEW i \in (a + 1) .. b
    PROVE  Line(typed, a, b)[i] = After(Line(typed, a, b)[i - 1], typed[i])
<1> DEFINE s == Line(typed, a, b)
<1>1. a <= b /\ i \in a .. b /\ i # a
  OBVIOUS
<1>2. s = [k \in a .. b |-> IF k = a THEN << >> ELSE After(s[k - 1], typed[k])]
  BY <1>1, LineGrows
<1> HIDE DEF s
<1>3. s[i] = After(s[i - 1], typed[i])
  BY <1>1, <1>2
<1> QED
  BY <1>3 DEF s

\* And a line that has only begun is empty.
LEMMA LineIsEmpty ==
    ASSUME NEW typed, NEW a \in Nat
    PROVE  DOMAIN Line(typed, a, a) = {a} /\ Line(typed, a, a)[a] = << >>
<1>1. a <= a
  OBVIOUS
<1>2. DOMAIN Line(typed, a, a) = a .. a
  BY <1>1, LineIsFunction
<1>3. Line(typed, a, a)[a] = << >>
  BY <1>1, LineBegins
<1>4. a .. a = {a}
  OBVIOUS
<1> QED
  BY <1>2, <1>3, <1>4

\* The same is typed after position a and up to b.
SameKeys(typed, more, a, b) == \A i \in (a + 1) .. b : more[i] = typed[i]

\* What is typed later changes nothing of what the line was before.
LEMMA LinesAgree ==
    ASSUME NEW typed, NEW more, NEW a \in Nat, NEW b \in Nat, NEW c \in Nat, a <= b, b <= c,
           SameKeys(typed, more, a, b)
    PROVE  \A i \in a .. b : Line(more, a, c)[i] = Line(typed, a, b)[i]
<1> DEFINE s == Line(typed, a, b)
           t == Line(more, a, c)
<1>1. s[a] = << >> /\ \A i \in (a + 1) .. b : s[i] = After(s[i - 1], typed[i])
  <2>1. s[a] = << >>
    BY LineBegins
  <2>2. ASSUME NEW i \in (a + 1) .. b PROVE s[i] = After(s[i - 1], typed[i])
    BY LineGoesOn
  <2> QED
    BY <2>1, <2>2
<1>2. t[a] = << >> /\ \A i \in (a + 1) .. c : t[i] = After(t[i - 1], more[i])
  <2>1. a <= c
    OBVIOUS
  <2>2. t[a] = << >>
    BY <2>1, LineBegins
  <2>3. ASSUME NEW i \in (a + 1) .. c PROVE t[i] = After(t[i - 1], more[i])
    BY LineGoesOn
  <2> QED
    BY <2>2, <2>3
<1> HIDE DEF s, t
<1> DEFINE T == {k \in Nat : a + k <= b => t[a + k] = s[a + k]}
<1>3. 0 \in T
  <2>1. a + 0 = a
    OBVIOUS
  <2> QED
    BY <1>1, <1>2, <2>1
<1>4. ASSUME NEW k \in T PROVE k + 1 \in T
  <2>1. SUFFICES ASSUME a + (k + 1) <= b PROVE t[a + (k + 1)] = s[a + (k + 1)]
    OBVIOUS
  <2> PICK i : i = a + (k + 1)
    OBVIOUS
  <2>2. i \in (a + 1) .. b /\ i \in (a + 1) .. c /\ i - 1 = a + k /\ a + k <= b
    BY <2>1
  <2>3. t[i - 1] = s[i - 1]
    BY <2>2
  <2> QED
    BY <1>1, <1>2, <2>2, <2>3 DEF SameKeys
<1>5. T = Nat
  <2>1. T \subseteq Nat
    OBVIOUS
  <2> HIDE DEF T
  <2> QED
    BY <1>3, <1>4, <2>1, AllNaturals
<1>6. ASSUME NEW i \in a .. b PROVE t[i] = s[i]
  <2>1. i - a \in T
    <3>1. i - a \in Nat
      OBVIOUS
    <3> HIDE DEF T
    <3> QED
      BY <1>5, <3>1
  <2>2. a + (i - a) = i
    OBVIOUS
  <2> QED
    BY <2>1, <2>2
<1> QED
  BY <1>6 DEF s, t

\* The line is a matter of what was typed since it began.
LEMMA SameLine ==
    ASSUME NEW typed, NEW more, NEW a \in Nat, NEW b \in Nat, a <= b,
           SameKeys(typed, more, a, b)
    PROVE  \A i \in a .. b : Line(more, a, b)[i] = Line(typed, a, b)[i]
<1>1. b <= b
  OBVIOUS
<1> QED
  BY <1>1, LinesAgree

-----------------------------------------------------------------------------
(* Positions *)

\* The greatest of a bounded set of numbers is one of them, and the others are less.
LEMMA GreatestIsGreatest ==
    ASSUME NEW n \in Nat, NEW S, S \subseteq 0 .. n, S # {}
    PROVE  Greatest(S) \in S /\ \A k \in S : k <= Greatest(S)
<1>1. \E x \in S : \A y \in S : y <= x
  <2>1. PICK x \in S : \A y \in S : x >= y
    BY GreatestExists
  <2>2. \A y \in S : y <= x
    BY <2>1
  <2> QED
    BY <2>2
<1> QED
  BY <1>1 DEF Greatest

\* If it holds the bound, that is the greatest.
LEMMA GreatestIsBound ==
    ASSUME NEW n \in Nat, NEW S, S \subseteq 0 .. n, n \in S
    PROVE  Greatest(S) = n
<1>1. Greatest(S) \in 0 .. n /\ n <= Greatest(S)
  BY GreatestIsGreatest
<1> QED
  BY <1>1

\* All numbers of a finite set are smaller than a given one.
Precede(S, p) == IsFiniteSet(S) /\ \A k \in S : k \in Nat /\ k < p

\* Positions of the log come before the one after it.
LEMMA ThosePrecede ==
    ASSUME NEW n \in Nat, NEW S, S \subseteq 1 .. n
    PROVE  Precede(S, n + 1)
<1>1. IsFiniteSet(1 .. n)
  BY FS_Interval
<1>2. IsFiniteSet(S)
  BY <1>1, FS_Subset
<1>3. \A k \in S : k \in Nat /\ k < n + 1
  OBVIOUS
<1> QED
  BY <1>2, <1>3 DEF Precede

\* A position after all those of a set comes last in it.
LEMMA RankOfTheLast ==
    ASSUME NEW p \in Nat, NEW S, Precede(S, p)
    PROVE  /\ Cardinality(S) \in Nat
           /\ Cardinality(S \cup {p}) = Cardinality(S) + 1
           /\ Rank(S \cup {p}, p) = Cardinality(S) + 1
<1>1. IsFiniteSet(S)
  BY DEF Precede
<1>2. Cardinality(S) \in Nat
  BY <1>1, FS_CardinalityType
<1>3. p \notin S /\ \A m \in S : m \in Nat /\ m <= p
  BY DEF Precede
<1>4. Cardinality(S \cup {p}) = Cardinality(S) + 1
  BY <1>1, <1>3, FS_AddElement
<1>5. {m \in S \cup {p} : m <= p} = S \cup {p}
  BY <1>3
<1>6. Rank(S \cup {p}, p) = Cardinality(S) + 1
  BY <1>4, <1>5 DEF Rank
<1> QED
  BY <1>2, <1>4, <1>6

\* And it leaves the order of the others as it is.
LEMMA RankOfTheOthers ==
    ASSUME NEW p \in Nat, NEW S, Precede(S, p), NEW m \in S
    PROVE  Rank(S \cup {p}, m) = Rank(S, m) /\ Rank(S, m) \in 1 .. Cardinality(S)
<1>1. IsFiniteSet(S)
  BY DEF Precede
<1>2. Cardinality(S) \in Nat
  BY <1>1, FS_CardinalityType
<1>3. m \in Nat /\ ~(p <= m)
  BY DEF Precede
<1> DEFINE R == {k \in S : k <= m}
<1>4. {k \in S \cup {p} : k <= m} = R
  BY <1>3
<1>5. R \subseteq S /\ m \in R
  BY <1>3
<1>6. Rank(S \cup {p}, m) = Cardinality(R) /\ Rank(S, m) = Cardinality(R)
  BY <1>4 DEF Rank
<1> HIDE DEF R
<1>7. IsFiniteSet(R) /\ Cardinality(R) \in Nat /\ Cardinality(R) <= Cardinality(S)
  BY <1>1, <1>5, FS_Subset, FS_CardinalityType
<1>8. Cardinality(R) # 0
  BY <1>5, <1>7, FS_EmptySet
<1> QED
  BY <1>2, <1>6, <1>7, <1>8

-----------------------------------------------------------------------------
(* What is in the log already stays what it was. *)

\* A line begins before the position that belongs to it.
LEMMA LineStartIsBefore ==
    ASSUME NEW n \in Nat \ {0}
    PROVE  LineStart(n) \in 0 .. (n - 1)
<1>1. n - 1 \in Nat /\ LineStarts(n) \subseteq 0 .. (n - 1)
  BY DEF LineStarts
<1>2. 0 \in LineStarts(n)
  <2>1. 0 \in 0 .. (n - 1)
    OBVIOUS
  <2> QED
    BY <2>1 DEF LineStarts
<1>3. Greatest(LineStarts(n)) \in LineStarts(n)
  BY <1>1, <1>2, GreatestIsGreatest
<1> QED
  BY <1>1, <1>3 DEF LineStart

\* As long as events are only added to the log, and openings only at its end, what the
\* events up to there mean does not change.
LEMMA PastStays ==
    ASSUME log \in Seq(Events), log' \in Seq(Events), opened \subseteq Nat, opened' \subseteq Nat,
           Len(log') >= Len(log), \A i \in 1 .. Len(log) : log'[i] = log[i],
           NEW N \in Nat, N <= Len(log) + 1,
           \A m \in Nat : m < N => (m \in opened' <=> m \in opened)
    PROVE  \A n \in 1 .. N :
              /\ ShiftAt(n)' <=> ShiftAt(n)
              /\ CapsPresses(n)' = CapsPresses(n)
              /\ n <= Len(log) => Typed(n)' = Typed(n)
              /\ LineStarts(n)' = LineStarts(n)
              /\ LineAt(n)' = LineAt(n)
              /\ TooLong(n)' <=> TooLong(n)
<1>0. Len(log) \in Nat /\ Len(log') \in Nat
  OBVIOUS
<1>1. ASSUME NEW n \in 1 .. N, NEW i \in 1 .. (n - 1) PROVE SameOpening(i, n)' <=> SameOpening(i, n)
  <2>1. \A m \in Nat : i <= m /\ m < n => (m \in opened' <=> m \in opened)
    OBVIOUS
  <2> QED
    BY <2>1 DEF SameOpening
<1>2. ASSUME NEW n \in 1 .. N, NEW i \in 1 .. (n - 1) PROVE log'[i] = log[i]
  BY <1>0
<1>3. ASSUME NEW n \in 1 .. N PROVE ShiftAt(n)' <=> ShiftAt(n)
  <2>1. \A i \in 1 .. (n - 1) : \A j \in (i + 1) .. (n - 1) : j \in 1 .. (n - 1)
    OBVIOUS
  <2> QED
    BY <1>1, <1>2, <2>1 DEF ShiftAt
<1>4. ASSUME NEW n \in 1 .. N PROVE CapsPresses(n)' = CapsPresses(n)
  BY <1>1, <1>2 DEF CapsPresses
<1>5. ASSUME NEW n \in 1 .. N, n <= Len(log) PROVE Typed(n)' = Typed(n)
  <2>1. log'[n] = log[n]
    BY <1>0, <1>5
  <2>2. CapsAt(n)' <=> CapsAt(n)
    BY <1>4 DEF CapsAt
  <2> QED
    BY <1>3, <2>1, <2>2 DEF Typed
<1>6. ASSUME NEW n \in 1 .. N PROVE LineStarts(n)' = LineStarts(n)
  <2>1. ASSUME NEW m \in 0 .. (n - 1)
        PROVE  (m = 0 \/ m \in opened' \/ Typed(m)' = Newline)
                   <=> (m = 0 \/ m \in opened \/ Typed(m) = Newline)
    <3>1. m \in opened' <=> m \in opened
      OBVIOUS
    <3>2. m # 0 => m \in 1 .. N /\ m <= Len(log)
      BY <1>0
    <3> QED
      BY <1>5, <3>1, <3>2
  <2> QED
    BY <2>1 DEF LineStarts
<1>7. ASSUME NEW n \in 1 .. N
      PROVE  LineAt(n)' = LineAt(n) /\ (TooLong(n)' <=> TooLong(n))
  <2> DEFINE typed == [i \in 1 .. Len(log) |-> Typed(i)]
             more == [i \in 1 .. Len(log') |-> Typed(i)']
  <2>1. PICK a \in Nat, b \in Nat : a = LineStart(n) /\ b = n - 1 /\ a <= b
    BY LineStartIsBefore
  <2>2. LineStart(n)' = a
    BY <1>6, <2>1 DEF LineStart
  <2>3. SameKeys(typed, more, a, b)
    <3> SUFFICES ASSUME NEW i \in (a + 1) .. b PROVE more[i] = typed[i]
      BY DEF SameKeys
    <3>1. i \in 1 .. N /\ i <= Len(log) /\ i \in 1 .. Len(log) /\ i \in 1 .. Len(log')
      BY <1>0, <2>1
    <3> QED
      BY <1>5, <3>1
  <2>4. LineBefore(n) = Line(typed, a, b)
    BY <2>1 DEF LineBefore
  <2>5. LineBefore(n)' = Line(more, a, b)
    BY <2>1, <2>2 DEF LineBefore
  <2> HIDE DEF typed, more
  <2>6. DOMAIN Line(typed, a, b) = a .. b /\ DOMAIN Line(more, a, b) = a .. b
    <3>1. a \in Nat /\ b \in Nat /\ a <= b
      BY <2>1
    <3>2. DOMAIN Line(typed, a, b) = a .. b
      BY <3>1, LineIsFunction
    <3>3. DOMAIN Line(more, a, b) = a .. b
      BY <3>1, LineIsFunction
    <3> QED
      BY <3>2, <3>3
  <2>7. \A i \in a .. b : Line(more, a, b)[i] = Line(typed, a, b)[i]
    BY <2>1, <2>3, SameLine
  <2>8. b \in a .. b
    BY <2>1
  <2>9. LineAt(n)' = LineAt(n)
    BY <2>1, <2>4, <2>5, <2>7, <2>8 DEF LineAt
  <2>10. TooLong(n)' <=> TooLong(n)
    BY <2>4, <2>5, <2>6, <2>7 DEF TooLong
  <2> QED
    BY <2>9, <2>10
<1> QED
  BY <1>3, <1>4, <1>5, <1>6, <1>7

-----------------------------------------------------------------------------
(* The decoder and the accumulator against the log. *)

\* What was opened was opened at a moment of the log, and what was lost is in it.
LogInv == opened \subseteq 0 .. Len(log) /\ lost \subseteq 1 .. Len(log)

\* The decoder and the accumulator hold just what the log says of position n.
HoldsAt(n) ==
    /\ shift <=> ShiftAt(n)
    /\ caps <=> CapsAt(n)
    /\ dropping <=> TooLong(n)
    /\ dropping \/ buffer = LineAt(n)

\* A fed event is the last one of a log that is otherwise as before.
LEMMA FeedIsLogged ==
    ASSUME TypeOK, LogInv, NEW e \in Events, Feed(e[1], e[2])
    PROVE  /\ log \in Seq(Events) /\ log' \in Seq(Events) /\ Len(log) \in Nat
           /\ Len(log') = Len(log) + 1 /\ log'[Len(log) + 1] = e
           /\ \A i \in 1 .. Len(log) : log'[i] = log[i]
           /\ opened' = opened /\ opened \subseteq Nat
           /\ \A m \in opened : m <= Len(log)
<1>1. log \in Seq(Events) /\ Len(log) \in Nat
  BY DEF TypeOK
<1>2. <<e[1], e[2]>> = e
  BY EventsAssumption
<1>3. log' = Append(log, e) /\ opened' = opened
  BY <1>2 DEF Feed
<1>4. opened \subseteq Nat /\ \A m \in opened : m <= Len(log)
  BY <1>1 DEF LogInv
<1> QED
  BY <1>1, <1>3, <1>4

\* It leaves alone what the ones before it mean.
LEMMA FeedKeepsPast ==
    ASSUME TypeOK, LogInv, NEW e \in Events, Feed(e[1], e[2]), NEW N \in Nat, N = Len(log) + 1
    PROVE  \A n \in 1 .. N :
              /\ ShiftAt(n)' <=> ShiftAt(n)
              /\ CapsPresses(n)' = CapsPresses(n)
              /\ n <= Len(log) => Typed(n)' = Typed(n)
              /\ LineStarts(n)' = LineStarts(n)
              /\ LineAt(n)' = LineAt(n)
              /\ TooLong(n)' <=> TooLong(n)
<1>1. /\ log \in Seq(Events) /\ log' \in Seq(Events) /\ Len(log) \in Nat
      /\ Len(log') = Len(log) + 1 /\ \A i \in 1 .. Len(log) : log'[i] = log[i]
      /\ opened' = opened /\ opened \subseteq Nat
  BY FeedIsLogged
<1>2. N <= Len(log) + 1 /\ Len(log') >= Len(log)
  BY <1>1
<1> QED
  BY <1>1, <1>2, PastStays

\* The shift flag follows the log (feed_key).
LEMMA ShiftFollows ==
    ASSUME TypeOK, LogInv, NEW e \in Events, Feed(e[1], e[2]), NEW N \in Nat, N = Len(log) + 1,
           shift <=> ShiftAt(N)
    PROVE  shift' <=> ShiftAt(N + 1)'
<1>1. /\ Len(log') = Len(log) + 1 /\ log'[N] = e /\ \A i \in 1 .. Len(log) : log'[i] = log[i]
      /\ Len(log) \in Nat /\ opened' = opened /\ opened \subseteq Nat /\ \A m \in opened : m < N
  BY FeedIsLogged
<1>2. \A i \in 1 .. N : SameOpening(i, N + 1)' <=> SameOpening(i, N)
  BY <1>1 DEF SameOpening
<1>3. SameOpening(N, N)
  BY <1>1 DEF SameOpening
<1>4. shift' = ShiftAfter(e[1], e[2]) /\ e[2] \in {0, 1, 2}
  BY EventsAssumption DEF Feed
<1>5. (N + 1) - 1 = N /\ N \in 1 .. N
  BY <1>1
<1>6. CASE e[1] \in ShiftKeys
  <2>1. ASSUME e[2] # 0 PROVE ShiftAt(N + 1)'
    <3>1. \A j \in (N + 1) .. N : log'[j][1] \notin ShiftKeys
      BY <1>1
    <3> QED
      BY <1>1, <1>2, <1>3, <1>5, <1>6, <2>1, <3>1 DEF ShiftAt
  <2>2. ASSUME ShiftAt(N + 1)' PROVE e[2] # 0
    <3>1. PICK i \in 1 .. N : /\ log'[i][2] # 0
                              /\ \A j \in (i + 1) .. N : log'[j][1] \notin ShiftKeys
      BY <1>5, <2>2 DEF ShiftAt
    <3>2. i = N
      <4>1. SUFFICES ASSUME i # N PROVE FALSE
        OBVIOUS
      <4>2. N \in (i + 1) .. N
        BY <4>1
      <4> QED
        BY <1>1, <1>6, <3>1, <4>2
    <3> QED
      BY <1>1, <3>1, <3>2
  <2>3. shift' <=> e[2] # 0
    <3>1. shift' = (e[2] \in {1, 2})
      BY <1>4, <1>6 DEF ShiftAfter
    <3>2. e[2] \in {1, 2} <=> e[2] # 0
      BY <1>4
    <3> QED
      BY <3>1, <3>2, Zenon
  <2> QED
    BY <2>1, <2>2, <2>3
<1>7. CASE e[1] \notin ShiftKeys
  <2>1. ASSUME ShiftAt(N) PROVE ShiftAt(N + 1)'
    <3>1. PICK i \in 1 .. (N - 1) :
             /\ SameOpening(i, N) /\ log[i][1] \in ShiftKeys /\ log[i][2] # 0
             /\ \A j \in (i + 1) .. (N - 1) : log[j][1] \notin ShiftKeys
      BY <2>1 DEF ShiftAt
    <3>2. i \in 1 .. N /\ log'[i] = log[i]
      BY <1>1
    <3>3. ASSUME NEW j \in (i + 1) .. N PROVE log'[j][1] \notin ShiftKeys
      <4>1. j = N \/ (j \in (i + 1) .. (N - 1) /\ log'[j] = log[j])
        BY <1>1
      <4> QED
        BY <1>1, <1>7, <3>1, <4>1
    <3> QED
      BY <1>2, <1>5, <3>1, <3>2, <3>3 DEF ShiftAt
  <2>2. ASSUME ShiftAt(N + 1)' PROVE ShiftAt(N)
    <3>1. PICK i \in 1 .. N :
             /\ SameOpening(i, N + 1)' /\ log'[i][1] \in ShiftKeys /\ log'[i][2] # 0
             /\ \A j \in (i + 1) .. N : log'[j][1] \notin ShiftKeys
      BY <1>5, <2>2 DEF ShiftAt
    <3>2. i # N
      BY <1>1, <1>7, <3>1
    <3>3. i \in 1 .. (N - 1) /\ log'[i] = log[i]
      BY <1>1, <3>2
    <3>4. ASSUME NEW j \in (i + 1) .. (N - 1) PROVE log[j][1] \notin ShiftKeys
      <4>1. j \in (i + 1) .. N /\ log'[j] = log[j]
        BY <1>1
      <4> QED
        BY <3>1, <4>1
    <3> QED
      BY <1>2, <3>1, <3>3, <3>4 DEF ShiftAt
  <2>3. shift' <=> shift
    BY <1>4, <1>7 DEF ShiftAfter
  <2> QED
    BY <2>1, <2>2, <2>3
<1> QED
  BY <1>6, <1>7

\* And so does the caps lock flag.
LEMMA CapsFollows ==
    ASSUME TypeOK, LogInv, NEW e \in Events, Feed(e[1], e[2]), NEW N \in Nat, N = Len(log) + 1,
           caps <=> CapsAt(N)
    PROVE  caps' <=> CapsAt(N + 1)'
<1>1. /\ Len(log') = Len(log) + 1 /\ log'[N] = e /\ \A i \in 1 .. Len(log) : log'[i] = log[i]
      /\ Len(log) \in Nat /\ opened' = opened /\ opened \subseteq Nat /\ \A m \in opened : m < N
  BY FeedIsLogged
<1>2. \A i \in 1 .. N : SameOpening(i, N + 1)' <=> SameOpening(i, N)
  BY <1>1 DEF SameOpening
<1>3. SameOpening(N, N)
  BY <1>1 DEF SameOpening
<1>4. caps' = CapsAfter(e[1], e[2])
  BY DEF Feed
<1> DEFINE lock == <<"KEY_CAPSLOCK", 1>>
<1>5. e = lock <=> e[1] = "KEY_CAPSLOCK" /\ e[2] = 1
  BY EventsAssumption
<1>6. IsFiniteSet(CapsPresses(N)) /\ N \notin CapsPresses(N)
  <2>1. IsFiniteSet(1 .. (N - 1))
    <3>1. N - 1 \in Int
      OBVIOUS
    <3> QED
      BY <3>1, FS_Interval
  <2>2. CapsPresses(N) \subseteq 1 .. (N - 1)
    BY DEF CapsPresses
  <2>3. N \notin 1 .. (N - 1)
    OBVIOUS
  <2> QED
    BY <2>1, <2>2, <2>3, FS_Subset
<1>7. \A i : i \in CapsPresses(N + 1)' <=> i \in CapsPresses(N) \/ (i = N /\ e = lock)
  <2>1. \A i : i \in CapsPresses(N + 1)' <=>
                  i \in 1 .. N /\ SameOpening(i, N) /\ log'[i] = lock
    <3>1. (N + 1) - 1 = N
      OBVIOUS
    <3> QED
      BY <1>2, <3>1 DEF CapsPresses
  <2>2. \A i : i \in CapsPresses(N) <=> i \in 1 .. (N - 1) /\ SameOpening(i, N) /\ log[i] = lock
    BY DEF CapsPresses
  <2>3. \A i : i \in 1 .. N <=> i \in 1 .. (N - 1) \/ i = N
    BY <1>1
  <2>4. \A i \in 1 .. (N - 1) : log'[i] = log[i] /\ i # N
    BY <1>1
  <2> HIDE DEF lock
  <2> QED
    BY <1>1, <1>3, <2>1, <2>2, <2>3, <2>4
<1>8. Cardinality(CapsPresses(N)) \in Nat
  BY <1>6, FS_CardinalityType
<1>9. CASE e = lock
  <2>1. CapsPresses(N + 1)' = CapsPresses(N) \cup {N}
    BY <1>7, <1>9
  <2>2. Cardinality(CapsPresses(N + 1)') = Cardinality(CapsPresses(N)) + 1
    BY <1>6, <2>1, FS_AddElement
  <2>3. CapsAt(N + 1)' <=> ~CapsAt(N)
    BY <1>8, <2>2 DEF CapsAt
  <2>4. caps' <=> ~caps
    BY <1>4, <1>5, <1>9 DEF CapsAfter
  <2> QED
    BY <2>3, <2>4
<1>10. CASE e # lock
  <2>1. CapsPresses(N + 1)' = CapsPresses(N)
    BY <1>7, <1>10
  <2>2. CapsAt(N + 1)' <=> CapsAt(N)
    BY <2>1 DEF CapsAt
  <2>3. caps' <=> caps
    BY <1>4, <1>5, <1>10 DEF CapsAfter
  <2> QED
    BY <2>2, <2>3
<1> QED
  BY <1>9, <1>10

\* What the decoder makes of an event is what the log says that it types.
LEMMA CharacterFollows ==
    ASSUME TypeOK, LogInv, NEW e \in Events, Feed(e[1], e[2]), NEW N \in Nat, N = Len(log) + 1,
           shift <=> ShiftAt(N), caps <=> CapsAt(N)
    PROVE  Typed(N)' = Character(e[1], e[2])
<1>1. log'[N] = e
  BY FeedIsLogged
<1>2. ShiftAt(N)' <=> shift
  BY FeedKeepsPast, FeedIsLogged
<1>3. CapsAt(N)' <=> caps
  <2>1. CapsPresses(N)' = CapsPresses(N)
    BY FeedKeepsPast, FeedIsLogged
  <2> QED
    BY <2>1 DEF CapsAt
<1>4. e[1] \in Keys
  BY EventsAssumption
<1>5. CASE e[1] \in ShiftKeys \/ e[2] # 1
  <2>1. e[1] \in ShiftKeys => /\ e[1] \notin EnterKeys /\ e[1] # "KEY_BACKSPACE"
                              /\ e[1] \notin DOMAIN ShiftedKeys /\ e[1] \notin DOMAIN UnshiftedKeys
    BY DEF ShiftKeys, EnterKeys, ShiftedKeys, UnshiftedKeys
  <2>2. Typed(N)' = NoCharacter
    BY <1>1, <1>5, <2>1 DEF Typed
  <2> QED
    BY <1>5, <2>2 DEF Character
<1>6. CASE e[1] \notin ShiftKeys /\ e[2] = 1
  <2> DEFINE upper == IF e[1] \in LetterKeys THEN ShiftAt(N)' <=> ~CapsAt(N)' ELSE ShiftAt(N)'
             keys == IF upper THEN ShiftedKeys ELSE UnshiftedKeys
  <2>1. Typed(N)' = IF e[1] \in EnterKeys THEN Newline
                    ELSE IF e[1] = "KEY_BACKSPACE" THEN Backspace
                    ELSE IF e[1] \in DOMAIN keys THEN keys[e[1]]
                    ELSE NoCharacter
    BY <1>1, <1>6 DEF Typed
  <2>2. upper <=> Shifted(e[1])
    BY <1>2, <1>3 DEF Shifted
  <2> HIDE DEF upper
  <2>3. Lookup(e[1]) = IF e[1] \in DOMAIN keys THEN keys[e[1]] ELSE NoCharacter
    BY <2>2 DEF Lookup
  <2> HIDE DEF keys
  <2> QED
    BY <1>6, <2>1, <2>3 DEF Character
<1> QED
  BY <1>5, <1>6

\* The end of a line is the beginning of the next, and any other key adds to the line.
LEMMA LineFollows ==
    ASSUME TypeOK, LogInv, NEW e \in Events, Feed(e[1], e[2]), NEW N \in Nat, N = Len(log) + 1
    PROVE  /\ Typed(N)' = Newline => LineAt(N + 1)' = << >> /\ ~TooLong(N + 1)'
           /\ Typed(N)' # Newline =>
                 /\ LineAt(N + 1)' = After(LineAt(N), Typed(N)')
                 /\ TooLong(N + 1)' <=>
                       TooLong(N) \/ Len(After(LineAt(N), Typed(N)')) > MaxChars
<1>1. /\ Len(log') = N /\ Len(log) \in Nat
      /\ opened' = opened /\ opened \subseteq Nat /\ \A m \in opened : m < N
  BY FeedIsLogged
<1>2. LineAt(N)' = LineAt(N) /\ (TooLong(N)' <=> TooLong(N)) /\ LineStarts(N)' = LineStarts(N)
  BY <1>1, FeedKeepsPast
<1> DEFINE typed == [i \in 1 .. Len(log') |-> Typed(i)']
           c == Typed(N)'
<1>3. N \in 1 .. N /\ (N + 1) - 1 = N /\ N \in Nat \ {0} /\ N + 1 \in Nat \ {0}
  BY <1>1
<1>4. typed[N] = c
  BY <1>1, <1>3
<1>5. LineStarts(N + 1)' = LineStarts(N) \cup (IF c = Newline THEN {N} ELSE {})
  <2>1. LineStarts(N + 1)' = {m \in 0 .. N : m = 0 \/ m \in opened' \/ Typed(m)' = Newline}
    BY <1>3 DEF LineStarts
  <2>2. LineStarts(N)' = {m \in 0 .. (N - 1) : m = 0 \/ m \in opened' \/ Typed(m)' = Newline}
    BY DEF LineStarts
  <2>3. \A m : m \in 0 .. N <=> m \in 0 .. (N - 1) \/ m = N
    BY <1>3
  <2>4. N # 0 /\ N \notin opened'
    BY <1>1
  <2> QED
    BY <1>2, <2>1, <2>2, <2>3, <2>4
<1>6. LineBefore(N + 1)' = Line(typed, LineStart(N + 1)', N)
  BY <1>3 DEF LineBefore
<1>7. LineBefore(N)' = Line(typed, LineStart(N)', N - 1)
  BY DEF LineBefore
<1> HIDE DEF typed, c
<1>8. CASE c = Newline
  <2>1. LineStart(N + 1)' = N
    <3>1. LineStarts(N + 1)' \subseteq 0 .. N /\ N \in LineStarts(N + 1)'
      BY <1>3, <1>5, <1>8 DEF LineStarts
    <3> QED
      BY <3>1, GreatestIsBound DEF LineStart
  <2>2. Len(<< >>) = 0
    OBVIOUS
  <2>3. DOMAIN LineBefore(N + 1)' = {N} /\ LineBefore(N + 1)'[N] = << >>
    <3>1. LineBefore(N + 1)' = Line(typed, N, N)
      BY <1>6, <2>1
    <3> QED
      BY <3>1, LineIsEmpty
  <2>4. LineAt(N + 1)' = << >>
    BY <1>3, <2>3 DEF LineAt
  <2>5. ~TooLong(N + 1)'
    BY <2>2, <2>3 DEF TooLong
  <2> QED
    BY <1>8, <2>4, <2>5 DEF c
<1>9. CASE c # Newline
  <2>1. LineStart(N + 1)' = LineStart(N) /\ LineStart(N)' = LineStart(N)
    BY <1>2, <1>5, <1>9 DEF LineStart
  <2>2. PICK a \in Nat, b \in Nat : a = LineStart(N) /\ b = N - 1 /\ a <= b /\ b + 1 = N
    BY <1>3, LineStartIsBefore
  <2> DEFINE s == Line(typed, a, b)
             t == Line(typed, a, N)
  <2>3. LineBefore(N + 1)' = t /\ LineBefore(N)' = s
    BY <1>6, <1>7, <2>1, <2>2
  <2>4. \A i \in a .. b : t[i] = s[i]
    <3>1. b <= N
      BY <2>2
    <3>2. SameKeys(typed, typed, a, b)
      BY DEF SameKeys
    <3> QED
      BY <2>2, <3>1, <3>2, LinesAgree
  <2>5. DOMAIN s = a .. b
    BY <2>2, LineIsFunction
  <2>6. DOMAIN t = a .. N /\ t[N] = After(t[N - 1], typed[N])
    <3>1. N \in Nat /\ a <= N /\ a < N
      BY <2>2
    <3>2. DOMAIN t = a .. N
      BY <3>1, LineIsFunction
    <3>3. t[N] = After(t[N - 1], typed[N])
      <4>1. N \in (a + 1) .. N
        BY <3>1
      <4> QED
        BY <3>1, <4>1, LineGoesOn
    <3> QED
      BY <3>2, <3>3
  <2> HIDE DEF s, t
  <2>7. LineAt(N) = s[b]
    BY <1>2, <2>2, <2>3 DEF LineAt
  <2>8. t[N] = After(LineAt(N), c)
    <3>1. t[N - 1] = s[b]
      BY <2>2, <2>4
    <3> QED
      BY <1>4, <2>6, <2>7, <3>1
  <2>9. LineAt(N + 1)' = t[N]
    BY <1>3, <2>3 DEF LineAt
  <2>10. \A i : i \in a .. N <=> i \in a .. b \/ i = N
    BY <2>2
  <2>11. TooLong(N + 1)' <=> \E i \in a .. N : Len(t[i]) > MaxChars
    BY <2>3, <2>6 DEF TooLong
  <2>12. TooLong(N) <=> \E i \in a .. b : Len(s[i]) > MaxChars
    BY <1>2, <2>3, <2>5 DEF TooLong
  <2>13. TooLong(N + 1)' <=> TooLong(N) \/ Len(t[N]) > MaxChars
    BY <2>4, <2>10, <2>11, <2>12
  <2> QED
    BY <1>9, <2>8, <2>9, <2>13 DEF c
<1> QED
  BY <1>8, <1>9

\* A new opening begins a line of its own, without shift and without caps lock.
LEMMA OpeningHolds ==
    ASSUME TypeOK, LogInv, OpenDevice, NEW N \in Nat, N = Len(log) + 1
    PROVE  HoldsAt(N)'
<1>1. /\ opened' = opened \cup {N - 1} /\ log' = log /\ Len(log) \in Nat
      /\ shift' = FALSE /\ caps' = FALSE /\ buffer' = << >> /\ dropping' = FALSE
  BY DEF OpenDevice, TypeOK
<1>2. N - 1 \in Nat /\ N - 1 < N
  BY <1>1
<1>3. \A i \in 1 .. (N - 1) : ~SameOpening(i, N)'
  BY <1>1, <1>2 DEF SameOpening
<1>4. ~ShiftAt(N)'
  BY <1>3 DEF ShiftAt
<1>5. ~CapsAt(N)'
  <2>1. CapsPresses(N)' = {}
    BY <1>3 DEF CapsPresses
  <2>2. Cardinality(CapsPresses(N)') = 0
    BY <2>1, FS_EmptySet
  <2> QED
    BY <2>2 DEF CapsAt
<1>6. LineStart(N)' = N - 1
  <2>1. LineStarts(N)' \subseteq 0 .. (N - 1) /\ N - 1 \in LineStarts(N)'
    BY <1>1, <1>2 DEF LineStarts
  <2> QED
    BY <1>2, <2>1, GreatestIsBound DEF LineStart
<1>7. PICK b \in Nat : b = N - 1
  BY <1>2
<1> DEFINE typed == [i \in 1 .. Len(log') |-> Typed(i)']
<1>8. LineBefore(N)' = Line(typed, b, b)
  BY <1>6, <1>7 DEF LineBefore
<1> HIDE DEF typed
<1>9. DOMAIN LineBefore(N)' = {b} /\ LineBefore(N)'[b] = << >>
  BY <1>8, LineIsEmpty
<1>10. LineAt(N)' = << >>
  BY <1>7, <1>9 DEF LineAt
<1>11. ~TooLong(N)'
  <2>1. Len(<< >>) = 0
    OBVIOUS
  <2> QED
    BY <1>9, <2>1 DEF TooLong
<1> QED
  BY <1>1, <1>4, <1>5, <1>10, <1>11 DEF HoldsAt

\* Key by key the decoder and the accumulator keep to the log (feed_key and
\* feed_character): what is dropped is what was too long at some moment.
LEMMA KeyEventHolds ==
    ASSUME TypeOK, LogInv, NEW e \in Events, KeyEvent(e[1], e[2]),
           NEW N \in Nat, N = Len(log) + 1, HoldsAt(N)
    PROVE  HoldsAt(N + 1)'
<1> PICK c : c = Character(e[1], e[2])
  OBVIOUS
<1>1. /\ Feed(e[1], e[2])
      /\ \/ c = NoCharacter /\ UNCHANGED <<accumulator, scans>>
         \/ c = Backspace /\ Erase
         \/ c = Newline /\ EndFrame
         \/ c \in Text /\ TakeCharacter(c)
  BY DEF KeyEvent
<1>2. /\ shift <=> ShiftAt(N)
      /\ caps <=> CapsAt(N)
      /\ dropping <=> TooLong(N)
      /\ dropping \/ buffer = LineAt(N)
  BY DEF HoldsAt
<1>3. (shift' <=> ShiftAt(N + 1)') /\ (caps' <=> CapsAt(N + 1)')
  BY <1>1, <1>2, ShiftFollows, CapsFollows
<1>4. Typed(N)' = c
  BY <1>1, <1>2, CharacterFollows
<1>5. buffer \in Seq(Text) /\ Len(buffer) \in Nat /\ Len(buffer) <= MaxChars
  BY DEF TypeOK
<1>6. CASE c = Newline
  <2>1. buffer' = << >> /\ dropping' = FALSE
    BY <1>1, <1>6 DEF EndFrame, Newline, NoCharacter, Backspace, Text
  <2>2. LineAt(N + 1)' = << >> /\ ~TooLong(N + 1)'
    BY <1>1, <1>4, <1>6, LineFollows
  <2> QED
    BY <1>3, <2>1, <2>2 DEF HoldsAt
<1>7. CASE c # Newline
  <2>1. /\ LineAt(N + 1)' = After(LineAt(N), c)
        /\ TooLong(N + 1)' <=> TooLong(N) \/ Len(After(LineAt(N), c)) > MaxChars
    BY <1>1, <1>4, <1>7, LineFollows
  <2>2. CASE dropping
    <3>1. dropping' <=> dropping
      BY <1>1, <1>7, <2>2 DEF Erase, TakeCharacter, accumulator
    <3> QED
      BY <1>2, <1>3, <2>1, <2>2, <3>1 DEF HoldsAt
  <2>3. CASE ~dropping
    <3>1. buffer = LineAt(N) /\ ~TooLong(N)
      BY <1>2, <2>3
    <3>2. CASE c = NoCharacter
      <4>1. UNCHANGED <<buffer, dropping>>
        BY <1>1, <3>2 DEF accumulator, NoCharacter, Backspace, Newline, Text
      <4>2. After(buffer, c) = buffer
        BY <3>2 DEF After, NoCharacter, Backspace, Text
      <4> QED
        BY <1>3, <1>5, <2>1, <2>3, <3>1, <4>1, <4>2 DEF HoldsAt
    <3>3. CASE c = Backspace
      <4>1. Erase
        BY <1>1, <3>3 DEF NoCharacter, Backspace, Newline, Text
      <4>2. After(buffer, c) = IF buffer = << >> THEN buffer ELSE SubSeq(buffer, 1, Len(buffer) - 1)
        BY <3>3 DEF After, Backspace, Text
      <4>3. buffer' = After(buffer, c) /\ dropping' = dropping
        BY <4>1, <4>2 DEF Erase
      <4>4. ~(Len(After(buffer, c)) > MaxChars)
        <5>1. CASE buffer = << >>
          BY <1>5, <4>2, <5>1
        <5>2. CASE buffer # << >>
          <6>1. Len(SubSeq(buffer, 1, Len(buffer) - 1)) = Len(buffer) - 1
            <7>1. Len(buffer) # 0
              BY <1>5, <5>2
            <7>2. Len(buffer) - 1 \in 0 .. Len(buffer) /\ Len(buffer) - 1 + 1 - 1 = Len(buffer) - 1
              BY <1>5, <7>1
            <7> QED
              BY <1>5, <7>1, <7>2
          <6> QED
            BY <1>5, <4>2, <5>2, <6>1
        <5> QED
          BY <5>1, <5>2
      <4> QED
        BY <1>3, <2>1, <2>3, <3>1, <4>3, <4>4 DEF HoldsAt
    <3>4. CASE c \in Text
      <4>1. TakeCharacter(c) /\ c # Backspace
        BY <1>1, <3>4 DEF NoCharacter, Backspace, Newline, Text
      <4>2. After(buffer, c) = Append(buffer, c)
        BY <3>4, <4>1 DEF After
      <4>3. Len(After(buffer, c)) = Len(buffer) + 1
        BY <1>5, <3>4, <4>2
      <4>4. CASE Len(buffer) + 1 > MaxChars
        <5>1. dropping'
          BY <2>3, <4>1, <4>4 DEF TakeCharacter
        <5> QED
          BY <1>3, <2>1, <3>1, <4>3, <4>4, <5>1 DEF HoldsAt
      <4>5. CASE ~(Len(buffer) + 1 > MaxChars)
        <5>1. buffer' = Append(buffer, c) /\ ~dropping'
          BY <2>3, <4>1, <4>5 DEF TakeCharacter
        <5> QED
          BY <1>3, <2>1, <3>1, <4>2, <4>3, <4>5, <5>1 DEF HoldsAt
      <4> QED
        BY <4>4, <4>5
    <3> QED
      BY <1>1, <1>7, <3>2, <3>3, <3>4
  <2> QED
    BY <2>2, <2>3
<1> QED
  BY <1>6, <1>7

-----------------------------------------------------------------------------
(* The scans against the log. *)

\* A scan is queued where a line ends whose text is one.
CompletedAt(n) == ~TooLong(n) /\ (Strip(LineAt(n)) # << >> \/ sendEmpty)

\* An event adds at most its own position to the ones at which scans were queued.
LEMMA EndsFollow ==
    ASSUME TypeOK, LogInv, NEW e \in Events, Feed(e[1], e[2]), NEW N \in Nat, N = Len(log) + 1,
           lost' = lost \/ lost' = lost \cup {N}
    PROVE  /\ \A n : n \in Ends' <=>
                  n \in Ends \/ (n = N /\ Typed(N)' = Newline /\ N \notin lost' /\ CompletedAt(N))
           /\ \A n \in Ends \cup {N} : LineAt(n)' = LineAt(n)
           /\ Ends \subseteq 1 .. Len(log)
<1>1. Len(log') = N /\ Len(log) \in Nat /\ sendEmpty' = sendEmpty
  BY FeedIsLogged DEF Feed
<1>2. \A n \in 1 .. N : /\ n <= Len(log) => Typed(n)' = Typed(n)
                        /\ LineAt(n)' = LineAt(n)
                        /\ TooLong(n)' <=> TooLong(n)
  BY FeedKeepsPast
<1>3. Ends \subseteq 1 .. Len(log)
  BY DEF Ends
<1>4. \A n : n \in Ends <=>
         n \in 1 .. Len(log) /\ Typed(n) = Newline /\ n \notin lost /\ CompletedAt(n)
  BY DEF Ends, CompletedAt
<1>5. \A n : n \in Ends' <=>
         n \in 1 .. N /\ Typed(n)' = Newline /\ n \notin lost' /\ CompletedAt(n)'
  BY <1>1 DEF Ends, CompletedAt
<1>6. \A n \in 1 .. N : CompletedAt(n)' <=> CompletedAt(n)
  BY <1>1, <1>2 DEF CompletedAt
<1>7. \A n : n \in 1 .. N <=> n \in 1 .. Len(log) \/ n = N
  BY <1>1
<1>8. \A n \in 1 .. Len(log) : n # N /\ n <= Len(log) /\ (n \in lost' <=> n \in lost)
  BY <1>1
<1> HIDE DEF CompletedAt
<1>9. ASSUME NEW n
      PROVE  n \in Ends' <=>
                n \in Ends \/ (n = N /\ Typed(N)' = Newline /\ N \notin lost' /\ CompletedAt(N))
  BY <1>2, <1>4, <1>5, <1>6, <1>7, <1>8
<1>10. \A n \in Ends \cup {N} : LineAt(n)' = LineAt(n)
  BY <1>2, <1>3, <1>7
<1> QED
  BY <1>3, <1>9, <1>10

\* Where there is no new position there is no new scan.
LEMMA NoNewScan ==
    ASSUME ScansAreTheLinesTyped, scans' = scans, Ends' = Ends,
           \A n \in Ends : LineAt(n)' = LineAt(n)
    PROVE  ScansAreTheLinesTyped'
BY DEF ScansAreTheLinesTyped

\* A new scan is the line that ends at the new position, and comes after the others.
LEMMA NewScan ==
    ASSUME ScansAreTheLinesTyped, scans \in Seq(Seq(Text)),
           NEW N \in Nat, N = Len(log) + 1, Len(log) \in Nat, Ends \subseteq 1 .. Len(log),
           Ends' = Ends \cup {N}, scans' = Append(scans, Strip(LineAt(N))),
           \A n \in Ends \cup {N} : LineAt(n)' = LineAt(n)
    PROVE  ScansAreTheLinesTyped'
<1> PICK E : E = Ends
  OBVIOUS
<1>1. Ends' = E \cup {N} /\ Precede(E, N)
  <2>1. Precede(E, Len(log) + 1)
    BY ThosePrecede
  <2> QED
    BY <2>1
<1>2. /\ Cardinality(E) \in Nat
      /\ Cardinality(E \cup {N}) = Cardinality(E) + 1
      /\ Rank(E \cup {N}, N) = Cardinality(E) + 1
  BY <1>1, RankOfTheLast
<1>3. Len(scans) = Cardinality(E) /\ \A n \in E : scans[Rank(E, n)] = Strip(LineAt(n))
  BY DEF ScansAreTheLinesTyped
<1>4. /\ Len(scans') = Len(scans) + 1
      /\ scans'[Len(scans) + 1] = Strip(LineAt(N))
      /\ \A i \in 1 .. Len(scans) : scans'[i] = scans[i]
  OBVIOUS
<1>5. Len(scans') = Cardinality(Ends')
  BY <1>1, <1>2, <1>3, <1>4
<1>6. ASSUME NEW n \in E PROVE scans'[Rank(Ends', n)] = Strip(LineAt(n)')
  <2>1. Rank(E \cup {N}, n) = Rank(E, n) /\ Rank(E, n) \in 1 .. Cardinality(E)
    <3>1. n \in E /\ N \in Nat /\ Precede(E, N)
      BY <1>1
    <3> QED
      BY ONLY <3>1, RankOfTheOthers
  <2>2. Rank(Ends', n) = Rank(E, n) /\ Rank(E, n) \in 1 .. Len(scans)
    BY <1>1, <1>3, <2>1
  <2>3. scans'[Rank(E, n)] = scans[Rank(E, n)]
    BY <1>4, <2>2
  <2>4. LineAt(n)' = LineAt(n)
    OBVIOUS
  <2> QED
    BY <1>3, <2>2, <2>3, <2>4
<1>7. scans'[Rank(Ends', N)] = Strip(LineAt(N)')
  BY <1>1, <1>2, <1>3, <1>4
<1> QED
  BY <1>1, <1>5, <1>6, <1>7 DEF ScansAreTheLinesTyped

-----------------------------------------------------------------------------

\* The scans are those of the lines typed, because the decoder and the accumulator of an
\* open scanner hold at every moment what the log says of the next position.
LinesInv ==
    /\ LogInv
    /\ open => HoldsAt(Len(log) + 1)
    /\ ScansAreTheLinesTyped

\* Without an event the scans stay those of the lines typed, also if the scanner is opened.
LEMMA NoEvent ==
    ASSUME TypeOK, TypeOK', LinesInv, UNCHANGED <<log, lost, scans, sendEmpty>>,
           opened' = opened \/ opened' = opened \cup {Len(log)}
    PROVE  LogInv' /\ ScansAreTheLinesTyped'
<1>1. /\ log \in Seq(Events) /\ log' \in Seq(Events) /\ Len(log) \in Nat
      /\ opened \subseteq Nat /\ opened' \subseteq Nat
  BY DEF TypeOK
<1>2. LogInv'
  BY <1>1 DEF LinesInv, LogInv
<1> PICK N \in Nat : N = Len(log)
  BY <1>1
<1>3. \A n \in 1 .. N : /\ n <= Len(log) => Typed(n)' = Typed(n)
                        /\ LineAt(n)' = LineAt(n)
                        /\ TooLong(n)' <=> TooLong(n)
  <2>1. \A m \in Nat : m < N => (m \in opened' <=> m \in opened)
    OBVIOUS
  <2>2. N <= Len(log) + 1 /\ Len(log') >= Len(log) /\ \A i \in 1 .. Len(log) : log'[i] = log[i]
    BY <1>1
  <2> QED
    BY <1>1, <2>1, <2>2, PastStays
<1>4. Ends' = Ends
  <2>1. \A n \in 1 .. N : n <= Len(log)
    OBVIOUS
  <2>2. Len(log') = N /\ Len(log) = N
    OBVIOUS
  <2> QED
    BY <1>3, <2>1, <2>2 DEF Ends
<1>5. \A n \in Ends : LineAt(n)' = LineAt(n)
  BY <1>3 DEF Ends
<1> QED
  BY <1>2, <1>4, <1>5, NoNewScan DEF LinesInv

\* An event leaves the scans those of the lines typed: each new one is the line that
\* the event ends, and an event that ends no line adds none.
LEMMA KeyEventScans ==
    ASSUME TypeOK, LinesInv, open, NEW e \in Events, KeyEvent(e[1], e[2])
    PROVE  LogInv' /\ ScansAreTheLinesTyped'
<1> PICK c : c = Character(e[1], e[2])
  OBVIOUS
<1>1. /\ Feed(e[1], e[2]) /\ UNCHANGED lost
      /\ \/ c = NoCharacter /\ UNCHANGED <<accumulator, scans>>
         \/ c = Backspace /\ Erase
         \/ c = Newline /\ EndFrame
         \/ c \in Text /\ TakeCharacter(c)
  BY DEF KeyEvent
<1>2. LogInv /\ ScansAreTheLinesTyped /\ HoldsAt(Len(log) + 1)
  BY DEF LinesInv
<1>3. /\ Len(log) \in Nat /\ Len(log') = Len(log) + 1 /\ opened' = opened
      /\ opened \subseteq Nat /\ \A m \in opened : m <= Len(log)
  BY <1>1, <1>2, FeedIsLogged
<1> PICK N \in Nat : N = Len(log) + 1
  BY <1>3
<1>4. LogInv'
  BY <1>1, <1>2, <1>3 DEF LogInv
<1>5. Typed(N)' = c
  BY <1>1, <1>2, CharacterFollows DEF HoldsAt
<1>6. N \notin lost'
  BY <1>1, <1>2, <1>3 DEF LogInv
<1>7. /\ \A n : n \in Ends' <=> n \in Ends \/ (n = N /\ c = Newline /\ CompletedAt(N))
      /\ \A n \in Ends \cup {N} : LineAt(n)' = LineAt(n)
      /\ Ends \subseteq 1 .. Len(log)
  BY <1>1, <1>2, <1>5, <1>6, EndsFollow
<1>8. CompletedAt(N) <=> Completed
  BY <1>2 DEF HoldsAt, CompletedAt, Completed
<1>9. CASE c = Newline /\ Completed
  <2>1. scans' = Append(scans, Strip(buffer)) /\ ~dropping
    BY <1>1, <1>9 DEF EndFrame, Completed, NoCharacter, Backspace, Newline, Text
  <2>2. buffer = LineAt(N)
    BY <1>2, <2>1 DEF HoldsAt
  <2>3. Ends' = Ends \cup {N}
    BY <1>7, <1>8, <1>9
  <2>4. scans \in Seq(Seq(Text))
    BY DEF TypeOK
  <2> QED
    BY <1>2, <1>3, <1>4, <1>7, <2>1, <2>2, <2>3, <2>4, NewScan
<1>10. CASE ~(c = Newline /\ Completed)
  <2>1. scans' = scans
    BY <1>1, <1>10 DEF EndFrame, Erase, TakeCharacter
  <2>2. Ends' = Ends
    BY <1>7, <1>8, <1>10
  <2> QED
    BY <1>2, <1>4, <1>7, <2>1, <2>2, NoNewScan
<1> QED
  BY <1>9, <1>10

\* A scan that could not be queued is missing, and no other.
LEMMA EnqueueFailsScans ==
    ASSUME TypeOK, LinesInv, NEW e \in Events, EnqueueFails(e[1], e[2])
    PROVE  LogInv' /\ ScansAreTheLinesTyped'
<1>1. Feed(e[1], e[2]) /\ lost' = lost \cup {Len(log) + 1} /\ UNCHANGED scans
  BY DEF EnqueueFails
<1>2. LogInv /\ ScansAreTheLinesTyped
  BY DEF LinesInv
<1>3. /\ Len(log) \in Nat /\ Len(log') = Len(log) + 1 /\ opened' = opened
      /\ opened \subseteq Nat /\ \A m \in opened : m <= Len(log)
  BY <1>1, <1>2, FeedIsLogged
<1> PICK N \in Nat : N = Len(log) + 1
  BY <1>3
<1>4. LogInv'
  <2>1. lost \subseteq 1 .. Len(log) /\ opened \subseteq 0 .. Len(log)
    BY <1>2 DEF LogInv
  <2>2. \A i : i \in 1 .. Len(log) => i \in 1 .. N
    BY <1>3
  <2>3. \A i : i \in 0 .. Len(log) => i \in 0 .. N
    BY <1>3
  <2>4. N \in 1 .. N
    BY <1>3
  <2>5. lost' \subseteq 1 .. N /\ opened' \subseteq 0 .. N
    BY <1>1, <1>3, <2>1, <2>2, <2>3, <2>4
  <2> QED
    BY <1>3, <2>5 DEF LogInv
<1>5. /\ \A n : n \in Ends' <=> n \in Ends
      /\ \A n \in Ends \cup {N} : LineAt(n)' = LineAt(n)
  BY <1>1, <1>2, EndsFollow
<1>6. Ends' = Ends
  BY <1>5
<1> QED
  BY <1>1, <1>2, <1>4, <1>5, <1>6, NoNewScan

\* Every step keeps the invariant.
LEMMA NextLines ==
    ASSUME TypeOK, TypeOK', LinesInv, [Next]_vars
    PROVE  LinesInv'
<1> PICK N \in Nat : N = Len(log) + 1
  BY DEF TypeOK
<1>1. CASE UNCHANGED vars
  <2>1. UNCHANGED <<sendEmpty, shift, caps, buffer, dropping, open, scans, log, opened, lost>>
    BY <1>1 DEF vars, decoder, accumulator
  <2>2. LogInv' /\ ScansAreTheLinesTyped'
    BY <2>1, NoEvent
  <2>3. HoldsAt(N)' <=> HoldsAt(N)
    <3>1. /\ log \in Seq(Events) /\ log' \in Seq(Events) /\ Len(log) \in Nat
          /\ opened \subseteq Nat /\ opened' \subseteq Nat
      BY DEF TypeOK
    <3>2. Len(log') >= Len(log) /\ N <= Len(log) + 1 /\ N \in 1 .. N
      BY <2>1, <3>1
    <3>3. /\ ShiftAt(N)' <=> ShiftAt(N)
          /\ CapsPresses(N)' = CapsPresses(N)
          /\ LineAt(N)' = LineAt(N)
          /\ TooLong(N)' <=> TooLong(N)
      BY <2>1, <3>1, <3>2, PastStays
    <3>4. CapsAt(N)' <=> CapsAt(N)
      BY <3>3 DEF CapsAt
    <3> QED
      BY <2>1, <3>3, <3>4 DEF HoldsAt
  <2>4. open' => HoldsAt(Len(log) + 1)'
    BY <2>1, <2>3 DEF LinesInv
  <2> QED
    BY <2>2, <2>4 DEF LinesInv
<1>2. CASE OpenDevice
  <2>1. LogInv' /\ ScansAreTheLinesTyped'
    BY <1>2, NoEvent DEF OpenDevice
  <2>2. HoldsAt(N)'
    BY <1>2, OpeningHolds DEF LinesInv
  <2>3. Len(log') + 1 = N
    BY <1>2 DEF OpenDevice
  <2> QED
    BY <2>1, <2>2, <2>3 DEF LinesInv
<1>3. CASE LoseDevice
  <2>1. LogInv' /\ ScansAreTheLinesTyped'
    BY <1>3, NoEvent DEF LoseDevice
  <2> QED
    BY <1>3, <2>1 DEF LinesInv, LoseDevice
<1>4. ASSUME NEW e \in Events, KeyEvent(e[1], e[2]) PROVE LinesInv'
  <2>1. open /\ open' = open /\ Feed(e[1], e[2])
    BY <1>4 DEF KeyEvent, Feed
  <2>2. LogInv' /\ ScansAreTheLinesTyped'
    BY <1>4, <2>1, KeyEventScans
  <2>3. HoldsAt(N + 1)'
    BY <1>4, <2>1, KeyEventHolds DEF LinesInv
  <2>4. Len(log') + 1 = N + 1
    BY <2>1, FeedIsLogged DEF LinesInv
  <2> QED
    BY <2>2, <2>3, <2>4 DEF LinesInv
<1>5. ASSUME NEW e \in Events, EnqueueFails(e[1], e[2]) PROVE LinesInv'
  <2>1. LogInv' /\ ScansAreTheLinesTyped'
    BY <1>5, EnqueueFailsScans
  <2> QED
    BY <1>5, <2>1 DEF LinesInv, EnqueueFails
<1> QED
  BY <1>1, <1>2, <1>3, <1>4, <1>5 DEF Next

\* At first nothing was typed and nothing queued.
LEMMA InitLines == Init => LinesInv
<1> SUFFICES ASSUME Init PROVE LinesInv
  OBVIOUS
<1>1. Len(log) = 0 /\ Len(scans) = 0 /\ ~open /\ LogInv
  BY DEF Init, LogInv
<1>2. Ends = {}
  BY <1>1 DEF Ends
<1>3. Cardinality(Ends) = 0
  BY <1>2, FS_EmptySet
<1> QED
  BY <1>1, <1>2, <1>3 DEF LinesInv, ScansAreTheLinesTyped

\* Whatever is typed, and however often the scanner is lost and opened again, the queued
\* scans are the lines of the log, each once and in order, but for those too long, empty
\* or not queued (feed_key, feed_character, _read_device).
THEOREM ScansAreTheLines == Spec => []ScansAreTheLinesTyped
<1>1. TypeOK /\ TypeOK' /\ LinesInv /\ [Next]_vars => LinesInv'
  BY NextLines
<1>2. LinesInv => ScansAreTheLinesTyped
  BY DEF LinesInv
<1> QED
  BY InitLines, KeyboardTypes, <1>1, <1>2, PTL DEF Spec

=============================================================================
