------------------------- MODULE ScannerDevicesProofs -------------------------
(***************************************************************************)
(* Theorems about ScannerDevices, for any number of paths and devices and  *)
(* any selector: which device the service ends up reading.                 *)
(***************************************************************************)
EXTENDS ScannerDevices, TLAPS

USE PathsAssumption, DevicesAssumption

-----------------------------------------------------------------------------
(* The inductive invariant *)

\* What is plugged where, as far as the proofs need it.
Plugged ==
    /\ plugged \in [Paths -> Devices \cup {NoDevice}]
    /\ \A p, q \in Paths : plugged[p] = plugged[q] => p = q \/ plugged[p] = NoDevice

\* A search keeps nothing beyond its end, nor an attempt to read.
Phases ==
    /\ pc \in {"list", "inspect", "choose", "open", "grab", "read", "sleep"}
    /\ pc \notin {"inspect", "choose"} => found = {}
    /\ pc \notin {"grab", "read"} => handle = NoDevice
    /\ pc # "read" => grabs = {}
    /\ grabs \subseteq {handle}
    /\ pc = "grab" => grabbing
    /\ pc \notin {"list", "sleep"} => HasMatcher
    /\ toInspect \subseteq Paths

\* What was found at a path is a keyboard, and still there unless the path was reassigned.
Kept(i) ==
    /\ i \in Paths \X Keyboards
    /\ plugged[i[1]] = i[2] \/ i[1] \in reassigned

Found ==
    /\ \A i \in found : Kept(i)
    /\ pc \in {"open", "grab", "read"} => Kept(target) /\ Matches(target[1], target[2])

\* The device that was opened is the one that was found, or took its path.
Opened ==
    pc \in {"grab", "read"} =>
        /\ handle \in Devices \cup {Gone}
        /\ handle = plugged[target[1]] \/ target[1] \in reassigned
        /\ handle = target[2] \/ target[1] \in reassigned

DeviceInv == Plugged /\ Phases /\ Found /\ Opened

\* Every keyboard of an inspected path is found, and what was found is still there, but
\* for the paths that were disturbed.
InspectedAreFound ==
    \A p \in Paths \ (toInspect \cup disturbed) : IsKeyboard(p) => <<p, plugged[p]>> \in found
FoundAreThere ==
    \A i \in found : i[1] \in disturbed \/ (IsKeyboard(i[1]) /\ plugged[i[1]] = i[2])

Inspected ==
    /\ pc \in {"inspect", "choose"} => InspectedAreFound /\ FoundAreThere
    /\ pc = "choose" => toInspect = {}

\* In a search that nothing disturbed the rest follows.
Undisturbed ==
    disturbed = {} =>
        /\ pc \in {"open", "grab", "read"} => IsFirst(target, Eligible)
        /\ pc \in {"grab", "read"} => handle = target[2] /\ handle \in Devices
        /\ pc = "read" => shown.device = handle
        /\ HasMatcher /\ pc = "sleep" /\ shown.state = "unavailable" =>
               Eligible = {} \/ (grabbing /\ FirstIs("busy"))

-----------------------------------------------------------------------------
(* The invariants are inductive. *)

\* The selector, and what it matches, is the same for ever.
LEMMA SameMatches ==
    ASSUME UNCHANGED selector
    PROVE  /\ HasMatcher' = HasMatcher
           /\ \A p, d : Matches(p, d)' = Matches(p, d)
BY DEF HasMatcher, Matches

\* Where the world does not change, neither does what can be found in it.
LEMMA SameWorld ==
    ASSUME UNCHANGED <<selector, plugged, trouble>>
    PROVE  /\ \A p : IsKeyboard(p)' = IsKeyboard(p)
           /\ Eligible' = Eligible
           /\ \A i, s : IsFirst(i, s)' = IsFirst(i, s)
           /\ FirstIs("busy")' = FirstIs("busy")
<1>1. \A p : IsKeyboard(p)' = IsKeyboard(p)
  BY DEF IsKeyboard, CanOpen
<1>2. Eligible' = Eligible
  BY <1>1, SameMatches DEF Eligible
<1>3. \A i, s : IsFirst(i, s)' = IsFirst(i, s)
  BY DEF IsFirst
<1> QED
  BY <1>1, <1>2, <1>3 DEF FirstIs

\* The scanner loop leaves the configuration and the world as they are.
LEMMA LoopKeepsWorld ==
    ASSUME ScannerStep \/ ListFails \/ ReadFails \/ Settle
    PROVE  UNCHANGED <<selector, grabbing, plugged, trouble>>
BY DEF ScannerStep, List, Idle, Inspect, Choose, Open, Grab, DeviceGone, Wake, ListFails,
   ReadFails, Settle, config, world

\* The service and the world keep track of the device.
LEMMA LoopKeepsDevice ==
    ASSUME DeviceInv, ScannerStep \/ ListFails \/ ReadFails \/ Settle
    PROVE  DeviceInv'
<1> USE DEF DeviceInv, config, world, search, history, GiveUp, Show, Forget
<1>1. UNCHANGED <<selector, grabbing, plugged, trouble>>
  BY LoopKeepsWorld
<1>2. HasMatcher' = HasMatcher /\ \A p, d : Matches(p, d)' = Matches(p, d)
  BY <1>1, SameMatches
<1>3. Plugged'
  BY <1>1 DEF Plugged
<1>4. CASE List
  BY <1>1, <1>2, <1>3, <1>4 DEF List, Phases, Found, Opened, Kept
<1>5. CASE Idle \/ ListFails
  BY <1>1, <1>2, <1>3, <1>5 DEF Idle, ListFails, Phases, Found, Opened, Kept
<1>6. CASE Inspect
  <2>1. PICK p \in toInspect :
            /\ toInspect' = toInspect \ {p}
            /\ found' = found \cup (IF IsKeyboard(p) THEN {<<p, plugged[p]>>} ELSE {})
            /\ pc' = IF toInspect = {p} THEN "choose" ELSE "inspect"
    BY <1>6 DEF Inspect
  <2>2. IsKeyboard(p) => Kept(<<p, plugged[p]>>)
    BY <2>1 DEF IsKeyboard, Kept, Phases
  <2>3. UNCHANGED <<reassigned, handle, grabs>> /\ pc = "inspect"
    BY <1>6 DEF Inspect
  <2>4. Phases'
    BY <1>1, <1>2, <2>1, <2>3 DEF Phases
  <2>5. \A i \in found' : Kept(i)
    BY <2>1, <2>2 DEF Found
  <2>6. Found' /\ Opened'
    BY <1>1, <2>1, <2>3, <2>5 DEF Found, Opened, Kept
  <2> QED
    BY <1>3, <2>4, <2>6
<1>7. CASE Choose
  <2> DEFINE matching == {i \in found : Matches(i[1], i[2])}
  <2>1. CASE matching = {} /\ GiveUp("unavailable")
    BY <1>1, <1>2, <1>3, <1>7, <2>1 DEF Choose, Phases, Found, Opened, Kept
  <2>2. CASE \E i \in matching : IsFirst(i, matching) /\ target' = i /\ pc' = "open"
                  /\ toInspect' = {} /\ found' = {} /\ UNCHANGED <<shown, reassigned>>
    BY <1>1, <1>2, <1>3, <1>7, <2>2 DEF Choose, Phases, Found, Opened, Kept
  <2> QED
    BY <1>7, <2>1, <2>2 DEF Choose
<1>8. CASE Open
  <2>1. CASE GiveUp("unavailable") /\ UNCHANGED handle
    BY <1>1, <1>2, <1>3, <1>8, <2>1 DEF Open, Phases, Found, Opened, Kept
  <2>2. CASE /\ CanOpen(target[1]) /\ handle' = plugged[target[1]]
             /\ IF grabbing THEN pc' = "grab" ELSE pc' = "read"
             /\ UNCHANGED <<search, reassigned>>
    <3>1. UNCHANGED <<found, target, toInspect, reassigned, grabs>> /\ pc = "open" /\ pc' \in {"grab", "read"}
      BY <1>8, <2>2 DEF Open
    <3>2. target \in Paths \X Keyboards
      BY <3>1 DEF Found, Kept
    <3>3. handle' \in Devices
      BY <2>2, <3>2 DEF CanOpen, Plugged
    <3>4. handle' = target[2] \/ target[1] \in reassigned
      BY <2>2, <3>1 DEF Found, Kept
    <3>5. Phases'
      BY <1>1, <1>2, <2>2, <3>1 DEF Phases
    <3>6. Found' /\ Opened'
      BY <1>1, <1>2, <2>2, <3>1, <3>3, <3>4 DEF Found, Kept, Opened, Phases
    <3> QED
      BY <1>3, <3>5, <3>6
  <2> QED
    BY <1>8, <2>1, <2>2 DEF Open
<1>9. CASE Grab
  BY <1>1, <1>2, <1>3, <1>9 DEF Grab, Leave, CloseDevice, Phases, Found, Opened, Kept
<1>10. CASE DeviceGone \/ ReadFails
  BY <1>1, <1>2, <1>3, <1>10 DEF DeviceGone, ReadFails, Leave, CloseDevice, Phases, Found, Opened, Kept
<1>11. CASE Wake \/ Settle
  BY <1>1, <1>2, <1>3, <1>11 DEF Wake, Settle, Phases, Found, Opened, Kept
<1> QED
  BY <1>4, <1>5, <1>6, <1>7, <1>8, <1>9, <1>10, <1>11 DEF ScannerStep

\* What is plugged and unplugged keeps every device at one path.
LEMMA DevicesComeAndGo ==
    ASSUME DeviceInv, \E p \in Paths : Unplug(p) \/ \E d \in Devices : Plug(p, d)
    PROVE  DeviceInv'
<1> USE DEF DeviceInv, config, search
<1>1. PICK p \in Paths : Unplug(p) \/ \E d \in Devices : Plug(p, d)
  OBVIOUS
<1>2. /\ Changed(p) /\ UNCHANGED <<selector, grabbing, pc, found, target, toInspect>>
      /\ \A q \in Paths \ {p} : plugged'[q] = plugged[q]
  BY <1>1 DEF Unplug, Plug, Changed, Plugged
<1>3. HasMatcher' = HasMatcher /\ \A q, d : Matches(q, d)' = Matches(q, d)
  BY <1>2, SameMatches
<1>4. Plugged'
  BY <1>1 DEF Unplug, Plug, Plugged
<1>5. Phases'
  BY <1>1, <1>2, <1>3 DEF Unplug, Plug, Phases, Plugged
<1>6. pc \notin {"list", "sleep"} => reassigned' = reassigned \cup {p}
  BY <1>2 DEF Changed
<1>7. ASSUME NEW i, Kept(i), pc \notin {"list", "sleep"} PROVE Kept(i)'
  BY <1>2, <1>6, <1>7 DEF Kept
<1>8. Found'
  BY <1>2, <1>3, <1>7 DEF Found, Phases
<1>9. Opened'
  <2> SUFFICES ASSUME pc \in {"grab", "read"} PROVE Opened'
    BY <1>2 DEF Opened
  <2>1. target[1] \in Paths
    BY DEF Found, Kept
  <2>2. CASE handle' = handle
    BY <1>2, <1>6, <2>1, <2>2 DEF Opened
  <2>3. CASE Unplug(p) /\ handle = plugged[p] /\ handle' = Gone
    <3>1. plugged[p] # NoDevice
      BY <2>3 DEF Unplug
    <3>2. target[1] = p \/ target[1] \in reassigned
      BY <2>1, <2>3, <3>1 DEF Opened, Plugged
    <3> QED
      BY <1>2, <1>6, <2>3, <3>2 DEF Opened
  <2> QED
    BY <1>1, <2>2, <2>3 DEF Unplug, Plug
<1> QED
  BY <1>4, <1>5, <1>8, <1>9

\* Every step keeps track of the device.
LEMMA NextDevice == DeviceInv /\ [Next]_vars => DeviceInv'
<1> SUFFICES ASSUME DeviceInv, [Next]_vars PROVE DeviceInv'
  OBVIOUS
<1>1. CASE UNCHANGED vars
  <2>1. UNCHANGED selector
    BY <1>1 DEF vars, config
  <2> QED
    BY <1>1, <2>1, SameMatches DEF vars, config, world, search, history, DeviceInv, Plugged, Phases, Found, Kept, Opened
<1>2. CASE \E d \in Devices : \E t \in {"no", "unreadable", "busy"} \ {trouble[d]} : ChangeTrouble(d, t)
  <2>1. UNCHANGED <<selector, grabbing, plugged, pc, toInspect, found, target, handle, grabs, reassigned>>
    BY <1>2 DEF ChangeTrouble, config, search
  <2> QED
    BY <2>1, SameMatches DEF DeviceInv, Plugged, Phases, Found, Kept, Opened
<1> QED
  BY <1>1, <1>2, LoopKeepsDevice, DevicesComeAndGo DEF Next, WorldStep

\* At first nothing is plugged, found or open.
LEMMA InitDevice == Init => DeviceInv
BY DEF Init, DeviceInv, Plugged, Phases, Found, Opened

\* What is opened in place of the scanner can only be what took its path after the look.
THEOREM OnlyAStrangerAtThePath == Spec => []StrangerTookThePath
<1>1. DeviceInv => StrangerTookThePath
  <2> SUFFICES ASSUME DeviceInv, handle # NoDevice PROVE StrangerTookThePath
    BY DEF StrangerTookThePath
  <2>1. pc \in {"grab", "read"} /\ HasMatcher
    BY DEF DeviceInv, Phases
  <2> QED
    BY <2>1 DEF DeviceInv, Found, Kept, Opened, StrangerTookThePath
<1> QED
  BY <1>1, InitDevice, NextDevice, PTL DEF Spec

-----------------------------------------------------------------------------
(* Types *)

\* The scanner loop keeps the types: what it opens and grabs is a device.
LEMMA LoopKeepsTypes ==
    ASSUME DeviceInv, TypeOK, ScannerStep \/ ListFails \/ ReadFails \/ Settle
    PROVE  TypeOK'
<1> USE DEF TypeOK, config, world, search, history, GiveUp, Show, Forget, Infos
<1>1. CASE List
  BY <1>1 DEF List
<1>2. CASE Idle
  BY <1>2 DEF Idle
<1>3. CASE ListFails
  BY <1>3 DEF ListFails
<1>4. CASE Wake \/ Settle
  BY <1>4 DEF Wake, Settle
<1>5. CASE Inspect
  <2>1. PICK p \in toInspect :
            /\ toInspect' = toInspect \ {p}
            /\ found' = found \cup (IF IsKeyboard(p) THEN {<<p, plugged[p]>>} ELSE {})
            /\ pc' = IF toInspect = {p} THEN "choose" ELSE "inspect"
    BY <1>5 DEF Inspect
  <2>2. IsKeyboard(p) => <<p, plugged[p]>> \in Infos
    BY <2>1 DEF IsKeyboard
  <2> QED
    BY <1>5, <2>1, <2>2 DEF Inspect
<1>6. CASE Choose
  <2>1. target' \in Infos \cup {NoInfo}
    BY <1>6 DEF Choose
  <2>2. pc' \in {"open", "sleep"} /\ toInspect' = {} /\ found' = {} /\ reassigned' \subseteq Paths
    BY <1>6 DEF Choose
  <2>3. shown' \in [state : {"starting", "misconfigured", "device_error", "unavailable",
                            "scanner_error", "connected"},
                   device : Devices \cup {NoDevice}]
    BY <1>6 DEF Choose
  <2> QED
    BY <1>6, <2>1, <2>2, <2>3 DEF Choose
<1>7. CASE Open
  <2>1. target[1] \in Paths /\ target[2] \in Devices
    BY <1>7 DEF Open, DeviceInv, Found, Kept
  <2>2. CanOpen(target[1]) => plugged[target[1]] \in Devices
    BY <2>1 DEF CanOpen
  <2>3. CASE ~CanOpen(target[1]) /\ GiveUp("unavailable") /\ UNCHANGED handle
    BY <1>7, <2>3 DEF Open
  <2>4. CASE CanOpen(target[1]) /\ UNCHANGED <<search, reassigned>>
    <3>1. handle' \in Devices /\ pc' \in {"grab", "read"}
      BY <1>7, <2>2, <2>4 DEF Open
    <3>2. shown' = shown \/ shown' = [state |-> "connected", device |-> target[2]]
      BY <1>7, <2>4 DEF Open
    <3> QED
      BY <1>7, <2>1, <2>4, <3>1, <3>2 DEF Open
  <2> QED
    BY <1>7, <2>3, <2>4 DEF Open
<1>8. CASE Grab
  <2>1. target[2] \in Devices
    BY <1>8 DEF Grab, DeviceInv, Found, Kept
  <2>2. CASE /\ handle \in Devices /\ grabs' = grabs \cup {handle}
             /\ pc' = "read" /\ Show("connected", target[2])
             /\ UNCHANGED <<search, handle, reassigned>>
    BY <1>8, <2>1, <2>2 DEF Grab
  <2>3. CASE Leave("unavailable")
    BY <1>8, <2>3 DEF Grab, Leave, CloseDevice
  <2> QED
    BY <1>8, <2>2, <2>3 DEF Grab
<1>9. CASE DeviceGone
  BY <1>9 DEF DeviceGone, Leave, CloseDevice
<1>10. CASE ReadFails
  BY <1>10 DEF ReadFails, Leave, CloseDevice
<1> QED
  BY <1>1, <1>2, <1>3, <1>4, <1>5, <1>6, <1>7, <1>8, <1>9, <1>10 DEF ScannerStep

\* So do the devices that come, go and get into trouble.
LEMMA WorldKeepsTypes ==
    ASSUME TypeOK, WorldStep
    PROVE  TypeOK'
<1> USE DEF TypeOK, config, world, search, history, Changed
<1>1. CASE \E p \in Paths : Unplug(p)
  BY <1>1 DEF Unplug
<1>2. CASE \E p \in Paths : \E d \in Devices : Plug(p, d)
  <2> PICK p \in Paths, d \in Devices : Plug(p, d)
    BY <1>2
  <2>1. plugged' \in [Paths -> Devices \cup {NoDevice}]
    BY DEF Plug
  <2>2. trouble' = trouble /\ shown' = shown
    BY DEF Plug
  <2>3. /\ pc' \in {"list", "inspect", "choose", "open", "grab", "read", "sleep"}
        /\ toInspect' \subseteq Paths /\ found' \subseteq Infos /\ target' \in Infos \cup {NoInfo}
        /\ handle' \in Devices \cup {NoDevice, Gone} /\ grabs' \subseteq Devices
        /\ selector' \in Selectors /\ grabbing' \in BOOLEAN /\ settled' \in BOOLEAN
        /\ disturbed' \subseteq Paths /\ reassigned' \subseteq Paths
    BY DEF Plug
  <2> QED
    BY <2>1, <2>2, <2>3
<1>3. CASE \E d \in Devices : \E t \in {"no", "unreadable", "busy"} \ {trouble[d]} : ChangeTrouble(d, t)
  <2>1. trouble' \in [Devices -> {"no", "unreadable", "busy"}]
    BY <1>3 DEF ChangeTrouble
  <2>2. plugged' = plugged /\ shown' = shown
    BY <1>3 DEF ChangeTrouble
  <2>3. /\ pc' \in {"list", "inspect", "choose", "open", "grab", "read", "sleep"}
        /\ toInspect' \subseteq Paths /\ found' \subseteq Infos /\ target' \in Infos \cup {NoInfo}
        /\ handle' \in Devices \cup {NoDevice, Gone} /\ grabs' \subseteq Devices
        /\ selector' \in Selectors /\ grabbing' \in BOOLEAN /\ settled' \in BOOLEAN
        /\ reassigned' \subseteq Paths
    BY <1>3 DEF ChangeTrouble
  <2>4. disturbed' \subseteq Paths
    BY <1>3 DEF ChangeTrouble
  <2> QED
    BY <2>1, <2>2, <2>3, <2>4
<1>4. CASE Settle
  BY <1>4 DEF Settle
<1> QED
  BY <1>1, <1>2, <1>3, <1>4 DEF WorldStep

\* Every variable keeps its type: what is open is a device, or was one until it was
\* unplugged, and what was found is a device at a path.
THEOREM DevicesTyped == Spec => []TypeOK
<1>1. Init => TypeOK
  <2> SUFFICES ASSUME Init PROVE TypeOK
    OBVIOUS
  <2>1. selector \in Selectors /\ grabbing \in BOOLEAN /\ settled \in BOOLEAN /\ disturbed \subseteq Paths
    BY DEF Init
  <2>2. /\ plugged \in [Paths -> Devices \cup {NoDevice}]
        /\ trouble \in [Devices -> {"no", "unreadable", "busy"}]
    BY DEF Init
  <2>3. /\ pc \in {"list", "inspect", "choose", "open", "grab", "read", "sleep"}
        /\ toInspect \subseteq Paths /\ found \subseteq Infos
    BY DEF Init
  <2>5. handle \in Devices \cup {NoDevice, Gone} /\ grabs \subseteq Devices /\ reassigned \subseteq Paths
    BY DEF Init
  <2>6. target \in Infos \cup {NoInfo}
    BY DEF Init
  <2>4. shown \in [state : {"starting", "misconfigured", "device_error", "unavailable",
                           "scanner_error", "connected"},
                  device : Devices \cup {NoDevice}]
    BY DEF Init
  <2> QED
    BY <2>1, <2>2, <2>3, <2>4, <2>5, <2>6 DEF TypeOK
<1>2. DeviceInv /\ TypeOK /\ [Next]_vars => TypeOK'
  <2> SUFFICES ASSUME DeviceInv, TypeOK, [Next]_vars PROVE TypeOK'
    OBVIOUS
  <2>1. CASE UNCHANGED vars
    BY <2>1 DEF TypeOK, vars, config, world, search, history, Infos
  <2> QED
    BY <2>1, LoopKeepsTypes, WorldKeepsTypes DEF Next
<1> QED
  BY <1>1, <1>2, InitDevice, NextDevice, PTL DEF Spec

-----------------------------------------------------------------------------
(* A scanner that stays where it is is found. *)

\* A path that is not disturbed keeps its device, and that its trouble.
LEMMA UndisturbedPaths ==
    ASSUME DeviceInv, TypeOK, WorldStep
    PROVE  /\ disturbed \subseteq disturbed' /\ UNCHANGED <<selector, pc, toInspect, found, target>>
           /\ \A p \in Paths \ disturbed' :
                  (IsKeyboard(p)' <=> IsKeyboard(p)) /\ plugged'[p] = plugged[p]
<1> USE DEF config, search
<1>1. CASE \E p \in Paths : Unplug(p) \/ \E d \in Devices : Plug(p, d)
  <2>1. PICK p \in Paths : Unplug(p) \/ \E d \in Devices : Plug(p, d)
    BY <1>1
  <2>2. /\ disturbed' = disturbed \cup {p} /\ UNCHANGED <<selector, trouble, pc, toInspect, found, target>>
        /\ \A q \in Paths \ {p} : plugged'[q] = plugged[q]
    BY <2>1 DEF Unplug, Plug, Changed, DeviceInv, Plugged
  <2> QED
    BY <2>2 DEF IsKeyboard, CanOpen
<1>2. CASE \E d \in Devices : \E t \in {"no", "unreadable", "busy"} \ {trouble[d]} : ChangeTrouble(d, t)
  <2>1. PICK d \in Devices, t \in {"no", "unreadable", "busy"} : ChangeTrouble(d, t)
    BY <1>2
  <2>2. /\ disturbed' = disturbed \cup {p \in Paths : plugged[p] = d}
        /\ UNCHANGED <<selector, plugged, pc, toInspect, found, target>>
        /\ \A e \in Devices \ {d} : trouble'[e] = trouble[e]
    BY <2>1 DEF ChangeTrouble, TypeOK
  <2>3. ASSUME NEW p \in Paths, plugged[p] # d PROVE IsKeyboard(p)' <=> IsKeyboard(p)
    <3>1. CASE plugged[p] \in Devices
      BY <2>2, <2>3, <3>1 DEF IsKeyboard, CanOpen
    <3>2. CASE plugged[p] \notin Devices
      BY <2>2, <3>2 DEF IsKeyboard
    <3> QED
      BY <3>1, <3>2
  <2> QED
    BY <2>2, <2>3
<1>3. CASE Settle
  BY <1>3, SameWorld DEF Settle, world, history
<1> QED
  BY <1>1, <1>2, <1>3 DEF WorldStep

\* The inspection finds all there is, but what is disturbed.
LEMMA NextInspected == DeviceInv /\ TypeOK /\ Inspected /\ [Next]_vars => Inspected'
<1> SUFFICES ASSUME DeviceInv, TypeOK, Inspected, [Next]_vars PROVE Inspected'
  OBVIOUS
<1>1. CASE WorldStep
  <2>1. /\ disturbed \subseteq disturbed' /\ UNCHANGED <<pc, toInspect, found>>
        /\ \A p \in Paths \ disturbed' :
               (IsKeyboard(p)' <=> IsKeyboard(p)) /\ plugged'[p] = plugged[p]
    BY <1>1, UndisturbedPaths
  <2>2. \A i \in found : i[1] \in Paths
    BY DEF DeviceInv, Found, Kept
  <2>3. InspectedAreFound => InspectedAreFound'
    BY <2>1 DEF InspectedAreFound
  <2>4. FoundAreThere => FoundAreThere'
    BY <2>1, <2>2 DEF FoundAreThere
  <2> QED
    BY <2>1, <2>3, <2>4 DEF Inspected
<1>2. CASE UNCHANGED vars
  BY <1>2 DEF vars, config, world, search, history, Inspected, InspectedAreFound,
     FoundAreThere, IsKeyboard, CanOpen
<1>3. CASE ScannerStep \/ ListFails \/ ReadFails
  <2>1. UNCHANGED <<plugged, trouble>> /\ \A p : IsKeyboard(p)' = IsKeyboard(p)
    BY <1>3, LoopKeepsWorld, SameWorld
  <2>2. CASE List
    <3>1. /\ found' = {} /\ toInspect' = {p \in Paths : plugged[p] # NoDevice}
          /\ pc' = "choose" => toInspect' = {}
      BY <2>2 DEF List, DeviceInv, Phases
    <3>2. InspectedAreFound' /\ FoundAreThere'
      BY <2>1, <3>1 DEF InspectedAreFound, FoundAreThere, IsKeyboard, CanOpen
    <3> QED
      BY <3>1, <3>2 DEF Inspected
  <2>3. CASE Inspect
    <3>1. PICK p \in toInspect :
              /\ toInspect' = toInspect \ {p}
              /\ found' = found \cup (IF IsKeyboard(p) THEN {<<p, plugged[p]>>} ELSE {})
              /\ pc' = IF toInspect = {p} THEN "choose" ELSE "inspect"
      BY <2>3 DEF Inspect
    <3>2. InspectedAreFound /\ FoundAreThere /\ UNCHANGED disturbed
      BY <2>3 DEF Inspect, Inspected, history
    <3>3. InspectedAreFound'
      BY <2>1, <3>1, <3>2 DEF InspectedAreFound
    <3>4. FoundAreThere'
      BY <2>1, <3>1, <3>2 DEF FoundAreThere
    <3> QED
      BY <3>1, <3>3, <3>4 DEF Inspected
  <2>4. CASE Idle \/ ListFails \/ Choose \/ Open \/ Grab \/ DeviceGone \/ Wake \/ ReadFails
    <3>1. pc' \notin {"inspect", "choose"}
      BY <2>4 DEF Idle, ListFails, Choose, Open, Grab, DeviceGone, Wake, ReadFails, Leave, GiveUp
    <3> QED
      BY <3>1 DEF Inspected
  <2> QED
    BY <1>3, <2>2, <2>3, <2>4 DEF ScannerStep
<1> QED
  BY <1>1, <1>2, <1>3 DEF Next

\* At first nothing is inspected.
LEMMA InitInspected == Init => Inspected
BY DEF Init, Inspected

\* A scanner that stays where it is, and can be read, is found: a search during which
\* other devices come, go and fail ends with it, or with one before it.
THEOREM SteadyScannerIsFound == Spec => SteadyIsFound
<1>1. DeviceInv /\ Inspected /\ [Next]_vars
          => [pc = "choose" /\ pc' # "choose" /\ Steady # {}
              => pc' = "open" /\ \A p \in Steady : target'[1] <= p]_vars
  <2> SUFFICES ASSUME DeviceInv, Inspected, [Next]_vars, pc = "choose", pc' # "choose"
               PROVE  Steady # {} => pc' = "open" /\ \A p \in Steady : target'[1] <= p
    OBVIOUS
  <2> DEFINE matching == {i \in found : Matches(i[1], i[2])}
  <2>1. \A p \in Steady : <<p, plugged[p]>> \in matching
    BY DEF Inspected, InspectedAreFound, Steady
  <2>2. Choose
    BY DEF Next, ScannerStep, WorldStep, vars, List, Idle, Inspect, Open, Grab, DeviceGone, Wake,
       ListFails, ReadFails, Plug, Unplug, Changed, ChangeTrouble, Settle
  <2>3. CASE matching = {}
    BY <2>1, <2>3
  <2>4. CASE pc' = "open" /\ \E i \in matching : IsFirst(i, matching) /\ target' = i
    BY <2>1, <2>4 DEF IsFirst
  <2> QED
    BY <2>2, <2>3, <2>4 DEF Choose
<1> QED
  BY <1>1, InitDevice, NextDevice, InitInspected, NextInspected, DevicesTyped, PTL
     DEF Spec, SteadyIsFound

-----------------------------------------------------------------------------
(* The device that is read is the first that matches. *)

\* After an undisturbed inspection what was found and matches is what could be read.
LEMMA MatchingAreEligible ==
    ASSUME DeviceInv, InspectedAreFound, FoundAreThere, toInspect = {}, disturbed = {}
    PROVE  {i \in found : Matches(i[1], i[2])} = Eligible
<1>1. ASSUME NEW i \in found, Matches(i[1], i[2]) PROVE i \in Eligible
  <2>1. i \in Paths \X Keyboards
    BY DEF DeviceInv, Found, Kept
  <2>2. IsKeyboard(i[1]) /\ plugged[i[1]] = i[2] /\ i = <<i[1], i[2]>> /\ i[1] \in Paths
    BY <2>1 DEF FoundAreThere
  <2> QED
    BY <1>1, <2>2 DEF Eligible
<1>2. ASSUME NEW i \in Eligible PROVE i \in found /\ Matches(i[1], i[2])
  <2>1. PICK p \in Paths : i = <<p, plugged[p]>> /\ IsKeyboard(p) /\ Matches(p, plugged[p])
    BY DEF Eligible
  <2> QED
    BY <2>1 DEF InspectedAreFound
<1> QED
  BY <1>1, <1>2

\* What could be read is there, is a keyboard and matches.
LEMMA EligibleIsThere ==
    ASSUME NEW i \in Eligible
    PROVE  /\ i[1] \in Paths /\ plugged[i[1]] = i[2] /\ CanOpen(i[1]) /\ i[2] \in Devices
           /\ i = <<i[1], i[2]>>
<1>1. PICK p \in Paths : i = <<p, plugged[p]>> /\ IsKeyboard(p)
  BY DEF Eligible
<1> QED
  BY <1>1 DEF IsKeyboard

\* The scanner loop finds all there is, and the first of it.
LEMMA LoopFinds ==
    ASSUME DeviceInv, Inspected, Undisturbed, ScannerStep \/ ListFails \/ ReadFails \/ Settle
    PROVE  Undisturbed'
<1> USE DEF config, world, search, history, GiveUp, Show, Forget
<1> SUFFICES ASSUME disturbed' = {} PROVE Undisturbed'
  BY DEF Undisturbed
<1>1. UNCHANGED <<selector, grabbing, plugged, trouble>>
  BY LoopKeepsWorld
<1>2. /\ \A p : IsKeyboard(p)' = IsKeyboard(p)
      /\ Eligible' = Eligible
      /\ \A i, s : IsFirst(i, s)' = IsFirst(i, s)
      /\ FirstIs("busy")' = FirstIs("busy")
      /\ HasMatcher' = HasMatcher
  BY <1>1, SameWorld, SameMatches
<1>3. CASE List
  BY <1>3 DEF List, Undisturbed
<1>4. CASE Idle \/ ListFails
  <2>1. CASE Idle
    BY <1>2, <2>1 DEF Idle, Undisturbed
  <2>2. CASE ListFails
    BY <1>2, <2>2 DEF ListFails, Undisturbed
  <2> QED
    BY <1>4, <2>1, <2>2
<1>5. CASE Inspect
  BY <1>5 DEF Inspect, Undisturbed
<1>6. CASE Choose
  <2>1. {i \in found : Matches(i[1], i[2])} = Eligible
    BY <1>6, MatchingAreEligible DEF Choose, Inspected
  <2>2. CASE Eligible = {} /\ GiveUp("unavailable")
    BY <1>2, <2>2 DEF Undisturbed
  <2>3. CASE pc' = "open" /\ \E i \in Eligible : IsFirst(i, Eligible) /\ target' = i
    BY <1>2, <2>3 DEF Undisturbed
  <2> QED
    BY <1>6, <2>1, <2>2, <2>3 DEF Choose
<1>7. CASE Open
  <2>1. disturbed = {} /\ IsFirst(target, Eligible) /\ UNCHANGED target
    <3>1. disturbed = {} /\ IsFirst(target, Eligible)
      BY <1>7 DEF Open, Undisturbed
    <3>2. CanOpen(target[1])
      BY <3>1, EligibleIsThere DEF IsFirst
    <3> QED
      BY <1>7, <3>1, <3>2 DEF Open
  <2>2. CanOpen(target[1]) /\ plugged[target[1]] = target[2] /\ target[2] \in Devices
    BY <2>1, EligibleIsThere DEF IsFirst
  <2>3. /\ pc' \in {"grab", "read"} /\ handle' = target[2]
        /\ pc' = "read" => shown' = [state |-> "connected", device |-> target[2]]
    BY <1>7, <2>2 DEF Open
  <2> QED
    BY <1>2, <2>1, <2>2, <2>3 DEF Undisturbed
<1>8. CASE Grab
  <2>1. /\ disturbed = {} /\ IsFirst(target, Eligible) /\ handle = target[2] /\ handle \in Devices
        /\ grabs = {} /\ grabbing
    BY <1>8 DEF Grab, Undisturbed, DeviceInv, Phases
  <2>2. CASE /\ pc' = "read" /\ UNCHANGED <<target, handle>>
             /\ shown' = [state |-> "connected", device |-> target[2]]
    BY <1>2, <2>1, <2>2 DEF Undisturbed
  <2>3. CASE trouble[handle] = "busy" /\ Leave("unavailable")
    <3>1. FirstIs("busy")
      BY <2>1, <2>3 DEF FirstIs, IsFirst
    <3> QED
      BY <1>1, <1>2, <2>1, <2>3, <3>1 DEF Undisturbed, Leave
  <2> QED
    BY <1>8, <2>1, <2>2, <2>3 DEF Grab
<1>9. CASE DeviceGone
  <2>1. disturbed = {} /\ handle = Gone /\ handle \in Devices
    BY <1>9 DEF DeviceGone, Undisturbed
  <2> QED
    BY <2>1
<1>10. CASE ReadFails
  BY <1>10 DEF ReadFails, Leave, Undisturbed
<1>11. CASE Wake
  BY <1>11 DEF Wake, Undisturbed
<1>12. CASE Settle
  BY <1>1, <1>2, <1>12 DEF Settle, Undisturbed
<1> QED
  BY <1>3, <1>4, <1>5, <1>6, <1>7, <1>8, <1>9, <1>10, <1>11, <1>12 DEF ScannerStep

\* What happens to a device that is not plugged is no change.
LEMMA UnpluggedIsNoMatter ==
    ASSUME TypeOK, NEW d \in Devices, NEW t, ChangeTrouble(d, t), disturbed' = {}
    PROVE  Eligible' = Eligible /\ (FirstIs("busy")' <=> FirstIs("busy"))
<1>1. /\ UNCHANGED <<selector, plugged>> /\ \A e \in Devices \ {d} : trouble'[e] = trouble[e]
      /\ \A p \in Paths : plugged[p] # d
  BY DEF ChangeTrouble, TypeOK, config
<1>2. ASSUME NEW p \in Paths PROVE IsKeyboard(p)' <=> IsKeyboard(p)
  <2>1. CASE plugged[p] \in Devices
    BY <1>1, <2>1 DEF IsKeyboard, CanOpen
  <2>2. CASE plugged[p] \notin Devices
    BY <1>1, <2>2 DEF IsKeyboard
  <2> QED
    BY <2>1, <2>2
<1>3. \A p, e : Matches(p, e)' <=> Matches(p, e)
  BY <1>1, SameMatches
<1>4. Eligible' = Eligible
  BY <1>1, <1>2, <1>3 DEF Eligible
<1>5. ASSUME NEW i \in Eligible PROVE trouble'[i[2]] = trouble[i[2]]
  BY <1>1, EligibleIsThere
<1>6. \A i, s : IsFirst(i, s)' <=> IsFirst(i, s)
  BY DEF IsFirst
<1> QED
  BY <1>4, <1>5, <1>6 DEF FirstIs

\* Every step of the service keeps to it, and every change of the devices ends it.
LEMMA NextFinds ==
    DeviceInv /\ TypeOK /\ Inspected /\ Undisturbed /\ [Next]_vars => Undisturbed'
<1> SUFFICES ASSUME DeviceInv, TypeOK, Inspected, Undisturbed, [Next]_vars PROVE Undisturbed'
  OBVIOUS
<1>1. CASE UNCHANGED vars
  <2>1. UNCHANGED <<selector, grabbing, plugged, trouble, pc, target, handle, shown, disturbed>>
    BY <1>1 DEF vars, config, world, search, history
  <2> QED
    BY <2>1, SameWorld, SameMatches DEF Undisturbed
<1>2. CASE \E p \in Paths : Unplug(p) \/ \E d \in Devices : Plug(p, d)
  <2>1. disturbed' # {}
    BY <1>2 DEF Plug, Unplug, Changed
  <2> QED
    BY <2>1 DEF Undisturbed
<1>3. CASE \E d \in Devices : \E t \in {"no", "unreadable", "busy"} \ {trouble[d]} : ChangeTrouble(d, t)
  <2> SUFFICES ASSUME disturbed' = {} PROVE Undisturbed'
    BY DEF Undisturbed
  <2>1. PICK d \in Devices, t \in {"no", "unreadable", "busy"} : ChangeTrouble(d, t)
    BY <1>3
  <2>2. disturbed = {} /\ UNCHANGED <<selector, grabbing, pc, target, handle, shown>>
    BY <2>1 DEF ChangeTrouble, config, search
  <2>3. Eligible' = Eligible /\ (FirstIs("busy")' <=> FirstIs("busy"))
    BY <2>1, UnpluggedIsNoMatter
  <2>4. HasMatcher' <=> HasMatcher
    BY <2>2, SameMatches
  <2>5. IsFirst(target, Eligible)' <=> IsFirst(target, Eligible)
    BY <2>2, <2>3 DEF IsFirst
  <2> QED
    BY <2>2, <2>3, <2>4, <2>5 DEF Undisturbed
<1> QED
  BY <1>1, <1>2, <1>3, LoopFinds DEF Next, WorldStep

\* In a search that nothing disturbed the first matching keyboard is read, or is busy.
THEOREM TheFirstIsRead == Spec => []FindsTheFirst
<1>1. Init => Undisturbed
  BY DEF Init, Undisturbed
<1>2. DeviceInv /\ Undisturbed => FindsTheFirst
  <2> SUFFICES ASSUME DeviceInv, Undisturbed, disturbed = {}, HasMatcher PROVE FindsTheFirst
    BY DEF FindsTheFirst
  <2>1. CASE pc = "read"
    <3>1. IsFirst(target, Eligible) /\ handle = target[2] /\ shown.device = handle
      BY <2>1 DEF Undisturbed
    <3>2. target = <<target[1], handle>>
      BY <3>1, EligibleIsThere DEF IsFirst
    <3> QED
      BY <2>1, <3>1, <3>2 DEF FindsTheFirst
  <2>2. CASE pc # "read"
    BY <2>2 DEF Undisturbed, FindsTheFirst
  <2> QED
    BY <2>1, <2>2
<1> QED
  BY <1>1, <1>2, InitDevice, NextDevice, InitInspected, NextInspected, NextFinds, DevicesTyped, PTL
     DEF Spec

=============================================================================
