--------------------------- MODULE ScannerDevices ---------------------------
(***************************************************************************)
(* How the service finds its scanner among the input devices (device.py,   *)
(* and _scanner_loop and _read_device of service.py as far as devices go): *)
(* it lists the paths, opens one after the other to see what it is, picks  *)
(* the first that matches, and opens that path again, while devices are    *)
(* plugged, unplugged and plugged where another one was.                   *)
(*                                                                         *)
(* The order of Paths is the order of their names as text.  ScannerLoop    *)
(* says what becomes of the state in RuntimeState and in the database.     *)
(***************************************************************************)
EXTENDS Integers, FiniteSets

CONSTANTS
    Paths,      \* the event paths, as numbers in the order of their names
    Devices,    \* the input devices there are
    Keyboards,  \* those that have the keys of a keyboard (is_keyboard_like)
    Traits,     \* of a device, what matches its vendor, its product, its name
    Selectors,  \* the configurations considered: a path, vendor, product and name
    MaxTrouble  \* bound: how many devices are in trouble at a time

NoDevice == "none"
Gone == "gone"                      \* what a handle leads to once its device was unplugged
Any == "any"                        \* an option that is not set
AnyPath == 0
Options == {"vendor", "product", "name"}

ASSUME PathsAssumption == Paths \subseteq Nat \ {AnyPath} /\ IsFiniteSet(Paths)
ASSUME DevicesAssumption == {NoDevice, Gone} \cap Devices = {} /\ Keyboards \subseteq Devices
ASSUME SelectorsAssumption ==
    \A s \in Selectors : DOMAIN s = Options \cup {"path"} /\ s.path \in Paths \cup {AnyPath}

VARIABLES
    \* The configuration.
    selector,   \* scanner.device_path, vendor_id, product_id and device_name
    grabbing,   \* scanner.grab_device
    \* The devices.
    plugged,    \* the device at each path
    trouble,    \* "unreadable": opening it fails; "busy": another process has grabbed it
    settled,    \* nothing of this changes any more, and nothing fails
    \* The scanner loop.
    pc,         \* "list", "inspect", "choose", "open", "grab", "read", "sleep"
    toInspect,  \* the listed paths that are still to be inspected
    found,      \* the keyboards found, as pairs of path and device
    target,     \* the one that is chosen
    handle,     \* the device that is open, or was before it was unplugged
    grabs,      \* the devices this process has grabbed
    shown,      \* scanner_state and the device it names
    \* History.
    disturbed,  \* the paths that were unplugged or plugged, or whose device got into
                \* or out of trouble, since the listing
    reassigned  \* the paths that were unplugged or plugged since the listing, until
                \* the device is closed

config == <<selector, grabbing>>
world == <<plugged, trouble, settled>>
search == <<toInspect, found, target>>
history == <<disturbed, reassigned>>
vars == <<config, world, pc, search, handle, grabs, shown, history>>

Infos == Paths \X Devices
NoInfo == <<>>

TypeOK ==
    /\ selector \in Selectors /\ grabbing \in BOOLEAN
    /\ plugged \in [Paths -> Devices \cup {NoDevice}]
    /\ trouble \in [Devices -> {"no", "unreadable", "busy"}] /\ settled \in BOOLEAN
    /\ pc \in {"list", "inspect", "choose", "open", "grab", "read", "sleep"}
    /\ toInspect \subseteq Paths /\ found \subseteq Infos /\ target \in Infos \cup {NoInfo}
    /\ handle \in Devices \cup {NoDevice, Gone} /\ grabs \subseteq Devices
    /\ shown \in [state : {"starting", "misconfigured", "device_error", "unavailable",
                           "scanner_error", "connected"},
                  device : Devices \cup {NoDevice}]
    /\ disturbed \subseteq Paths /\ reassigned \subseteq Paths

-----------------------------------------------------------------------------
(* The selector *)

HasMatcher == selector.path # AnyPath \/ \E o \in Options : selector[o] # Any

\* matches_device: every option that is set agrees.
Matches(p, d) ==
    /\ selector.path \in {AnyPath, p}
    /\ \A o \in Options : selector[o] # Any => selector[o] \in Traits[d][o]

\* InputDevice(path) succeeds.
CanOpen(p) == plugged[p] # NoDevice /\ trouble[plugged[p]] # "unreadable"

\* Mutation: a path that cannot be opened, or is gone, is not passed over.
Listed(p) == TRUE

\* Mutation: a device without the keys of a keyboard is kept.
CanBeRead(p) == CanOpen(p)

\* It can be opened, and its capabilities have Enter and a digit.
IsKeyboard(p) == CanOpen(p) /\ plugged[p] \in Keyboards

\* sorted(..., key=path) puts it first.
IsFirst(i, infos) == i \in infos /\ \A j \in infos : i[1] <= j[1]

-----------------------------------------------------------------------------
(* The scanner loop *)

Show(s, d) == shown' = [state |-> s, device |-> d]

Forget == toInspect' = {} /\ found' = {} /\ target' = NoInfo

\* The finally clause of _read_device: ungrab, ignoring errors, and close.
CloseDevice == handle' = NoDevice /\ grabs' = grabs \ {handle}

\* An attempt ends, and the loop sleeps.
GiveUp(s) == pc' = "sleep" /\ Show(s, NoDevice) /\ Forget /\ reassigned' = {}

List ==
    /\ pc = "list" /\ HasMatcher
    /\ pc' = IF \A p \in Paths : plugged[p] = NoDevice THEN "choose" ELSE "inspect"
    /\ toInspect' = {p \in Paths : plugged[p] # NoDevice}
    /\ disturbed' = {} /\ reassigned' = {}
    /\ UNCHANGED <<config, world, found, target, handle, grabs, shown>>

(* Without a selector the loop only sleeps.                                *)
Idle ==
    /\ pc = "list" /\ ~HasMatcher
    /\ GiveUp("misconfigured")
    /\ UNCHANGED <<config, world, handle, grabs, disturbed>>

(* A DeviceError, or an exception nobody expected.                         *)
ListFails ==
    /\ pc \in {"list", "inspect"} /\ HasMatcher /\ ~settled
    /\ GiveUp("device_error")
    /\ UNCHANGED <<config, world, handle, grabs, disturbed>>

\* Mutation: the first path that cannot be opened ends the inspection.
InspectToTheFirstFailure ==
    /\ pc = "inspect"
    /\ \E p \in toInspect :
           /\ toInspect' = IF CanOpen(p) THEN toInspect \ {p} ELSE {}
           /\ found' = found \cup (IF IsKeyboard(p) THEN {<<p, plugged[p]>>} ELSE {})
           /\ pc' = IF toInspect' = {} THEN "choose" ELSE "inspect"
    /\ UNCHANGED <<config, world, target, handle, grabs, shown, history>>

(* One round of list_keyboard_devices: a path that cannot be opened is     *)
(* passed over, and the device is closed again whatever it is.             *)
Inspect ==
    /\ pc = "inspect"
    /\ \E p \in toInspect :
           /\ toInspect' = toInspect \ {p}
           /\ found' = found \cup (IF IsKeyboard(p) THEN {<<p, plugged[p]>>} ELSE {})
           /\ pc' = IF toInspect = {p} THEN "choose" ELSE "inspect"
    /\ UNCHANGED <<config, world, target, handle, grabs, shown, history>>

\* Mutation: the devices are left in the order in which they were listed.
ChooseAsListed ==
    LET matching == {i \in found : Matches(i[1], i[2])}
    IN  /\ pc = "choose"
        /\ \/ matching = {} /\ GiveUp("unavailable")
           \/ /\ pc' = "open" /\ target' \in matching
              /\ toInspect' = {} /\ found' = {}
              /\ UNCHANGED <<shown, reassigned>>
        /\ UNCHANGED <<config, world, handle, grabs, disturbed>>

(* find_matching_devices, and matches[0].                                  *)
Choose ==
    LET matching == {i \in found : Matches(i[1], i[2])}
    IN  /\ pc = "choose"
        /\ \/ matching = {} /\ GiveUp("unavailable")
           \/ /\ \E i \in matching : IsFirst(i, matching) /\ target' = i
              /\ pc' = "open"
              /\ toInspect' = {} /\ found' = {}
              /\ UNCHANGED <<shown, reassigned>>
        /\ UNCHANGED <<config, world, handle, grabs, disturbed>>

(* _read_device opens whatever is at the path by now.                      *)
Open ==
    /\ pc = "open"
    /\ \/ ~CanOpen(target[1]) /\ GiveUp("unavailable") /\ UNCHANGED handle
       \/ /\ CanOpen(target[1]) /\ handle' = plugged[target[1]]
          /\ IF grabbing THEN pc' = "grab" /\ UNCHANGED shown
             ELSE pc' = "read" /\ Show("connected", target[2])
          /\ UNCHANGED <<search, reassigned>>
    /\ UNCHANGED <<config, world, grabs, disturbed>>

\* Mutation: the device is left open, and grabbed, after an error.
LeaveOpen(s) == GiveUp(s) /\ handle' = NoDevice /\ UNCHANGED grabs

\* _read_device is left by an exception.
Leave(s) == GiveUp(s) /\ CloseDevice

(* device.grab(): one handle at a time may have it, of whatever process.   *)
Grab ==
    /\ pc = "grab"
    /\ \/ /\ handle \in {d \in Devices \ grabs : trouble[d] # "busy"}
          /\ grabs' = grabs \cup {handle}
          /\ pc' = "read" /\ Show("connected", target[2])
          /\ UNCHANGED <<search, handle, reassigned>>
       \/ /\ handle \notin {d \in Devices \ grabs : trouble[d] # "busy"}
          /\ Leave("unavailable")
    /\ UNCHANGED <<config, world, disturbed>>

(* device.read() of a device that is gone raises OSError.                  *)
DeviceGone ==
    /\ pc = "read" /\ handle = Gone
    /\ Leave("unavailable")
    /\ UNCHANGED <<config, world, disturbed>>

(* The database, or the decoder, raises while the device is read.          *)
ReadFails ==
    /\ pc = "read" /\ ~settled
    /\ Leave("scanner_error")
    /\ UNCHANGED <<config, world, disturbed>>

Wake ==
    /\ pc = "sleep" /\ pc' = "list"
    /\ UNCHANGED <<config, world, search, handle, grabs, shown, history>>

ScannerStep == List \/ Idle \/ Inspect \/ Choose \/ Open \/ Grab \/ DeviceGone \/ Wake

-----------------------------------------------------------------------------
(* The devices *)

Changed(p) ==
    /\ ~settled
    /\ disturbed' = disturbed \cup {p}
    /\ reassigned' = IF pc \in {"sleep", "list"} THEN {} ELSE reassigned \cup {p}
    /\ UNCHANGED <<config, trouble, settled, pc, search, shown>>

Plug(p, d) ==
    /\ plugged[p] = NoDevice /\ \A q \in Paths : plugged[q] # d
    /\ plugged' = [plugged EXCEPT ![p] = d]
    /\ Changed(p) /\ UNCHANGED <<handle, grabs>>

(* An unplugged device takes its grab with it, and leaves a dead handle.   *)
Unplug(p) ==
    /\ plugged[p] # NoDevice
    /\ plugged' = [plugged EXCEPT ![p] = NoDevice]
    /\ grabs' = grabs \ {plugged[p]}
    /\ handle' = IF handle = plugged[p] THEN Gone ELSE handle
    /\ Changed(p)

(* Permissions change, or another process takes the device or leaves it.   *)
ChangeTrouble(d, t) ==
    /\ ~settled /\ d \notin grabs
    /\ trouble' = [trouble EXCEPT ![d] = t]
    /\ Cardinality({e \in Devices : trouble'[e] # "no"}) <= MaxTrouble
    /\ disturbed' = disturbed \cup {p \in Paths : plugged[p] = d}
    /\ UNCHANGED <<config, plugged, settled, pc, search, handle, grabs, shown, reassigned>>

Settle ==
    /\ ~settled /\ settled' = TRUE
    /\ UNCHANGED <<config, plugged, trouble, pc, search, handle, grabs, shown, history>>

WorldStep ==
    \/ \E p \in Paths : Unplug(p) \/ \E d \in Devices : Plug(p, d)
    \/ \E d \in Devices : \E t \in {"no", "unreadable", "busy"} \ {trouble[d]} : ChangeTrouble(d, t)
    \/ Settle

Init ==
    /\ selector \in Selectors /\ grabbing \in BOOLEAN
    /\ plugged = [p \in Paths |-> NoDevice] /\ trouble = [d \in Devices |-> "no"]
    /\ settled = FALSE
    /\ pc = "list" /\ toInspect = {} /\ found = {} /\ target = NoInfo
    /\ handle = NoDevice /\ grabs = {}
    /\ shown = [state |-> "starting", device |-> NoDevice]
    /\ disturbed = {} /\ reassigned = {}

Next == ScannerStep \/ ListFails \/ ReadFails \/ WorldStep

\* Every wait of the scanner loop ends; the world need not settle.
Spec == Init /\ [][Next]_vars /\ WF_vars(ScannerStep)

-----------------------------------------------------------------------------

\* The keyboards that could be read just now.
Eligible ==
    {<<p, plugged[p]>> : p \in {q \in Paths : IsKeyboard(q) /\ Matches(q, plugged[q])}}

\* The first of them is in trouble, or in no trouble.
FirstIs(t) == LET eligible == Eligible
              IN  \E i \in eligible : IsFirst(i, eligible) /\ trouble[i[2]] = t

\* In a search that nothing disturbed the device that is read, and named in the
\* status, is the first by path that matches and can be opened, whatever the other
\* devices are and in whatever order they are listed; and nothing is read only if
\* there is none, or it is busy (list_keyboard_devices to _read_device).
FindsTheFirst ==
    disturbed = {} /\ HasMatcher =>
        /\ pc = "read" => IsFirst(<<target[1], handle>>, Eligible) /\ shown.device = handle
        /\ pc = "sleep" /\ shown.state = "unavailable" =>
               Eligible = {} \/ (grabbing /\ FirstIs("busy"))

\* The paths that hold a matching keyboard, and did so undisturbed since the listing.
Steady == {p \in Paths \ disturbed : IsKeyboard(p) /\ Matches(p, plugged[p])}

\* A scanner that stays at its path while the devices are looked through is not
\* missed, whatever is plugged, unplugged or unreadable at the other paths meanwhile:
\* the search ends with a device, and no later one (list_keyboard_devices goes on
\* past a path that fails, find_matching_devices).
SteadyIsFound ==
    [][pc = "choose" /\ pc' # "choose" /\ Steady # {}
       => pc' = "open" /\ \A p \in Steady : target'[1] <= p]_vars

\* A device that is not the configured scanner is opened only where it has taken the
\* path of one since the paths were listed, and none without a selector: between the
\* look and the opening nothing else may go wrong (_read_device opens by path).
StrangerTookThePath ==
    handle # NoDevice =>
        /\ HasMatcher
        /\ (handle \in Keyboards /\ Matches(target[1], handle)) \/ target[1] \in reassigned

\* Where in the end a matching keyboard stays plugged, and the first of them is not
\* busy, a device is read for good, after any history of grabs, errors and devices
\* that came and went: no handle is left behind that would keep the device busy.
ScannerIsRead ==
    settled /\ HasMatcher /\ FirstIs("no") ~> [](pc = "read" /\ handle # Gone)

=============================================================================
