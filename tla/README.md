# Formal verification of linux-usb-scanner-client

`linux-usb-scanner-client` reads a USB barcode scanner that types like a
keyboard, stores every completed scan in a SQLite queue, and writes the queued
scans over TCP to an "industrial scanner logger". This directory holds a TLA+
model of that program, TLC configurations that check it on small instances, and
TLAPS proofs about it. Paths are relative to the repository; `pkg/` stands for
`src/linux_usb_scanner_client/`.

To run it: `tlc -config MCCore.cfg MCScanService` (and the same for the other
configurations of the table in section 3), and `tlapm ScanServiceProofs.tla` (and the other
`...Proofs` modules).

## 1. The system

| Component | Code | State | Operations |
|---|---|---|---|
| Scan queue | `pkg/storage.py` | table `scans` (id, status, attempts, next_attempt_at), `sqlite_sequence`, table `service_status`; survives crashes | `enqueue_scan`, `fetch_next_due`, `mark_sent`, `mark_failed`, `cleanup_sent`, `set_status_many` |
| Scanner loop | `pkg/service.py` `run`, `_scanner_loop`, `_read_device` | main thread's control point, `RuntimeState`, `stop_event` | look for the scanner, open it, read it, insert scans, persist the scanner's state, stop and join the workers |
| Delivery worker | `pkg/service.py` `_delivery_loop`, `pkg/tcp_sender.py` | thread's control point, the `QueuedScan` in hand, the socket, the retry sleep | connect, fetch the oldest due row, send, mark sent or failed, clean up |
| Heartbeat worker | `pkg/service.py` `_heartbeat_loop`, `pkg/storage_monitor.py` | `heartbeat_at`, storage keys | write the heartbeat every 5 s |
| Device matching | `pkg/device.py`, the opening and closing in `pkg/service.py` `_read_device` | the devices found, the one that is open and grabbed | list, inspect, match, choose, open, grab, close |
| Keyboard decoder, scan accumulator | `pkg/keyboard.py` | shift, caps lock, the frame typed so far, `_dropping_oversized`; made anew at each opening of the scanner | `feed_key`, `feed_character` |
| Health report | `pkg/health.py` | none (reads the status table, then the queue) | heartbeat age, overall status |
| Alert monitor | `pkg/alert_monitor.py` | remembered beep backend, monitor keys | choose an alert, beep on one backend or the next |
| Automatic updater | `pkg/auto_update.py`, `pkg/versioning.py`, `scripts/install.sh` | checkout, installed files, unit state, update keys | check, stop the service, install, restart |
| Queue clearing | `scripts/clear-scan-queue.sh` | which units it found active | stop units, delete rows, start the units again |
| Restart helper | `scripts/restart-services.sh` | none | restart the units |
| Configuration, CLI, logging | `pkg/config.py`, `cli.py`, `logging_setup.py` | none that changes | parse, validate, print |

How they interact. The main thread and the delivery worker share only
`RuntimeState` (under a lock), `stop_event`, and the SQLite file; every store
operation is a transaction of its own on a connection of its own. The monitor,
the updater, the health command and the clearing script are other processes that
share the same file. The updater and the clearing script also share the units:
each stops the service and starts it again. systemd restarts the service and the
monitor whenever they end (`Restart=always`).

What is hard about it.

- Two threads act on snapshots that the other may overtake: the worker connects,
  or sends, after the scanner has gone; the worker outlives `join(timeout=10)`.
- Every database call can fail (a file locked for more than 10 s, a full disk),
  and what happens then depends on which `try` it stands in.
- A crash may fall between the send and the commit of `mark_sent`.
- `sendall` returns when the frame is in a local buffer, not when it was read.
- A retry time is stored in the row, but the pause that goes with it lives in a
  thread: after a restart one is there without the other. The retry time goes by the
  wall clock, which may be set, the pause by the monotonic one.
- An operator deletes rows while the worker holds one of their ids.
- A frame over the limit must vanish as a whole, and so must one that an unplug
  cuts, whatever is typed after the scanner came back.
- The scanner is chosen by looking at every device, and opened by its path later:
  another device may be there by then.
- The health report joins two transactions, between which scans are captured and
  delivered.
- The heartbeat and the monitor work against two clocks and a database lock; the
  wall clock may be set, and a command that beeps may fail or block.
- The updater and the clearing script may each find the service stopped by the
  other, or start it under the other, and either may be killed half-way.

What makes each part correct. Queue: nothing is lost, ids name one scan for
ever. Scanner loop: each completed scan is inserted once; the status converges
to the truth; the process always comes back. Delivery: capture order, at least
once, at most once without failures, failures blamed on the right row, the
connection given up when it should be, everything drained in the end. Keyboard:
the scans are the lines that were typed, opening by opening. Device matching: the
first match is read, nothing else unless it took the scanner's path, and no grab is
left behind. Health report: "ok" means that everything is delivered. Monitor: a
service that is gone is alerted about, a healthy one is not. Updater and clearing
script: both units are running again whatever fails, and a failed update is tried
again.

## 2. The modules

| Module | What it is |
|---|---|
| `ScanStore` | the SQL statements as operators on a table: a function from row ids to rows |
| `ServiceState` | constants, shared variables, `TypeOK`, what a failing call may do, what the end of the process takes with it |
| `ScannerLoop` | the main thread, one action per step that another thread can tell apart |
| `DeliveryLoop` | the delivery worker and its socket |
| `ScanService` | both over one store, with the world around them; the properties; fairness; the refinement |
| `ScanForwarding` | the abstract specification: an at-least-once, oldest-first forwarder |
| `HealthReport` | the health report, built beside `ScanService` |
| `Keyboard` | decoder and accumulator over several openings of the scanner |
| `TypedLines` | the scans that the key events should yield, defined over the whole log without any state of `Keyboard` |
| `ScannerDevices` | how the scanner is found, opened and given back |
| `BeepPlayer` | the beep backends and the one that is remembered |
| `AlertMonitor` | heartbeat worker, service verdict and alert monitor in discrete seconds, over `BeepPlayer` |
| `MachineState` | what the maintenance programs share: files, units, branch; their control points; systemctl |
| `AutoUpdate` | the updater, version comparison, the installer it runs |
| `ClearScript` | `clear-scan-queue.sh` over the two units |
| `Maintenance` | both on one machine, with the timer, systemd, an operator, kills and reboots; the properties |
| `MCScanService`, `MCHealthReport`, `MCKeyboard`, `MCScannerDevices`, `MCAutoUpdate`, `MCAlertMonitor` | instances for TLC |
| `ScanServiceProofs` | types and safety invariants of `ScanService`, proved |
| `ForwardingProofs` | `ScanService` implements `ScanForwarding`, proved |
| `OneLifeProofs` | what holds only without some kind of event (a restart, a fault, a clock that is set), and which of the switches each property needs, proved |
| `HealthReportProofs`, `KeyboardProofs`, `ScannerDevicesProofs`, `AlertMonitorProofs`, `AutoUpdateProofs` | types and safety invariants of the other components, proved |

`ScannerLoop` and `DeliveryLoop` both extend `ServiceState`, which extends
`ScanStore`; `ScanService` extends the two threads and instantiates
`ScanForwarding` with a refinement mapping; `HealthReport` extends `ScanService`.
`Maintenance` extends `AutoUpdate` and `ClearScript`, which extend `MachineState`;
`AlertMonitor` extends `BeepPlayer`, `TypedLines` extends `Keyboard`. The other components meet `ScanService` only
at an interface that both sides leave open: `Keyboard` through the completed
scans, `ScannerDevices` through the outcome of a search, `AlertMonitor` through
the status table, `Maintenance` through the end and the start of a process and the
DELETE. On each side the other may do anything there.

### State and code

- `rows[i]` is the row with id `i`; `scan` stands for barcode and `captured_at`
  (the k-th completed scan is number k), `failed` for `attempts > 0`, `wait` for
  the ticks until `next_attempt_at`. `lastId` is SQLite's AUTOINCREMENT counter.
- `status` keeps, of the status table, whether the scanner and the server are
  said to be connected, and whether both are said to be "stopped". The other keys
  are only displayed.
- `runtime` is `RuntimeState.scanner_state`; `scanner_available` is true in
  exactly one of its values. `stop` is `stop_event`.
- `mpc` and `dpc` are the control points of the two threads. A step ends where
  another thread can see the difference: after a change of `RuntimeState`, after
  a transaction, before a wait. `mpc = "off"` means that there is no process.
- `sock` is `none`, `open`, or `broken`: the peer has gone, and an idle client has
  not noticed.
- `sleep` is what is left of `time.sleep(retry_interval)`. `Tick` lets time pass
  for it and for the retry times of the rows at once; `SetClock` moves the retry
  times alone, by up to `RetryTicks` either way. How long ago a retry time was reached
  is not kept, so that a clock that is set back may leave it reached or make it lie
  ahead again (`NewWaits`).
- The constants `Faults`, `Restarts`, `JoinTimeouts`, `Clears`, `ClockMoves` and
  `CalmComes` switch kinds of events on and off, so that a property can be checked,
  and proved, under just the events it survives.

### Actions and code

Every `except` clause is an alternative of the action whose call raises.
`GenericError` is the entry of `except Exception` in `_delivery_loop`, `TcpError`
that of `except TcpSenderError`; both begin with `sender.disconnect()`.
`WorkerDies` is an exception that no clause takes: one raised outside the `try`
(`service.py:268`) or inside the `TcpSenderError` clause itself (322, 330, 332).
In the main thread such an exception runs the `finally` clause of `run`
(`Finally`), joins the worker, writes "stopped" and ends the process. `Crash` is
SIGKILL or a power failure at any moment; a committed transaction survives it
(SQLite in WAL mode can lose the last commits in a power failure with
`synchronous=NORMAL`; the code leaves the default, FULL).

`OperatorClears` is the `DELETE` of the clearing script, at any moment:
`--no-restart` allows that, and without it the updater, an operator or a boot may
still start the service between the script's stop and its `DELETE`. What the script
does to the units is `ClearScript`.

`CalmBegins` belongs to no code: it marks the moment from which nothing fails any
more, for the liveness properties that need one.

The health report (`HealthReport`). `ReadStatus` is `status_snapshot`, and the
verdict as far as it follows from that; `ReadQueue` is `queue_summary`. Warnings of
the configuration, the heartbeat's age and the free space are any values. `begun`
remembers how many scans were completed when the report was asked for.

The keyboard (`Keyboard`). A step is one key event, from `feed_key` to the scan it
completes. `OpenDevice` makes the two objects anew; `LoseDevice` leaves the loop of
`_read_device` for whatever reason; in `EnqueueFails` the insert of the scan that
the event completes raises, which costs that scan and closes the device.

The devices (`ScannerDevices`). `List` is `list_devices` (the paths, in any order),
`Inspect` one round of its loop (`InputDevice`, `capabilities`, `close`), `Choose`
is `find_matching_devices` with its sort and `matches[0]`, `Open` and `Grab` are the
beginning of `_read_device`, `CloseDevice` its `finally` clause. Devices are plugged
and unplugged at any moment, made unreadable, or grabbed by another process; `Gone`
is the handle of a device that is gone, whose next read raises. `reassigned`
remembers which paths changed hands since the listing, `disturbed` also those whose
device became unreadable, readable, taken or free.

The updater and the clearing script (`Maintenance`). `files` is the version a
process started now would report, `running` the one the service has loaded, `whole`
whether everything under `/opt`, the virtual environment and the units come from one
install. `unit` and `monitor` are what systemd is to do with the two units. A run of
`auto_update.run` is a sequence of points: `begin` (the enabled test and
"checking"), `refresh` (git and the version read from the checkout), `compare`,
`stop`, the points of `install.sh` at which a failing command leaves a different
machine behind, its verification of the units, `failed` and `start` (the `except`
clause), `persist` ("updated"). A call outside the `try` that raises ends the run
(`GiveUp`). `local` is `__version__` as it was when the updater started, not as it
is once the files have changed. The script's points are its two tests of
`systemctl is-active`, the two stops, the `DELETE`, and the two starts of its exit
trap, to which every failing command and every signal but SIGKILL leads. A test may
say "not active" of a unit whose process is just being restarted. Either program
takes a step at any moment of the other, and `KillUpdater`, `KillScript` and
`Reboot` come at any point; `abandoned` remembers the units that are down because a
program was killed, or the updater's `except` clause failed, before it had started
them. The branch may be set back.

The monitor (`AlertMonitor`). A tick is a second. `stamp` is the age of the
timestamp a heartbeat is about to commit: it is taken, and cut down to whole
seconds, before the wait for the database lock. `age` is `now - heartbeat_at`,
capped one second above the limit of 15 s, and negative while the timestamp lies in
the future: `SetClock` moves both by any number of seconds up to `MaxBack`, while
the sleeps go by the monotonic clock. The monitor's loop is `check` (one SELECT),
`record`, `beep`, `wait`, with `error` for the `except` clause; `--once` ends it
after a recorded check. A pattern is played beep by beep, and each beep on one
backend after the other (`BeepPlayer`): the remembered one first, which is
forgotten when it fails. `PlayerBlocks` is a command that does not return, since
none is run with a timeout. `MonitorEnds` is a signal or a kill, `MonitorStarts` is
`Restart=always`. Between its waits a thread takes no time. `ServiceReports`
changes the scanner and server keys to any value. `quiet` counts the seconds since
anything last changed or failed; while a player blocks it stays zero.

## 3. Runs

| Run | Configuration | What it checks | What it shows |
|---|---|---|---|
| `core` | `MCCore` | `TypeOK`, `QueueConsistent`, `RetainedUntilSent`, `EndedWorkerHoldsNoSocket`, `ForwardsScans` | with every failure, crash, restart, late join, clear and setting of the clock: no scan is lost, no id is confused, no socket is leaked, and the service is an at-least-once, oldest-first forwarder |
| `one_life` | `MCOneLife` | `OkMeansDelivered`, `DrainOrder`, `AtMostOnce`, `BlamesWhatWasSent`, `StoppedIsFinal`, `StaleConnectedIsBrief` | in one life of the process on a healthy database: strict capture order, no duplicate, failures recorded on the right row, a truthful status, "stopped" as the last word, and an "ok" of the health report that vouches for every scan |
| `liveness` | `MCLiveness` | `Drains`, `SocketReleased`, `StatusConverges` | after any history of failures: the queue drains, a lost scanner costs the connection, the status becomes true |
| `keyboard` | `MCKeyboard` | `TypeOK`, `ScansWithinLimit`, `ScansAreTheLinesTyped` | the queued scans are exactly the lines typed, oversized frames and lines cut by an unplug vanishing as a whole |
| `discovery` | `MCDiscovery` | `TypeOK`, `FindsTheFirst`, `StrangerTookThePath`, `ScannerIsRead`, `SteadyIsFound` | the first match is read; anything else only if it took that path since; a match that stays where it is is found whatever happens at the other path; in the end the scanner is read for good |
| `auto_update` | `MCAutoUpdate` | `TypeOK`, `UnitsComeBack`, `UpdatedMeansRunning`, `OnlyUpgrades`, `NewerArrives` | both units are up once neither program runs, whatever failed and however they were interleaved; "updated" is true; only newer versions are installed unforced, and in the end they are |
| `alert_monitor` | `MCAlertMonitor` | `TypeOK`, `VerdictIsTimely`, `AliveIsFresh`, `OnceIsPrompt`, `SilentOnlyIfAllFailed` | the recorded verdict is right `Bound` seconds after the last change, no living service is taken for dead, `--once` ends promptly, and a beep is given up only when every backend has failed |
| `restart_order` | `MCRestartOrder` | `DrainOrder` | violated: finding 2 |
| `worker_dies` | `MCWorkerDies` | `DeliveryKeepsRunning` | violated: finding 1 |
| `send_lost` | `MCSendLost` | `SendsReachServer` | violated: finding 3 |
| `server_lost` | `MCServerLost` | `LostServerNoticed` | violated: finding 4 |
| `failed_install` | `MCFailedInstall` | `UpToDateIsInstalled` | violated: finding 5 |

### Bounds, and why they are enough

- `MaxScans`: 2 in `core` (a scan in hand and one that might be confused with
  it, overtake it, or take its id), 3 in `one_life` (one before and one after
  the scan whose attempt fails). Row ids range over the same set: an insert takes
  one id per scan, which `TypeCorrect` proves for every `MaxScans`.
- `RetryTicks`: 2 in `one_life`, so that a retry time can be shorter than the
  sleep, equal to it, or zero; elsewhere 1 (over, or not yet over). It also bounds how
  far the clock is set at once, and a row's wait: a longer wait is a shorter one and a
  clock that is set again before it is over.
- The clock is set in `core` and `liveness`, and left alone in `one_life`, whose order
  it breaks (finding 2), and in the violations, which shows that they do not need it.
- `liveness` has one scan: each of its properties is about one scan, one socket
  or one status row, and the histories before the calm already hold every failure.
- `MaxChars = 2`, `MaxEvents = 5`: a frame at the limit, one beyond it, its
  terminator, and a frame after it, in one opening or cut by another; nine kinds of
  key event.
- Three versions, two of them spellings of one (`1.1`, `1.1.0`), and one (`1.0.1`)
  that is older although a part of it is greater. One run of each program at a time;
  any number of runs, kills, reboots and commits.
- Two paths and four devices: two that match, one of the same model without keys,
  one keyboard of another vendor; three selectors, one of them empty. Two paths
  suffice for an order, an exchange and a stranger. `MaxTrouble = 1` device at a
  time is unreadable or taken; a third path or a second trouble adds no case that
  the properties tell apart.
- `Interval = 1`, `MaxBeep = 1`, `MaxBack = 1`, `MaxWait = 2` seconds. A heartbeat
  stays fresh for `MaxWait <= 3`, which the proofs cover: 5 s of sleep, one wait for
  each of the two writes of a beat and one for the next, plus the fraction that the
  timestamp drops, make 15 s. With 4 `AliveIsFresh` and `VerdictIsTimely` fail; SQLite
  would wait 10 s. The bounds of `VerdictIsTimely` and of `OnceIsPrompt` are tight:
  with one second less either is violated.

The view `WithoutStatus` of `core` leaves out the status table, which no action
and none of that run's properties reads. `CHECK_DEADLOCK FALSE` stands in three
configurations: in `MCKeyboard`, because the events end after `MaxEvents`; in
`MCLiveness`, where a calm system whose worker has died and whose scanner nobody
uses any more has no step left; and in `MCDiscovery`, where a device is read for
good once nothing changes any more.

### Fairness

`ScanService`: weak fairness of each thread's own steps (both are scheduled, and
every wait of theirs has a timeout: connect, send, the database, `read_loop`'s
select, the sleeps), of the clock, and of `Restart` (`Restart=always` in the unit
file). A scan, a plug, a crash or an operator is never required to come. The
liveness properties that need an end of the failures have it as a premise,
`calm`; nothing forces it to come.

`Maintenance`: weak fairness of the steps of each of the two programs (no command
of theirs waits for ever); strong fairness of the timer's start, because an
operator's own run takes the one slot again and again and disables that start
meanwhile, while the timer fires for ever.

`ScannerDevices`: weak fairness of the scanner loop's own steps, whose waits end.
The devices need not settle; `settled` is the premise of `ScannerIsRead`.

`AlertMonitor` states no fairness: its properties are about time, and a bound says
more than "in the end".

## 4. Findings

1. *One failing status write ends the delivery thread for good* (`worker_dies`).
   `_delivery_loop` writes the status outside its `try`, and makes three more
   database calls inside the `TcpSenderError` clause. An exception there ends the
   thread; the main thread and the heartbeat go on, so neither systemd nor the
   health report restarts anything. `CHANGELOG.md:174` says that the loops "keep
   running through recoverable failures". `Drains` and `StatusConverges` hold only
   up to `dpc = "dead"` for this reason.
2. *A restart inside the retry interval breaks the capture order*
   (`restart_order`). The failed row is skipped until `next_attempt_at`, and the
   worker that would have slept that interval out is gone. `README.md:281` promises
   capture order. Within one life, under a clock that is not set, the order holds
   (`one_life`). Setting the clock back breaks it too, without a restart: the failed row
   waits for a wall time that lies ahead again, the worker has slept its interval out,
   and a later scan is due at once (`MCRestartOrder` with `Restarts = FALSE` and
   `ClockMoves = TRUE` shows it). Nothing is lost in either case, and only a scan that
   failed is overtaken (`ForwardsScans`).
3. *A frame sent to a peer that is gone counts as delivered* (`send_lost`), since
   `sendall` returns once the frame is buffered. `README.md:278` says that the row
   stays pending if the server is unavailable.
4. *An idle connection to a server that went away is reported as connected*
   (`server_lost`), so that the alert of `README.md:315` is not raised.
5. *A half-failed update is not tried again* (`failed_install`). The updater
   compares the branch with the version of the files it copied first. When the
   installer fails after that, the next run says "Installed version is current."

Smaller things met on the way, which no document denies:

- an updater run whose `git fetch` fails leaves `update_state` at "checking"; after
  an update, `installed_version` in the status is the old one until the next check;
- when the updater's `except` clause cannot write the status, or the updater or the
  clearing script is killed while a unit is down, it stays down until a boot or an
  operator (`abandoned`);
- `--once` is tested only after an iteration that did not fail, so that a check that
  fails is repeated; it ends promptly once nothing fails (`OnceIsPrompt`);
- once the delivery worker has died with "connected" as its last word, the report is
  "ok" as long as nothing is pending (`health.py:102`);
- only the first match is ever tried: while it is taken by another process, a second
  device that matches is not read (`service.py:181`, `FindsTheFirst` says so);
- a fallback beep backend that worked is used until it fails, even if a better one
  has come back; a command that cannot be started ends the whole pattern;
- caps lock is taken to be off at each opening, whatever the keyboard's LED says;
- the intervals of the configuration may be "nan" or "inf" (`config.py:335`).

## 5. Proofs

All proofs are for every value of the constants, from the named assumptions of
the modules (`MaxScans` and `RetryTicks` positive, the switches Boolean; every
version a sequence of two to four numbers). Every invariant and every action
property that a passing run checks is a theorem.

`ScanServiceProofs`:

- `TypeCorrect` and `QueueIsConsistent`. `TypeOK` is not inductive: an insert
  keeps to `RowIds` only because an id never exceeds the number of scans. The
  inductive invariant is `TypedQueue == TypeOK /\ QueueConsistent`, and
  `QueueConsistent` in turn needs that the row whose id the worker holds carries
  the scan it holds, as long as it exists: ids are not reused.
- `NoScanIsLost`. `RetainedUntilSent` is inductive relative to `TypedQueue`: the
  step that could lose a scan is `MarkScanSent`, and there the scan is in `handed`;
  `CleanupSent` touches sent rows only.
- `NoSocketIsLeaked`. `EndedWorkerHoldsNoSocket` needs `DisconnectedOffPath`: at
  every point from which an exception may end the thread the socket is closed.

The lemmas about `ScanStore` (`MarkSentEffect`, `MarkFailedEffect`,
`DeleteEffect`, `ElapseEffect`) say what an operator does to a row; the rest of
the proof uses them instead of the definitions.

`ForwardingProofs`: `ServiceForwards`, that is `Spec => ForwardsScans`. The
refinement mapping `Fates` reads a scan's fate off its row and the books of what
was dropped and cleared. The inductive invariant `BookInv`, on top of
`TypedQueue`:

- `ScansAscend`: ids and scans ascend together, so that a scan has one row at most
  and "oldest due row" means "oldest due scan";
- `WaitsAfterFailure`: only a failed attempt makes a row wait, so that what is not
  due has failed before;
- `OlderFailed`: what is pending and older than the scan being sent has failed;
  this makes the send a `Hand` of the forwarder. It survives new rows, which are
  younger, and the clock, since `failed` stays when the wait is over;
- `HeldIsPending`: the row in hand is pending unless an operator deleted it, so
  that `mark_failed` never turns a sent row back into a pending one;
- `BooksAgree`: no scan is both pending and dropped or cleared.

`Steps` first sorts the 42 actions into ten kinds by what they do to the queue;
each kind is then one lemma for the invariant (`...KeepsBook`) and one for the
mapping (`...Forwards`). A clock that is set moves retry times of rows that have failed
and nothing else (`RescheduleRows`), so that it is a stutter of the forwarder.

`FatesAreFinal` follows from the refinement: in every step of the forwarder a scan
that is "sent" or "gone" stays that (`ForwardIsFinal`), hence in every step of the
service, retries, crashes and restarts included.

`KeyboardProofs`:

- `KeyboardTypes` and `ScansKeepToTheLimit`, which are inductive together. The lemma
  behind them is `StripIsShorter`: stripping yields a piece of the frame, at most as
  long.
- `ScansAreTheLines`: the decoder and the accumulator, which look at one key at a
  time, implement `TypedLines`, which looks at the whole log. `LinesInv` says, of the
  state after the log, what the reference says of its next position (`HoldsAt`): shift
  is `ShiftAt`, caps lock `CapsAt`, the buffer is the line that is being typed unless
  that line was too long at some moment, and the flag for dropping says just that. A
  step of the proof has two halves. What the reference says of a position does not
  change when the log grows (`PastStays`), so that the scans already queued stay right
  (`NoNewScan`, `NewScan`); and one more event moves shift, caps lock and the line as
  `feed_key` and `feed_character` move theirs (`ShiftFollows`, `CapsFollows`,
  `CharacterFollows`, `LineFollows`). A line is a recursive function of the position:
  that it exists and is unique (`LineGrows`, `LinesAgree`) is proved by induction in
  the form of a set of naturals that contains them all (`AllNaturals`).

`OneLifeProofs`: six properties that hold only for some values of the switches;
each theorem assumes no more of them than it needs.

- `DrainsInOrder` (`~Restarts`, `~ClockMoves`). The order rests on the coincidence of
  two clocks: the row that failed waits for `next_attempt_at`, the worker for its
  sleep, and the row's wait, cut down to whole seconds, must never be the longer one. `LifeInv` says
  that no row waits longer than the worker sleeps (`WaitsWithinSleep`), so that
  whenever it is awake the oldest due row is the oldest pending one; `OrderInv` says
  that nothing pending is older than the scan it tries to send (`OldestFirst`), from
  the fetch to the end of the attempt. Faults and clears do not disturb it; a restart
  does, and so does a clock that is set: both are finding 2.
- `SendsAtMostOnce` (`~Faults`, `~Restarts`) from `HandedOnce`: a scan that was
  handed over is not pending, except between the send and its commit.
- `TheRightRowIsBlamed` (`~Faults`, `~Restarts`, `~Clears`, `~ClockMoves`) from `StillPending`: the
  row that is tried stays pending, and with `OldestFirst` it is the one that the
  handler finds when it looks again.
- `StoppedStays` (`~JoinTimeouts`) from `Joined`: the worker has ended where the main
  thread writes "stopped".
- `StatusIsTruthful` (`~Faults`, `~Restarts`) from `ConnectionHeld`: at every point
  but those about to write, the row says "connected" only if the socket is there.
- `DeliverySurvives` (`~Faults`): the delivery thread does not die. With `worker_dies`
  it says that a failing call is what finding 1 takes, and all it takes.

`HealthReportProofs`: `OkIsTruthful`, from `NoScanIsLost`. A queue without pending
rows leaves no completed scan undelivered (`NothingPending`), and neither the number
of completed scans nor what was delivered ever goes back (`HistoryGrows`), so that
the second transaction vouches for what was completed before the first.

`ScannerDevicesProofs`: `OnlyAStrangerAtThePath`, `SteadyScannerIsFound` and
`TheFirstIsRead`. The inductive invariants say what `found` and `target` are worth at
each point (`DeviceInv`): a pair in `found` was a keyboard at its path, and still is
unless the path is in `reassigned`. `Inspected` says it path by path: a path that is
not in `disturbed` and was inspected is in `found` exactly if a keyboard is there, so
that what happens at one path does not spoil what was learnt of another
(`UndisturbedPaths`). The first of `found` that matches is then no later than a scanner
that stayed where it was, and in a search that nothing disturbed it is the first there
is. `DevicesTyped` is inductive relative to `DeviceInv`.

`AlertMonitorProofs`: `LivingIsFresh`, `VerdictsAreTimely`, `OnceEndsInTime`, for
every interval, every length of a pattern and every distance that the clock is set;
`MaxWait <= 3` is the assumption of `LivingIsFresh` and of `VerdictsAreTimely`. The
invariants (`HeartbeatInv`, `AliveInv`, `MonitorInv`) bound `age`, and `quiet` minus
what the monitor may still have to spend, at each point of the two loops.
`MonitorTyped` and `SilenceIsExplained` share `TypeInv`. Its part `Playing` says that
while a pattern is played every backend that may be used has failed for this beep or
is still a candidate; what makes that true at the start of each beep is
`CandidatesCover`: whichever backend is remembered, the list that
`_play_auto_backend` builds from it holds all of them.

`AutoUpdateProofs`: `UpdaterTypes`, `BothUnitsComeBack`, `UpdatedIsTrue`. The
inductive invariant `UpdateInv` adds to the properties where a unit may be down
(`DownOnTheWay`: the updater still has to start it, or the script remembers to),
where the script remembers what (`NotForgotten`), what each point of the installer
has achieved (`InstallProgress`), and that "updated" is the last thing a run writes
(`UpdatedIsLast`). `FilesOnlyGoForward` holds because what a run has read does not
become stale: until the installer replaces the files they are those of the version
the run started with, and an install is under way only for a version that is newer
than that one, or forced (`UpgradeInv`); nothing else changes the files
(`WhoChangesFiles`). What "newer" is worth is a theorem of its own, `NewerIsLater`:
for any two versions `is_newer_version` agrees with the order of the numbers that
they mean, their parts being digits in a base that is greater than each of them.

Only model-checked: everything temporal beyond `[]` (`Drains`, `SocketReleased`,
`StatusConverges`, `NewerArrives`, `ScannerIsRead`), which needs fairness and
`ENABLED`; and the five violations, which are counterexamples.

## 6. What is not modelled

- `config.py`, `cli.py`, `logging_setup.py`: parsing, validation and printing once
  per process. Their outcomes are choices of the actions that depend on them
  (`EnterScannerLoop`, `Selectors`, `sendEmpty`, `enabled`).
- The text of the health report, queue totals and the storage keys, which are
  only displayed.
- `uninstall.sh` and `check-health.sh`: one-shot shell code; and what an operator
  does with `systemctl stop` by hand, which would leave a unit down on purpose.
- Two updaters at once (an operator's run beside the timer's), and two clearing
  scripts.

## 7. Plan

Done: the store, both threads and their composition, the abstract forwarder, the
health report, the keyboard over several openings, the devices, the monitor with
its player, a clock that is set under both of them, the updater and the clearing script on one
machine; the safety properties of each proved.

What is left, in this order:

1. `Drains` with two scans, and with clears.
2. Two updaters at once, over one checkout and one `/opt`.
3. `ScannerDevices` as a refinement of the part of `ScannerLoop` that finds and
   opens the scanner. There one step looks and decides, where `ScannerDevices` looks
   at one device after the other while they come and go.
