# Floor heating controller: TLA+ verification project

The firmware in `src/firmware` drives one circulation pump from one DS18B20
sensor on the floor-heating return, with manual overrides, a fail-safe, an
overheat protection and a periodic anti-seize run. This directory holds TLA+
modules of its control core and of what surrounds it (sensor driver, settings,
counters, event log, notifications, history, MQTT status feed, HTTP API, web
app), TLC configurations that check
them on small instances, and theorems about them that TLAPS proves for every
value of the constants.

Contents: [the system](#the-system), [the modules](#the-modules),
[the runs](#the-runs), [the proofs](#the-proofs),
[disagreements with the text](#disagreements-with-the-text),
[observations](#observations), [not modelled](#not-modelled), [plan](#plan).

## The system

### Components

| component | state | operations | what makes it correct |
|---|---|---|---|
| pump decisions, `control_logic.c` | `ctl_state_t`: pump and reason, last reading, failure count, flags `hot` / `overheat` / `sensor_failed`, override and deadline, maintenance run and idle stamp | `ctl_init`, `ctl_sensor`, `ctl_manual`, `ctl_decide` | the pump always does what the highest active rule asks; overheated water is never left standing; a blind controller runs the pump; the anti-seize run is neither missed nor early; overrides end |
| control task and manual commands, `control.c` | `s_state` under `s_lock`, heartbeat, run-time and start counters, the task's clock samples | the 1 s loop, `control_manual`, `control_settings_changed`, `control_status`, `control_alive` | the promises above survive stale stamps, two reads of the thresholds per tick, delays up to the watchdog and resets; counters add up |
| threshold settings, `settings.c` | RAM copy, NVS blob | `settings_init`, `settings_get`, `settings_set` | thresholds in force are ordered whatever is requested or found in flash; an answered request is durable |
| relay driver, `pump.c` | GPIO level | `pump_init`, `pump_set`, `pump_is_on` | the level follows the decision |
| temperature sensor, `temp_sensor.c` | found device, failures in a row | `temp_sensor_read` | a lost sensor is searched again; the 85.0 C power-on value is not a reading |
| event log and notifications, `events.c` | ring of `EVENTS_RING_SIZE` events | `events_publish`, `events_recent`, `notify` | the newest events, newest first; the push topics tell when the pump runs |
| temperature history, `history.c` | ring of `HISTORY_SAMPLES` samples with packed pump bits | `history_add`, `history_copy` | the last n samples, oldest first, each with its own pump bit |
| HTTP API, `api.c` | the request in its handler | status, events and history documents, pump command, settings request | the answer to a command shows that command |
| MQTT status feed (`events.c`, `main.c` and the external `home-idf`) | dirty flag, last publication | publish at once on an event, otherwise periodically | every change reaches the broker |
| server ingest, `fh_ingest.py`, `schema.sql` | rows of samples and daily maxima | validate, store | a stored run time is the pump's; no sample is stored twice or from a retained message |
| web app, `app.html` | last status document, marker of the loaded events, poll timer, `busy` | polling, commands, steppers | it never stops polling while in view; the slide is never locked with no command under way |
| start-up, `main.c` | none | boot order, health check | - |
| partition migrator, `migrator/main/main.c` | partition table | one shot | - |

### Interaction

The **control task** wakes once a second, or at once when it is notified. Every
`CONTROL_READ_PERIOD_S` it reads the sensor (a blocking conversion). It samples
the clock, waits for `s_lock`, feeds a reading to `ctl_sensor`, runs
`decide_locked` (counters, `ctl_decide`, pump, events), forces the relay to the
decided level, stamps the heartbeat, gives the lock back and feeds the task
watchdog, which resets the board after 10 s without a feed.

The **HTTP server task** runs one handler at a time: manual commands take
`s_lock`, sample the clock under it and decide at once; a settings request
copies the thresholds, patches them, sanitizes them, puts them into force,
saves them to NVS, notifies the control task and answers. Thresholds are read
through `settings_get`, each time a fresh copy under its own lock.

A **page** in a browser polls the status every three seconds while it is in view,
loads the events when the document looks different, and sends commands and
thresholds. Its requests wait on connections until the server takes them, and are
answered, refused or lost in any order.

Everything on the board except the NVS blob is in RAM and is lost at a reset.

### What is hard

* Two tasks decide on one state, and the stamps they decide with are not
  ordered as the decisions are: `now_s` is sampled before the lock.
* Thresholds change between the two reads of one tick, and while flags derived
  from the old ones are remembered.
* The only bound on any delay is the watchdog.
* Rules, overrides, sensor failures and maintenance interact over long call
  sequences; a restart forgets all of them.
* A save to flash may fail or be cut at any point.
* A status document is put together in two reads, one under `s_lock` and one
  under the thresholds' lock, while the control task goes on.
* The page's requests overlap: timers, clicks, hiding and failures restart its
  poll in any order, and a drag of the slide outlasts the check made at its start.
* Unsigned counters take differences of stamps that may go backwards.

`PROJECT.json` lists each hazard at its line with the properties aimed at it.

## The modules

| module | what it is |
|---|---|
| `ControlLogic` | `control_logic.c` as operators: state record, `ctl_init`, `ctl_sensor`, `ctl_manual`, `ctl_decide` |
| `PumpLogic` | that state under every sequence of calls: read and decide, decide, command, restart; every call brings its own thresholds and a stamp up to `LAG` old |
| `PumpPromise` | the rule table of the repository's README as an abstract specification, without clocks, thresholds or tasks |
| `Control` | the tasks: lock, notification, clock samples, watchdog, heartbeat, relay, a settings request in progress; implements `PumpLogic` |
| `Counters` | run time and starts, today and since boot, modulo their width |
| `Settings` | RAM and flash copies of the thresholds, a request step by step, failing saves, resets, foreign blobs |
| `Recent` | abstract: a list of the latest items, newest first |
| `EventRing`, `History` | the two rings, each an implementation of `Recent` |
| `Events` | decisions, the events they publish one by one into `EventRing`, and the retained MQTT document: signal, build, send, broker outages, resets |
| `Sampling` | the task's reads that fill `History`, and the axis on which the app draws them |
| `Notices` | `Events` and what a reader of both ntfy topics was last told of the pump |
| `Ingest` | `Counters` and the run times the server's validation lets through |
| `Api` | the HTTP server's handlers step by step, in front of the controller of `PumpPromise` |
| `App` | the page: connections, poll timers, marker, slide, steppers, lost and overtaking answers |
| `TempSensor` | the sensor driver on a bus whose sensor is unplugged, swapped or silent, and the controller it feeds |
| `MC...` | constant values for TLC |
| `ControlLogicProofs` | lemmas about the operators of `ControlLogic` |
| `PumpLogicProofs`, `ControlProofs`, `CountersProofs`, `SettingsProofs`, `EventsProofs`, `AppProofs` | the theorems about `PumpLogic`, `Control`, `Ingest`, `Settings`, `Events`, `App` |
| `MeasurementProofs` | the theorems about `History`, `Sampling` and `TempSensor` |

The layers fit together as follows. `Settings` guarantees ordered thresholds
(`AlwaysSane`), which is what `PumpLogic` and `Control` assume of theirs
(`ConfigsAreSane`; theorem `SaneForTheLogic` derives it from the values in
`config.h`). `Control` implements `PumpLogic` with `s_state` mapped to the
state the lock last released and `LAG` to the watchdog timeout. `PumpLogic`
implements `PumpPromise`: demands are read off the flags, and the pump serves
the highest of them. `Api` and `App` stand on that abstraction: the controller
behind the handlers takes any step `PumpPromise` allows, so what is shown of the
page needs no clock, threshold or task.

Correspondence, beyond the names the modules share with the source:

* A temperature is an integer in 0.1 C. A reading is valid with a temperature,
  or failed.
* `ctl_config_t` mixes thresholds with compile-time numbers; the latter are
  constants here.
* In `ControlLogic` the body of `ctl_decide` is cut into named pieces
  (`ManualExpired`, `MaintenanceDue`, `Refresh`, `Verdict`, `Switch`) in the
  order of the code. The flags of `ctl_result_t` serve the events and are left
  out.
* `Control` holds the lock over two steps only between `ctl_sensor` and
  `ctl_decide` of a tick, so that a settings request can fall between them. A
  command does everything under the lock in one step; it reads the thresholds
  once, so nothing observable falls in between.
* `Control!task.pc` follows the loop: `wait`, `convert` (the blocking
  conversion), `take` (clock sampled, lock not yet held), `decide`, `feed`.
  Local variables that are dead are reset, to keep equal states equal.
* Variables marked "history" (`seen`, `latest`, `changed_s`, `glitch_s`,
  `promised`, `banked_s`, ...) record what a property needs to speak of the
  past. No guard reads them.
* `Events` decides with exact stamps: stale ones only change which overrides
  expire, which `Control` covers. A call publishes up to three events, one step
  each, and `LockFree` is false in between. An event and the document have the
  fields the properties speak of. `Build`, `Send` and `Broker` are the external
  client and broker, modelled from how `main.c` configures them.
* `History!s_pump` holds each byte as the set of its bits that are set.
* `Sampling` lets the temperature of a sample stand for the moment it was read:
  nothing else about it matters there.
* `TempSensor!Rewire` is the world outside; an answer that does not come may be
  noise or a sensor that is gone.
* `Api!Goes` moves a request through the stages of its handler; `ServerFree` is
  the single task of httpd. A handler runs in as many steps as others could tell
  apart: a command acts at once (under `s_lock`), and its answer copies the
  controller later. The thresholds of the document are left to `Settings`, and the
  same document built by the MQTT state task, outside httpd, to `Events`. Another
  client's whole request is one step, since only handlers could see it half done.
* `App!timer` and `strays` are the pending timers of `refresh`: the variable
  remembers one, and a timer that a second answer overwrites still fires. `Lost`
  is a request or an answer that does not arrive; `refresh` begins a poll on any
  connection to spare.
* The slide is three actions, as in the page: `SlideBegins` asks `canStart`,
  `SlideFires` sends without asking again, `SlideLetGo` gives up. `raced`
  (history) says that the auto chip was tapped during a drag, and that a command
  has been under way ever since.
* `Control!Glitch`, the pin losing its level, is the environment's.
* `App!Marker` keeps what of the marker can differ: the pump's state follows from
  the reason that is in it.
* `Restart`, `Reset` and `Reboot` stand for the watchdog, a panic, an update
  and a power cut alike.

Definitions whose name starts with `Slip` are deliberate programming errors:
each repeats the definition below it with one plausible mistake. They are used
only to show which property notices it; `PROJECT.json` pairs them
("mutants"), one for every property.

## The runs

| run | question | states |
|---|---|---|
| `pump_logic` | do all call sequences keep the decision invariants and implement the rule table? | 145 k |
| `settings` | are thresholds always ordered, answered requests durable, and fields not asked for left alone? | 473 k |
| `control` | how late may the heartbeat, an override's end, a relay's repair, changed thresholds be, and do the tasks implement the calls of `PumpLogic`? | 1.3 M |
| `control_next_decision` | (violation) do new thresholds act at the next decision? | - |
| `counters` | do the counters add up with stale stamps, midnight, clock corrections, how far are they from the time the pump really ran, and is a wrapped run time never stored? | 474 k |
| `counters_uptime` | (violation) is the run time of the day at most the uptime? | - |
| `events` | do the log and the retained document tell the pump's state, and does a reachable broker get it again and again? | 723 k |
| `events_reason` | (violation) does the retained document tell the reason in force? | - |
| `notices` | (violation) does a reader of the push topics know that the fail-safe runs the pump? | - |
| `sampling` | does a reader get the latest samples, and where are they drawn, however late the steps of the task? | 2.2 M |
| `temp_sensor` | is a swapped sensor found again, and never unnoticed? | 287 |
| `app` | does the page go on polling, does the answer to a command show that command, and is the slide locked for nothing? | 2.7 M |

### Properties

`PumpLogic`. `ServesTopRule`: between calls, pump and reason are those of the
highest active rule. `CriticalWaterMoves`: water read at or above the critical
threshold *of that read* is never left standing. `BlindPumpRuns`: enough bad
reads start the pump unless it is stopped by hand. `NoMissedMaintenance`: a pump
left standing by a decision has been idle for less than the interval.
`OverrideIsLive`: an override in force was not due at the last decision and ends
within `MANUAL_MAX_S`. `MaintenanceOnlyWhenIdle` (action): a run begins only
after a whole interval without the pump. `ManualStopHolds` (action): only a
deadline, an overheat, a command or a restart ends a manual stop, a failing
sensor does not. `KeepsPromise`: refinement of `PumpPromise`. `IInv` adds
the idle clock and what the sensor leaves behind: its flags cover the last reading,
and the sensor counts as failed *exactly* while the count of bad reads says so, so a
count that wrapped to 0 instead of saturating would be noticed although
`sensor_failed` stays set.

`Control`. `HeartbeatFresh`: the heartbeat is at most two watchdog timeouts old.
`OverrideEndsInTime`, `RelayRestored`: an override's overrun and the life of a wrong
relay level are bounded by two timeouts. `ThresholdsInForce`: a read period and two
timeouts bound how long the flags contradict changed thresholds. `ImplementsLogic`:
refinement of `PumpLogic`. These are bounded-time safety properties and the bounds
are exact: with the bound lowered by one second each is violated. `IInv` adds the
types, what the bounds rest on, and `FailuresTell`, the agreement of failure count
and flag as in `PumpLogic`. Two timeouts, because a sample may age for almost one
timeout before it is used, and the next one comes only before the next timeout.

`Counters`. `RuntimeIsRunLengths`: modulo the width of the counter, the run time
since boot, and that of the day, are the sums of the lengths of the pump's runs.
`StartsOfDay`: starts of the day are those since boot less those of earlier days.
`StoredIsRunTime`: a run time that passes the ingest's validation is exactly the
pump's, so the wrap of `counters_uptime` costs samples and never falsifies one.
`RuntimeNearPumping`: the run time since boot differs from the time the pump really
ran (history, counted by the clock and not by the stamps) by at most a lag for each
start and each stop, and one more; stale calls in between leave no trace.
`IngestInv` adds the types and `RuntimeWithinStamps`, a coarse bound of the order of
the uptime on what stale stamps can do to the run time of a day; the proof of
`StoredIsRunTime` needs no finer one.

`Settings`. `AlwaysSane`, `AnsweredInForce` (what a 200 reported stays in force
through resets and requests that never applied), `UnsavedIsKnown` (RAM and flash
differ only while saving or after a failed save), `UnaskedKept` (action: a request
that leaves `start` alone changes no threshold it did not name).

`Events`. `LogTellsState`: whoever reads the ring while the lock is free finds
the pump as the newest event has it, overheat and sensor as the newest events of
their types have them, and as after a boot where a log that has not wrapped has
none. `RetainedTellsPump`: the retained document agrees with the state, once one
of this boot has arrived and unless a newer one is signalled or built.
`FeedCatchesUp` (liveness): with a broker that stays reachable the retained pump
state is again and again the true one. `LogKeepsRecent`: what a reader of the ring
gets refines `Recent`. `IInv` is the inductive invariant of the proofs; its
`TypeOK` includes `RingInv`, that of the ring.

`History`. `HistoryKeepsRecent`: the same refinement, for temperatures with the
pump bits packed next to them.

`Api`. `AnswerShowsCommand`: the answer to a command shows that command's override
or none, never another client's.

`App`. `PollingAlive`: a page in view has a timer pending or a poll under way.
`BusyWithOne`: the slide is never locked with no command under way, whatever is
lost, refused or overtaken; and unless the auto chip was tapped during a drag, it is
locked whenever a command is under way, and commands follow one another. `IInv` of
the proofs adds the types, `OneHandler` and `DragIsFree`.

`Sampling`. `NeverDrawnTooEarly`, `DrawnDrift`: the app, which puts the samples
exactly a period apart, draws none before it was taken, and the error grows by at
most `Slack` per sample: the longer of the read period and `DELAY`, and two delays,
less a second. `DELAY`, how late a step of the loop may be, is any number.

`TempSensor`. `SwapIsFound`: after `SENSOR_FAIL_READS` calls to an address that
answers no longer, the next call reads the sensor on the bus, whatever failures
were counted before. `DriverNotAhead` relates the two counters of failures, the
driver's (of one sensor) and the controller's (of all): the driver gives a sensor
up only when the controller has failed it. `SwapPassesFailSafe` (action): hence
the controller never goes on with another sensor's readings without having passed
through the fail-safe.

### Bounds

* *Clocks.* `MaxTime` bounds the clock in the guard of `Clock`; a restart sets
  it to 0. `PumpLogic` runs to 4 with an interval of 2, a maintenance run of 2,
  overrides of 1 or 2 and stamps up to 1 old: every deadline is met early,
  exactly and late. `Control` runs to 3 with a timeout, a read period, an override
  and a maintenance run of 1 and an interval of 2: two timeouts in a row and a read
  period fit, and the bounds are met exactly. `control_next_decision` takes 2 for
  timeout and read period and runs to 4. Every comparison in the code is between a
  stamp and a stamp plus a constant, so the order of the constants matters and not
  their size.
* *Thresholds and readings.* Two triples. In `PumpLogic` four readings: failed,
  below the stop of one triple only, between the end of an overheat and critical of
  one triple only, and critical for both. In `Control` two: failed, and one that is
  critical for the one triple and cold for the other, so that changed thresholds
  contradict every flag.
* *Failure counter.* The fail-safe takes 2 reads, and `UINT8_MAX` is 3 in
  `PumpLogic` and 2 in `Control`, so that saturation is reached.
* *Requests.* Every field left out, below, inside and above its range, in all
  combinations; blobs in range, wholly out of range, and out of order. The
  threshold constants of `Settings` are those of `config.h`.
* *Rings.* Two events and three samples, wrapped many times since resets start
  anew; bytes of two bits, so that the last one is only partly used. The theorems
  hold for every size.
* *Sampling.* A read period of 1, a history period of 4 and steps up to 2 late, so
  that delays exceed the read period and read follows read at once; three samples,
  and the ring turns over within the 20 s of `MaxTime`.
* *Events.* One threshold triple, one reading for each flag (failed, cold,
  critical), a fail-safe after one read, overrides of 1 s, a clock to 1 and no
  maintenance run: every kind of event and every pair of flags that change at once
  occur. `events_reason` and `notices` have four readings, maintenance after 1 s, a
  fail-safe after two reads and a clock to 2, so maintenance and heating too.
* *Sensor.* `SENSOR_FAIL_READS` is 3 and the controller's counter saturates at 4;
  both ends of the plausible range and the values next to them.
* *Counters.* Width 64 (16 in `counters_uptime`) with a clock to 5 and stamps up to
  2 old, so that a backward difference wraps; the server accepts up to 8.
  `MaxStarts` bounds the starts at 3.
* *Page.* Two connections, so a poll overlaps a command, another poll, an event
  load or a threshold request; one lost timer; overheated or idle water with any
  override it allows. `STARTS_MOD` 1 leaves the starts out
  of the marker, which then changes with the reason and the override only: fewer
  event loads, which no property of the page depends on. The theorems hold for
  any number of connections, timers and worlds.

### Fairness

Only `Events!FairSpec` assumes fairness. `App` is checked for safety alone:
`PollingAlive` says that the next poll is always coming, and that it succeeds in the
end depends on a network for which the code assumes nothing. Elsewhere the code
justifies more: the watchdog resets the board 10 s after the last feed, so
"eventually" is stated as a bound in seconds, a safety property, and `Clock` cannot
pass the timeout.

`FairSpec` assumes that a call that holds the lock publishes its events
(`events_publish` never waits on the network), that the boot goes on (`Start`),
that a built document is handed to the client (`Send`, which loses it when the
broker is unreachable), and that the state task takes `s_lock` (`Build`). The
last one is strong fairness: other calls take and release the lock forever,
which disables `Build` in between, but the mutex is free for most of every
second and serves its waiters in order of priority and arrival. Nothing is
assumed of reads, commands, resets or the broker; `FeedCatchesUp` is about the
behaviours in which client and broker stay up from some point on. The periodic
publication is what makes it true: without it a document lost to an outage is
never repeated, which is the mutant of the property.

Deadlock is checked in every run.

## The proofs

| theorem | statement |
|---|---|
| `PumpLogicProofs!Invariant` | `Spec => []IInv` |
| `Typing`, `TopRule`, `CriticalWater`, `BlindPump`, `MaintenanceInTime`, `OverrideBounded` | the invariants of `PumpLogic`, each from `Invariant` |
| `PumpLogicProofs!MaintenanceIdle`, `ManualStop` | the two action properties |
| `PumpLogicProofs!Refinement` | `Spec => Promise!Spec` |
| `ControlProofs!Invariant` | `Spec => []IInv` |
| `ControlProofs!Heartbeat`, `OverrideEnds`, `RelayRepaired`, `NewThresholdsRule` | the four bounds, for every watchdog timeout and read period |
| `ControlProofs!Refinement` | `Spec => Logic!Spec`, hence what is proved of `PumpLogic` holds of the running controller |
| `CountersProofs!Invariant`, `RuntimeAddsUp`, `StartsAddUp` | types, run times and starts, for every width, lag and calendar |
| `CountersProofs!RuntimeIsNear` | the run time since boot is within a lag per switch of the time the pump really ran, for every lag and any number of stale calls |
| `CountersProofs!DayWithinUptime`, `StoredIsTheRunTime` | the run time of a day stays within stamps of the order of the uptime; a run time the server accepts is the true one |
| `SettingsProofs!SanitizeIsSane`, `SanitizeKeepsSane` | `sanitize` yields ordered thresholds from any integers and is the identity on ordered ones |
| `SettingsProofs!SaneForTheLogic` | ordered thresholds satisfy `ConfigsAreSane` |
| `SettingsProofs!Invariant`, `InForceIsSane`, `AnsweredIsDurable`, `UnsavedOnlyOnError`, `UnaskedIsKept` | the invariants of `Settings`, and its action property |
| `EventsProofs!RingIsValid`, `RingKeepsRecent` | every slot a reader may reach was written; the event ring by itself implements `Recent` |
| `EventsProofs!Invariant`, `LogTellsTheState`, `RetainedTellsThePump` | the log and the retained document tell the pump's state, for every ring size, thresholds and readings |
| `EventsProofs!Refinement` | `Spec => LogKeepsRecent`: the whole system drives the ring only as `Recent` allows |
| `MeasurementProofs!HistoryIsValid`, `HistoryRefinement` | indices stay in their arrays; the history by itself implements `Recent` |
| `MeasurementProofs!Invariant`, `DrawnNeverTooEarly`, `DrawnWithinDrift`, `Refinement` | where samples are drawn, for every period, delay and depth; the task's loop implements `Recent` |
| `MeasurementProofs!SensorInvariant`, `SwapIsFoundInTime`, `DriverIsNotAhead`, `SwapPassesTheFailSafe` | the driver and the controller it feeds, for every number of failing reads |
| `AppProofs!Invariant`, `SlideFollowsCommands` | types, one handler at a time; the slide is locked only for a command under way, and commands overlap only after a race with a drag |
| `AppProofs!KeepsPolling`, `OwnAnswer` | the page goes on polling; answers show their own command |

Assumptions are the named `ASSUME`s of the modules: types of the constants, a
positive maintenance interval and run, a positive minimal override, a fail-safe
threshold the counter can reach, a positive watchdog timeout and read period, fewer
starts than their counter holds, and ordered thresholds. Nothing bounds the lag, the
sets of thresholds and readings, or the `DELAY` of `Sampling`, for which the code's
only bound is the 10 s watchdog; and nothing but `IngestConstants` the clock: it says
that twice the time a board is up, and that time plus the two days the server
accepts, stay below the width of the counters (2^32 s, so an uptime of up to 68
years). Without it a run time could wrap into the accepted range.

**`PumpLogic`.** The safety properties are not inductive: `CriticalWaterMoves` speaks
of the pump, and the pump of the flags. `IInv` therefore replaces them by
`SensorFlags` (a critical reading sets `overheat`, `overheat` implies `hot`, a
failure count is at its limit exactly while `sensor_failed` is set), which
`ctl_sensor` establishes and nothing else touches, and by `ServesTopRule`, which ties
the pump to the flags. `overheat => hot` is what makes the pump go on when an
overheat clears, and it needs `start < critical - clear` from `Settings`. Each call
is a preparation (`ctl_sensor`, `ctl_manual` or nothing) followed by a decision;
lemmas `ReadPrepares` and `ManualPrepares` say what the first leaves, `DecideFulfils`
what the second makes of it, and `NextPreserves` has one step per action.

**Refinement.** `VerdictIsTop` shows that the verdict of the code is the top of
the demands, `DecisionRefines` that each step changes the demands as
`PumpPromise` allows, `StepRefines` collects the actions.

**`Control`.** The bounds are not inductive: a heartbeat in time says nothing of
the next one. `TimesInOrder` orders the stamps of a tick: the sample follows the
last feed, becomes the heartbeat before the next feed, and the clock cannot leave
the last feed behind by more than a timeout; so the heartbeat is at most one
timeout older than the feed. `OverrideNotDue` and `RelayDue` measure overrides and
glitches against heartbeat and feed in the same way. `ReadComes` follows flags that
contradict the thresholds: the next read is planned at most a period after the
change, or under way, and the tick that carries it begins in time. `SeenThenRead`
says what the lock hides: the state is the one last seen, or that one after
`ctl_sensor` under some thresholds. With it each step under the lock is one call of
`PumpLogic`, whose stamps are in order because of `TimesInOrder`. `FailuresTell` is
kept both for the state and for the one last seen.

**`Counters`.** What a call counts, negative or not, is exactly what the lengths of
the runs grow by (`RunGrows`), whether it switches the pump, cuts a run at a stamp of
0 or starts a day; that wrapping at every call or once at the end gives the same
(`WrapSum`) is the uniqueness of the remainder.

`RuntimeNearPumping` follows from `NearInv`, which bounds the error the counter will
have once an exact call has counted up to the clock. A stale call while the pump runs
counts too little and leaves as much to the next one, so it changes nothing; a stale
start wins its lag, and a stale stop loses its own. A call with the stamp 0 counts
nothing and makes the next one count nothing, which can happen only before any error.

`StoredIsRunTime` needs to know how far below zero the run time of a day can get. A
bound in terms of `now` is not inductive: a stale tick after a stale tick would
lower it again. `RuntimeWithinStamps` says it in terms of the oldest stamp still to
come: a tick takes back at most what was counted after its sample, and once it is
done the next sample is as new as the clock. A negative number then wraps to one
within the uptime of the counters' width, which no day is long.

**`Settings`.** `IInv` adds that the request's copy, the RAM copy and what a
reboot would load agree wherever no save is due.

**`App`.** `OneConnection` says when a step that changes one connection keeps `IInv`:
it begins no second handler, and the slide follows it (`SlideFollows`: locked with
the first command, freed with its end). `Advances`, `AskPreserves` and `LetGo` bring
handlers, new requests and answers into its form. `BusyWithOne` needs `DragIsFree`:
the end of a drag that nothing raced finds no command under way. `OwnAnswer` needs
more than the answer: between a command and its copy nobody else begins an override
(`ActedShows`), since ticks only end them and other handlers wait. `KeepsPolling`
follows a poll through the stages of its handler, restarts included, to the answer or
failure that sets the timer.

**Rings.** The invariants say that the head follows the count until the ring is
full. `PublishMoves` and `AddWritesOneSlot` say that an addition writes the one
slot the new list begins with and that every older item is found one place
further on; the rest is arithmetic modulo the size, in lemmas of its own. The list
alone would not tell *which* item an addition added, since the abstract step may
choose one; the history variable `given`, shared by both levels, ties it to the
caller's. `Events` and `Sampling` then take steps of the ring, or leave it alone.

**`Events`.** `LogTellsState` speaks of a free lock only, and says nothing of a call
that has published half of its events. `LogWillTell` holds at every step: what is
still unsent announces the state as it is, and a flag that nothing unsent announces
is already told by the ring. A decision establishes it because it announces exactly
the flags that changed; a publication moves one announcement from the one side to
the other; a full ring may drop the only event of a type, after which it promises
nothing of that type. `RetainedTellsPump` needs the same of the document that is
built but not sent (`DocumentTellsPump`), and that nothing of this boot is on its
way before the client was started (`OnlyOnceStarted`): the signal given to a client
that does not run yet is lost, but then there is no document to be wrong.

**`Sampling`.** Where a sample is drawn depends on all stamps before it.
`Schedule` bounds each step of the loop by the moment it became possible (`Possible`:
the read that is due or, if a late tick has passed it already, the end of that tick),
and that by the sample that is due; `Longer` is the greater of the two ways a read can
come late. `Spacing` says of each sample kept that its distance from the last stamp is
at least as many periods as there are samples between, and exceeds that by at most
`Slack` for each. A new sample shifts the ring by one and adds one such distance.

**`TempSensor`.** `SwapIsFound` counts calls, the driver counts failures, and
failures of the sensor before the swap are in the same counter. `SwapProgress` ties
them: while the driver asks an address that is not the one on the bus, every call
the new sensor would have answered is a failure, so the scan is as near as the calls
are many. `DriverNotAhead` is inductive with the types, and gives
`SwapPassesFailSafe` for the step that adopts another address.

Model-checked only: `FeedCatchesUp`, which is liveness under fairness, the four
violated properties, and the tightness of the bounds. Every other property of the
runs is a theorem. The inductive invariants of `App` and `Sampling` (`IInv`) and of
`TempSensor` (`SensorInv`) hold in the runs `app`, `sampling` and `temp_sensor` too,
when they are added to their configurations.

## Disagreements with the text

* `control.h:35` says a threshold change is "applied on the next decision
  (immediately)". The notified tick runs `ctl_decide` alone, which compares no
  temperature with `start` or `critical`: the flags change at the next sensor
  read, up to `CONTROL_READ_PERIOD_S` later, and not while reads fail
  (`control_next_decision`). `ThresholdsInForce` gives the bound that does hold.
* `control.h:12` says `runtime_today_s` counts "since boot" before the clock is
  synchronised. A command that takes the lock between the task's sample and its
  lock counts up to a later stamp; the next interval is negative and is cast to
  `uint32_t`. If that happens right after the pump started, the run time of the
  day is just below 2^32 until the sum comes back (`counters_uptime`).
  `RuntimeIsRunLengths` shows that the error cancels at the next tick, and
  `StoredIsRunTime` that the server stores no such run time.
* `config.h:44` says of the retained document that "a state change republishes at
  once". A change that switches nothing publishes no event. In `events_reason` a
  document is built at boot, a manual stop is commanded while the pump stands, and
  the document is sent: override and reason went from `auto_cold` to `manual_off`,
  and the broker keeps `auto_cold` until the period is over. A manual start of a
  running pump, and a maintenance run that goes over into heating, are as silent.
  `RetainedTellsPump` is what does hold.
* `events.c:79` sends no notice of a switch to the fail-safe, because "the error
  topic already has it". It has the failure of the sensor. In `notices` the sensor
  fails, the pump is stopped by hand, which is announced, and a command sends it
  back to auto: it starts again for the same failure and no topic says so. A stop
  that runs out ends the same way. `events.h:29` promises a notification of every
  pump change.

## Observations

* `control_alive` allows the heartbeat 15 s, but its age can reach 20 s
  (`HeartbeatFresh` with the 10 s watchdog): a live task can be called dead.
* A manual stop outranks the sensor fail-safe for its whole duration
  (`BlindPumpRuns` excludes it, `ManualStopHolds` shows nothing shortens it).
* A stop cancelled by an overheat always switches the pump on, so the event
  branch for a cancelled override without a switch is dead code.
* The page remembers the marker before it loads the events. When that load fails
  the list stays old until the document changes again, with no banner
  (`app.html:371` leaves that to the status, whose poll may have succeeded).
* A sensor failure or overheat that comes and goes between two polls leaves the
  marker as it was: its events appear only with the next change.
* A stepper adds its step to the thresholds last shown: two quick clicks send the
  same value. The slide asks for the opposite of what is shown when it ends, which
  may not be what was shown when it began.
* Thresholds change only in handlers, which run one at a time, so an HTTP document
  cannot mix them with decisions of another moment. The MQTT task builds the same
  document outside httpd, in two reads, so the retained one can; and new thresholds
  by themselves signal no publication.
* `canStart` (`app.html:230`) is asked when a drag of the slide begins, and
  `onFire` (`app.html:231`) does not ask again. When "Back to auto" is tapped during
  the drag (`app.html:460`), two commands are under way, and the answer to the first
  frees the slide under the second (`BusyWithOne` without its condition on `raced`
  fails).
* `README.md:38` calls the control task the only code that touches the relay;
  `control_manual` decides, and switches it, in the HTTP task.
* The ingest rejects a document whose run time exceeds two days, so a board whose
  clock was not synchronised for that long loses its samples.
* `events.c:93` announces a failed sensor with "pump on as a fail-safe"; during a
  manual stop the pump stays off, since the stop outranks the fail-safe.
* `history.h:9` promises "One sample per HISTORY_PERIOD_S". The next sample is due
  a period after the stamp of the last, taken after the conversion, and only a
  tick with a read can take it: when the conversion crosses a second, a sample
  comes up to a read period late, and the delays add up over the ring
  (`DrawnDrift` is the bound).
* After a failed save the thresholds hold until the next reset only
  (`UnsavedIsKnown`).

## Not modelled

Wi-Fi, MQTT transport, the delivery of notifications, firmware update and
rollback, health check and authentication live in the external component
`home-idf`, whose source is not in the repository: what `main.c` does for them is
to fill in configurations. The migrator switches the pump on and calls the same
component. The scripts are file I/O. Of `api.c` the chunks a history is streamed
in and malformed bodies, which change nothing, are left out; of `app.html`
drawing, login and the update and restart buttons; of the ingest the handling of
retained and repeated messages, one condition and one key of the schema in front
of the external `hcdata`. `PROJECT.json` gives the reason for each component.

## Plan

1. An abstract specification of the retained state, for which `RetainedTellsPump`
   is the refinement, and a proof of `Notices` with the case it violates excluded.
2. The chunks of the history document: no item is cut at the end of the buffer.
