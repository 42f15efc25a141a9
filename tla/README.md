# Verification of PSX/XP Mover

TLA+ models, model-checking runs and machine-checked proofs for the X-Plane plugin
*PSX/XP Mover*, which moves X-Plane's aircraft to the position that the simulator
PSX sends over TCP. The source is C11 under `src/src/`; line numbers below are those
of the commit this directory is kept beside. `PROJECT.json` is the same inventory
for machines: components, runs, the source lines every definition stands for,
hazards, findings and theorems.

## The system

Two threads share one process:

- **X-Plane's main thread** calls `XPluginEnable` and `XPluginDisable`, the accessors of
  the exposed datarefs, and `flight_loop_callback` once per rendered frame. It must
  never be held up: while it is in the plugin, X-Plane stands still.
- **The connection thread** of the one `psx_client_t` runs `run_connection_loop`:
  connect, receive, cut the stream into lines, call back, close, sleep 2 s, again.

| component | state | operations | what makes it correct |
|---|---|---|---|
| interpolator (`interpolation.c`) | ring of 8 key frames, `frames_start`, `num_frames`; a timestamp is only the milliseconds of a second | create, reset, maintain, add_point, calculate | the ring is the window of the most recent points; neighbours are relatable; a query returns the value on the timeline or NAN; nothing outdated is replayed |
| PSX client (`psx.c`, `network.c`) | client struct, `should_shutdown`, thread, address list, socket | create, destroy, connection loop | no leak, callbacks in order, thread gone before its client, destroy returns, lost connections are retried |
| line reader (`psx.c`) | receive buffer, line buffer and cursor, `had_carriage_return` | per received byte | the same lines however the stream is cut; nothing written behind a buffer; no line kept back |
| boost frame and number parsing (`psx.c`, `utils.c`) | none | per line and field | exactly the frames are accepted, with the values sent |
| C11 threads for macOS (`threads_macos_compat.c`) | a wrapper per thread on the heap | `thrd_create`, `wrap_thread_func`, `thrd_join` | behaves as C11 threads; wrappers freed once and never used after |
| plugin life cycle and hosts (`plugin.c`) | `psx_client`, host and port, `connection_established`, mutex, interpolators, probe | enable with rollback, disable, change of host with restore | what a failed step leaves behind, truth of the connection datarefs |
| host name and port datarefs (`plugin.c`, `network.c`) | `connection_hostname`, `connection_port` | write of a portion, validation, exchange of clients | client and datarefs agree; no mix of two names |
| shared frame (`plugin.c`) | `boost_frame`, `boost_frame_applied`, six interpolators, under `boost_frame_mutex` | callbacks, snapshot of the flight loop | all channels of a pose belong together and to one connection; every frame is applied |
| frame history (`plugin.c`) | ring of 154 frames, index, count; cleared under the mutex, used without it | record, clear, search by age | oldest suitable frame with its true age, whatever a concurrent clear does |
| clock difference (`plugin.c`) | ring of 770 differences, average, time source | part of the frame callback, flight loop, dataref | the average is a difference of clocks, of the source in use |
| flight loop computations (`plugin.c`) | ground contact and blending fractions, terrain elevation and its expiry, flags | one cycle | blending settles in time, terrain expires, injecting and calculating back |
| exposed datarefs, logger, sockets | registrations; two levels; descriptors | | |

Interactions: the client calls `on_psx_connected`, `on_psx_disconnected` and
`on_boost_frame_received` on its own thread; these take `boost_frame_mutex`, which
the flight loop takes too. The main thread joins the connection thread inside
`destroy_psx_client`, without holding that mutex. `connection_established`,
`should_shutdown`, `num_previous_boost_frames`, `interpolation_time_source`,
`average_psx_time_difference` and the ring of blending fractions are shared without
a lock, at least on one side.

What is hard here: the interleaving of callbacks with flight loop, host change and
disable; shutdown arriving between any two steps of the connection thread; failing
steps in the middle of enable, disable and host change; arithmetic modulo a second
on rings that wrap; a byte stream cut anywhere; and liveness of a main thread that joins.

## Modules

| module | models |
|---|---|
| `KeyFrameWindow` | abstract: a sequence of the most recent data points, emptied when a gap is too long, and what an interpolated value is |
| `Interpolator` | `interpolation.c`: the ring, its functions, the walk of `interpolator_calculate`; refines `KeyFrameWindow` |
| `InterpolatorTimeline` | extends `Interpolator`: between the callback that fills it and the flight loop that reads it, on an absolute clock the code does not have |
| `PsxSession` | abstract: the order of callbacks an owner of a client may rely on |
| `PsxClient` | `psx.c` and `connect_tcp_client`: owner and connection thread, one action per call that can block or fail; refines `PsxSession` |
| `C11Threads` | abstract: what creating and joining a thread promises |
| `ThreadsMacos` | the wrapper of a thread between creator, thread and joiner; refines `C11Threads` |
| `ClientThreads` | composes `PsxClient` and `ThreadsMacos`: the client as it runs on macOS |
| `LineStream` | abstract: lines are delivered as sent, in order, until one is refused |
| `LineReader` | the inner loop of `run_connection_loop`, byte by byte; refines `LineStream` |
| `BoostFrame` | `psx_parse_boost_frame` and the number parsers, as operators, and a definition of a frame that does not scan |
| `Reception` | composes `LineReader` and `BoostFrame` as the plugin does, or as `manualtest_psx_parse` does without a reader |
| `Mover` | `plugin.c` composed with an instance of `PsxClient`, whose callback steps get their bodies |
| `ClockOffset` | the estimated clock difference and both time sources, with their unlocked accesses |
| `FrameHistory` | the ring of recorded frames, the search by age one access at a time, and its reset in between |
| `FlightLoop` | what a cycle computes: contact, blending, terrain, suspension, calculating back; the ring of fractions one access at a time |
| `HostnameDataref` | writes to the host name and port datarefs |
| `*Proofs` | theorems about the module named before it; `InterpolatorProofs` has `InterpolatorTimeline` too, `ClientThreadsProofs` and `ReceptionProofs` both modules that `ClientThreads` and `Reception` compose |
| `MC*` | constants for TLC; each header says why they suffice |

Definitions keep the names of the source where they are C functions or variables.
In `Interpolator` a ring slot is `frames[Slot(i)]` for the i-th oldest frame; `Gap` is
`time_between_frames`. In `PsxClient` the variable `thread` is the program counter of
`run_connection_loop`, `owner = "joining"` is the main thread inside `thrd_join`, and
`told` and `late_connections` are history variables. In `ClientThreads` the actions of
the owner and of the thread conjoin a step of each of the two composed modules, or let
one of them stutter. In `Mover`, `main` is the program counter of the main thread and
`callback` that of the connection thread inside a callback; `channel` walks the six
interpolated fields (any two may disagree, so two are checked); a frame is a number and
the number of its connection. In `FrameHistory` a frame carries the absolute time it was
sent at, in `ClockOffset` a record the offset and latency behind it: the code knows
neither, the properties compare with them.

An operator marked *mutant* is a wrong version of the definition that follows it;
`PROJECT.json` pairs it with the property that catches it. The type invariant `TypeOK`
(`ThreadsTypeOK` in `ThreadsMacos`) of each concrete module is part of a proved theorem or,
in `ClockOffset` and `FrameHistory`, of the invariant of its proofs; no run spends time on it.

### Abstractions

- Values in `Interpolator` are integers or one that is not finite, queries whole
  milliseconds, results exact fractions. `dlimit` clamps rounding errors, which do not
  exist here. Timestamps are 0..999, as PSX sends them; `parse_int` checks no range.
- In `Mover` an interpolator is its window, which is what `ImplementsWindow` justifies.
  The gap before a frame is chosen once for all channels, and so is the queried time,
  because all of them get the same timestamps in the code. Received values are finite.
- Unsynchronised variables are read and written in separate steps, except where the C
  statement reads and writes in one go and nothing else writes. The steps come in program
  order: a compiler that moves such accesses around is not modelled.
- In `PsxClient` a create that fails leaves nothing behind (`psx.c`, 274-285), so failing
  is a step of the caller only; `ClientThreads` has the steps of a create that fails in
  the thread layer. Interpolators of a failed enable are freed by its rollback.
- `LineReader`: PSX ends all lines of a connection with CR LF or all with LF. What the
  parser makes of a line is the set `BoostLines`, which `Reception` replaces by the parser.
- `BoostFrame`: integers have few bits, and a number outside of its type converts to any
  value of it, as C leaves it undefined. A coordinate's value is its text.
- `FrameHistory`: between two frames X-Plane takes lies less than a second, without which
  no sum of milliseconds is an age. Frames left by an earlier connection may get any age.
- `FlightLoop`: fractions are multiples of 1/`UNIT`, the speed that results from two frames
  is chosen, geometry is left out, and so is a lost `boost_frame_mutex` (in `Mover`).
  `psx_elevation` is kept for the cycle that wrote it only.
- `HostnameDataref` has one step per write, as all of it is on the main thread, while the
  plugin is enabled. Characters are classes; names have up to 4 of them.
- `ThreadsMacos`: one thread joins a thread, once, as in `psx.c`.
- Calls into X-Plane do what the SDK documents. The name lookup, `connect` and `recv`
  may return any outcome at any time.

## Runs

| run | question | distinct states |
|---|---|---|
| `InterpolatorTimeline` | refinement of the window, relatable gaps, calculation for every query, no replay and availability for silences up to the second minus the limit | 445,383 |
| `ClientThreads` | client and thread layer: leaks, ownership, refinement of session and of C11 threads, destroy returns, reconnects | 164,243 |
| `Mover` | shared frame and history with any one failing call, two connections, three frames | 1,530,311 |
| `MoverFaults` | two hosts, one failure of the plugin's own calls: restart, restored client, datarefs, resources, liveness | 333,867 |
| `ClockOffset` | exact differences, compensated queries, settling on a time source | 371,214 |
| `FrameHistory` | the search against a reference on absolute time, the pointer into the ring | 3,177,499 |
| `Reception` | line stream for every cutting, every text of up to 7 characters through the parser | 775,410 |
| `FlightLoop` | blending settles, terrain expires, injecting and calculating back | 10,243,096 |
| `Hostname` | client and datarefs agree, no mix of names | 404 |
| `InterpolatorStalled` | *violated*: one millisecond more of silence | |
| `MoverRestart`, `ClockBehind` | *violated*: see findings | |

Bounds. A ring of 3 slots and a second of 10 units with a limit of 4 has every case of 8,
1000 and 499: a ring that is not full, full, wrapped, dropped from or reset off its start,
gaps below the limit, at it and above, and a full ring that spans more than half of a
second. The absolute clock runs over two seconds and enters a third, which is when a
replay happens. Two addresses, two lines per chunk and two hosts let one fail before
another succeeds; three threads are two changes of client. `MaxFrames` and
`MaxConnections` only bound what PSX sends: three frames overflow a window and a history
of two, two connections leave data of the first to the second. `MaxFaults` bounds failures
of `plugin.c`'s own calls; those of the client are unbounded. `ClockOffset` has a second
of 8 units and a ring of 2. In `FrameHistory` a second of 10, ages of 8 to 15 and a ring
of 4 frames at least 4 apart keep the proportions of 1000, 800 to 1500 and 154 frames at
77 per second: a full ring just exceeds the maximum age. In `Reception` a receive buffer
of 3 and lines of up to 8 cut a line, its terminator and two lines in every way, and
integers of 4 and 5 bits with a parsing buffer of 3 have numbers in range, out of range
and too long. `FlightLoop` averages 2 fractions of halves with one cycle until ground
contact counts: with two slots a record or an average can meet the clearing of the ring
before and after its own slot, and resets may follow one another within a cycle. The
terrain expires after one more cycle. In `Hostname` each name is shorter than, as long as,
part of or longer than another.

Deadlock is checked except where the system really may stop: in `InterpolatorTimeline`
and `InterpolatorStalled` the clock ends, in `ClientThreads` no thread is left to create,
in `Reception` the test or what PSX sends is over, and in `Mover` the plugin stops for
good if its enabling is refused or its client could not be destroyed.

Fairness. `PsxClient` and `ClientThreads` take the connection thread as weakly fair, which
includes that name lookup, `connect` and `recv` return: the code sets no timeout and
leaves this to the network stack and to PSX, which sends continuously. Joining is fair,
creating and destroying are not required. `Mover!FairSpec` adds a main thread that goes on
once it is inside the plugin, strong fairness for its lock, since the connection thread
waits for the network between two callbacks and cannot take the mutex each time just
before, and strong fairness for the flight loop, which X-Plane calls between any dataref
writes. `ClockOffset!FairSpec` is the same for its parts, with strong fairness also for
the callback's lock: it may fail, but not for ever.

### What the properties say

- `NoReplay`, `PlaybackAvailable`: a boost frame carries the time it was sent as its
  value, so "the right position" is just the queried time. `NoReplay` covers frames of
  another second, another connection and wrong pairs.
- `CalculationOnTimeline` compares the walk of `interpolator_calculate` with a definition
  that knows the distance of every frame from the latest one.
- `PoseConsistent`, `InterpolatorsAgree`, `PoseWithinConnection`: no torn or mixed pose.
- `HistoryInOrder` survives the unlocked read-modify-write in `record_boost_frame`.
- `EstablishedAccurate`, `ReportedHost`, `CallbackHasResources`, `RestartPossible` and
  `ClientRestored` relate the main thread's variables to what the connection thread is
  doing, through rollback, restore and failure.
- `ShutdownIsPrompt`: `should_shutdown` is not read between sleeping and announcing a
  connection, so one late connection is possible and two are not.
- `ThreadRunsItsClient` relates both composed modules: who runs the loop, or is about to,
  runs it with a client that was not freed, and no created thread is forgotten unjoined.
- `DiffsExact` holds for a local clock ahead by less than half a second; `QueryTrailsPsx`
  is what the estimate is for; `SettlesOnSource` survives the reads and writes of the time
  source between which it changes.
- `AgeAccurate`, `FindsOldest`, `ReferenceSurvives`: the search by milliseconds finds what
  a search by time would, and the pointer it returns is still good when it is used.
- `AcceptedExactly` compares the parser with a definition of a frame without scanning,
  for every text.
- `BlendingSettles`: a window of frames after contact was gained or lost, the average is
  on that side, whatever was cleared meanwhile. Clearing the slots and the index, reading
  the index, recording, advancing the index and each slot of the average are steps of
  their own. So the reset of the index may be lost to one that was read before, a fraction
  may go where the index was before the reset, and an average may be of a ring that is
  half cleared: none of this outlives a window of frames.

### Findings

1. `InterpolatorStalled`: when PSX stalls within a connection, the flight loop replays
   old motion once per second. `interpolation.h` (76-78) requires its callers to maintain
   or reset; nobody does (`plugin.c` 1200-1205, TODO in line 33).
2. `MoverRestart`: after a host change whose create and restore fail, disabling leaves
   host and port set, and every later enable is refused (`plugin.c` 1571-1575, 1496-1502,
   against the message in line 843).
3. `ClockBehind`: differences of -500 ms and less are wrapped, those above +500 ms are
   not, so for a local clock behind PSX the average is near 0 instead of negative
   (`plugin.c` 353-356, against line 267).

### Observations

Met while modelling, visible in the models, and not worth a run of their own:

- With interpolation on, the default, every cycle counts as new (`plugin.c` 1207): a zeroed
  or outdated frame is applied before the first one arrives, against the comment in 1504.
- A cleared ring of fractions averages to 0, flight (1016-1022): losing the connection
  moves an aircraft pinned to the ground to PSX's elevation in one cycle.
- `override_planepath` is set once, suspended or not, and never given back (1125-1132);
  the repository's README (199) says suspending re-enables the flight model.
- While suspended on the ground, the elevation calculated back is the terrain's, not
  PSX's (1406-1420, 1466): the offset is only computed in the transition.
- Knots are converted with a length and limited in meters per second (1261-1265).
- A host name of the full 256 characters is cut by one and connected to (890-896).

## Proofs

TLC checks small instances; the following hold for every value of the constants: any
number of key frames, recorded frames, differences, blending fractions, channels, hosts,
threads, addresses and lines, any length of the second and of both buffers, names of any
length, any set of failing calls. They rest on the named assumptions of the modules, each
as weak as the code allows: sizes are not 0, bounds are natural numbers, `NULL` and `NAN`
are no values of the program. A theorem that needs more names it in its statement:

| hypothesis | theorems | why |
|---|---|---|
| `SilenceShort` | `NothingReplayed`, `PlaybackGiven` | PSX sends once in a second; after that, milliseconds say nothing |
| `LookBacksRelatable` | `NothingReplayed` | no silence is so long that a query reaches the latest frame again in the next second; `InterpolatorStalled` is the run without it |
| `Ahead` | `RecordedDiffsExact`, `QueriesTrailPsx` | the clock is ahead by less than half a second, frames included; `ClockBehind` is the run without it |
| `StallsShort` | all of `FrameHistoryProofs` | between two frames X-Plane takes lies less than a second |
| `RingSpansMaxAge` | `ReferenceIsKept` | a full ring exceeds the maximum age: 154 frames at 77 per second against 1500 ms |
| `ClientCanBeDestroyed` | `EstablishedIsAccurate`, `CallbacksHaveResources`, `PluginCanRestart` | neither the join nor the lock in `destroy_psx_client` fails; if one does, `XPluginDisable` frees what the connection thread goes on using |
| `TypesHaveValues` | `FramesParsed`, of texts that are no frame | true of every width, but the provers cannot tell that a power of 2 is positive |
| `faults <= 1` | `ClientIsRestored`, `PluginCanRestart` | one failure of the plugin's own calls; with two, `MoverRestart` violates it |

What is proved, and along which argument:

- `InterpolatorProofs`: `InterpolatorTypeCorrect`, `NeighboursRelatable`. `TypeOK /\
  GapsRelatable` is inductive. The argument is about `interpolator_add_point`: slots of
  different frames are distinct (`SlotsDistinct`), and when the oldest frame is dropped all
  others move by one (`SlotAfterAdvance`), so the only new gap is the one to the new frame,
  which is less than the limit because maintenance came first and not 0 because of the
  duplicate check (`NewGapRelatable`). An index is at most one turn beyond the ring
  (`IpmodOfOneTurn`), which avoids division. The refinement `RingImplementsWindow` follows
  from where an added frame goes (`AddedBehind`, `AddedInPlace`).
  `CalculationIsOnTimeline` compares the walk with the distances of `KeyFrameWindow`: what
  is left of the age at a frame is the age less the frame's distance (`ToTargetIs`),
  distances grow strictly (`BehindOrder`), so the greatest candidate is the pair around the
  query (`FoundPair`), and the milliseconds since its older frame are exact (`SinceIs`)
  although the sum of gaps may exceed a second. For the timeline, `TimelineInv` puts each
  key frame at its place on the absolute clock (`OnTheClock`): distances become times
  (`BehindIsClock`), the age of a query is its true age or too long for a result
  (`AgeIsTime`), and what lies on a line through two points of a clock is the time itself
  (`LineOfClock`). `TimelineIsCallSequence` takes the theorems about an interpolator over.
- `ClientThreadsProofs`, the client: `ClientTypeCorrect`, `ResourcesReleased`,
  `ClientOutlivesThread`, `PromptShutdown` and the refinement `ClientImplementsSession`. The
  invariants are not inductive alone: `IInv` adds where in its loop a thread may be for the
  callback it made last (`SessionTold`), that a late connection can only be under way if
  none was announced yet (`LateConnections`), and that a joining owner has set
  `should_shutdown` (`OwnerJoins`). Each action preserves `IInv`, and `SessionStep` maps it
  to a step of `PsxSession` or a stutter. The thread layer: `WrappersFreedOnce` and the
  refinement `ThreadsImplementC11`; `WrappersInv` says for each place of creator, thread
  and joiner where the wrapper is and what it holds. Both together: `CompositionIsBoth`
  (each step of `ClientThreads` is a step or stutter of either, which needs `Linked`: which
  of the threads is the client's, and where it is), therefore `CompositionKeepsPromises`,
  and `ThreadsRunTheirClients`.
- `MoverProofs`: all safety properties of the `Mover` runs. Layers of an invariant, each
  inductive with the ones before it: `Control` (both program counters, the lock, the
  owner's join), `Bounded`, `Resources` (what there is while the plugin is enabled), `Data`
  (how far a callback that holds the mutex has got with copying a frame, resetting and
  adding); their conjunction `Core` gives `InterpolatorsInStep` and `PosesNeverTorn`.
  `HostOfClient` gives `DatarefsNameClient`; `Restored` counts the failures that what is
  missing took (`ClientIsRestored`); `ClientLife` and `Established` tie client and flag to
  the connection thread (`EstablishedIsAccurate`, `CallbacksHaveResources`,
  `PluginCanRestart`); `Connections` says of which connection the frames in interpolators
  and poses are, for as long as no lock failed (`PosesOfOneConnection`); `History` orders
  the recorded frames, also between the unlocked read and write of their number
  (`HistoryKeepsOrder`). `MoverTypeCorrect` types every variable, and `PluginDrivesClient`
  makes the plugin an owner in the sense of `PsxClient`.
- `FrameHistoryProofs`: `AgesAreAccurate`, `OldestIsFound`, `ReferenceIsKept`. Nothing in the
  ring tells where a connection ends, so `IInv` orders all slots, counted back from the
  newest, by connection and time, bounds the time between neighbours of one connection, and
  ties the walk's sum of differences to the clock (`WalkOK`); a concurrent clear changes the
  number of frames only, never their order.
- `ReceptionProofs`, the reader: `ReaderStaysInside` (the cursor is below the size of the
  buffer whenever a byte is processed, as a full buffer ends the connection first), the
  refinement `ReaderImplementsStream` and `NoLineWaits`, from `Reading`: line buffer, receive buffer and
  what is under way are together what is left of the lines that were sent.
  The parser: `FramesParsed` and `FramesAcceptedExactly`. Scanning and the definition meet in
  `BeginsField`: a place behind a separator with k - 1 of them before is where the k-th field
  begins, there is only one (`BeginsOnlyThere`), and the scan starts there (`FirstBegins`,
  `NextBegins`). A field is accepted exactly if it is one (`FieldParsed`); for integers because
  printing and converting are inverse on what PSX writes (`NumberAndDecimal`,
  `CanonicalPrinted`, `PrintedCanonical`), so comparing texts refuses all else, whatever
  was converted, and none lacks an answer (`FieldAnswered`). `Tells` carries this from the
  last field to the first. That the reader hands over nothing but text of a sent line is
  `CompletedIsAwaited`; what was proved of it alone holds beside the parser
  (`ReceptionReadsStream`), and the lines it hands on are those the parser made a frame of
  (`FramesHandedOn`).
- `FlightLoopProofs`: `FlightLoopTypeCorrect`, `BlendingEnds`, `TerrainIsRecent`,
  `ElevationIsTranslated`. `GroundRecorded` and `AirborneRecorded` count how many of the
  latest records are on one side, from where the next one goes once the index is advanced
  (`From`), which is the flight loop's local between reading and writing it. During a
  reset only the cycle that is already past its snapshot records; `ReadBeforeReset` says
  that a ring whose index it read too early is empty. `AverageSettles` carries this over
  the slots of the average, some of which may have been cleared since.
- `ClockOffsetProofs`: `RecordedDiffsExact` from `DiffIsExact`, the arithmetic: a difference
  modulo a second between -half and +half is the difference itself. `QueriesTrailPsx`: the
  mean lies between the least and the greatest record (`SettledMean`), and subtracting it
  modulo a second loses nothing (`SettledQuery`).
- `HostnameProofs`: `HostnameOfClient`, `WholeNamesRequested`. Strings are found by their
  first NUL; that there is one is a consequence of the place behind the name staying NUL
  (`PatchedIsString`), and a whole name has its own (`PaddedIsText`, `WholeNameCopied`).

The provers cannot instantiate an induction theorem. Where sums over a ring are needed,
the least number (`LeastOfNat`, from well-foundedness) or the least set for which a
statement would be false takes its place: that the function or fold that defines a sum
exists, and what bounds it. `ClockOffsetProofs` and `InterpolatorProofs` each have these
lemmas. In `ReceptionProofs` the same induction (`FromBelow`) shows that the recursive
functions that print, convert and parse exist (`PrintsExist`, `ValuesExist`, `RowsExist`)
and what they yield.

Only model-checked: liveness (`DestroyReturns`, `ReconnectsAfterLoss`, `MainThreadReturns`,
`FrameApplied`, `SettlesOnSource`), out of the prover's reach, as is ENABLED. The
properties of the *violated* runs are false.

## Not modelled, and why

- *Exposed datarefs and DataRefEditor registration*: a sequence of calls without decisions.
  What the accessors do that has control of its own is in `FlightLoop`, `ClockOffset` and
  `HostnameDataref`; whether they are registered in `Mover`.
- *Logger*: two levels and a mutex around one `fwrite`; nothing to state but assignments.
- *Platform sockets*: one call each.
- *C11 threads for Windows, mutexes and condition variables on macOS*: one call each;
  nothing uses the latter.
- *Geometry*: great circles, motion vector, camera offsets, and floating point rounding
  throughout; settings that are NaN or negative.
- `manualtest_psx_client`: owns a client as the plugin does and waits for a key.

## Plan

Done, most important first: interpolator and its timeline, client and session, composition,
then clocks, history, reception, flight loop, host names and the thread layer; each
refinement and each safety property of a passing run as a theorem. Left: a timeline with the
estimated clock difference in place of chosen look-backs, as a composition of
`InterpolatorTimeline` and `ClockOffset`.
