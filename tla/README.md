# A TLA+ model of AeroIST

AeroIST drives the wind tunnel measurements of IST: a Qt 4 program that sets
the channels of the tunnel (motor, angles alpha and beta), waits, reads every
instrument a number of times, and keeps the samples in tables that are plotted,
averaged and saved.  This directory holds TLA+ modules that model it, the TLC
configurations that check them and proofs for TLAPS.

## 1. The system

| component | state it keeps | operations | interacts with |
|---|---|---|---|
| Worker, `src/aeroist/measurethread.cpp` | settings copied from the model, `current`, `k`, `l`, `m_stop`, `man_control`, `man_hash` | `produce()`, slots `stop()` and `manual_control()`, `isReady()` | lives in a `QThread`; queued signals to the window, direct calls to the plugins |
| Main window, `src/aeroist/aeroistwindow.cpp` | `thread_status`, `m_test`, `m_thread`, `measurementThread`, `referenceThread`, modified flag, file name | start/stop button, new reference, manual button, delete, clear, save, load, close | owns lists, worker and thread; nested event loops in every dialog |
| Data, `measurementsmodel.cpp`, `referencemodel.cpp`, `data.cpp`, `measurelist.cpp`, `referencelist.cpp` | rows, settings, zero | `GetMeasure`, XML, CSV | receives `MeasureDone`; views |
| Dialogs, `measurementspreferences.cpp`, `referencepreferences.cpp`, `aeroistpreferences.cpp` | none after `accept`, but for what goes to QSettings | validate the settings, average the reference into the zero | fill a model, write the settings |
| Plugin manager, `pluginmanager.cpp`, `src/common` | loaded factories | ask the metas, make the hardware of a run, destroy it | worker, dialogs, plugins |
| Motor, `Variable_Motor` | set point, actual speed, terminal 37 | exchange with the SIMOREG drive, `set_value` loop | serial line |
| Alpha, Beta, Angles | encoder digits, angle | `set_value` positions with two relays and the encoder | Arduino board, kernel module or SSI converter |
| Arduino board, `arduino/relay/relay.ino`, `staticlibs/arduino-botoneira` | relays, multiplexer | eight byte commands and echoes | host plugins, one serial line |
| Pressure, Temperature | last reading | analogue read with retries | Arduino board |
| Force | calibration, voltmeter readings, zero, forces | `set_zero()`, `read()` with Newton's method | GPIB |
| Time, Virtual plugins, Arduino plugin | none of interest | | |
| Kernel modules | bytes of the counter, bytes of the display | open, read, write | Alpha, Beta |
| qserialdevice, `staticlibs/qserialdevice` | lock file, termios wanted and found, buffers, notifiers | open, close, setters, read, write, two blocking waits | Angles; other processes on the same port |

What is hard: two threads that talk by queued signals, processed at two points
of `produce()` and in every nested event loop of the window; objects deleted
while others hold their address; hardware calls and constructors that throw
anywhere; ends of sweeps; serial lines that lose or delay bytes; loops that wait
for a machine; slots that call the port again that called them; processes that
crash with a lock file in their hands; settings that are read at one moment and
used at another.  The `hazards` of `PROJECT.json` list these at the line where
they bite.

What makes each component correct:

- worker: rows are read at the points of the grid, whole groups, no channel
  moves inside a group, a stop ends it, a bounded run gives the rows that its
  settings and the sums of doubles make due;
- window: the status, the pointers and the thread tell the same story in every
  nested dialog, no worker is deleted while it runs, every row arrives once, the
  modified mark tells the truth;
- data: tables stay rectangular, a saved project is loaded as it was, the zero
  is that of its reference, every average is one of whole groups;
- plugins: a run gets the hardware its dialog accepted, its channels start and
  its sweep goes as that dialog showed, and nothing stays open behind it;
- axis: its relays are never on together, it ends where it was asked to and does
  not leave its limits by more than the overshoot;
- board: a command is executed or reported, a lost byte costs little;
- motor: no reply is taken for what it is not, the set point stays in range, the
  waiting loop ends;
- force: the forces read are those of the load beyond the reference;
- angles and encoder boards: what is read is a position that this encoder had,
  what is displayed is what was written;
- serial port: one user at a time, no lock without an owner, the device has the
  settings that the object reports (where it can know them) and gets its own back, every byte once and in
  order, notifications restored, waits that end.

## 2. The modules

| module | models | specification |
|---|---|---|
| `MeasureThread` | the worker, its queues in both directions, the exception path | `FairSpec` |
| `AeroISTWindow` (extends `MeasureThread`) | the main window, with the worker as the other process | `WindowSpec`, `WindowFairSpec` |
| `Project` | the models, their files, zeros and averages | `ProjectSpec` |
| `Plugins` | metas, settings, dialogs, the plugin manager | `PluginsSpec` |
| `RelayBoard` | what `set_relay()` promises | `Spec` (abstract) |
| `ArduinoLink` (implements `RelayBoard`) | firmware, host exchanges, the line byte by byte | `FairSpec` |
| `Axis` (extends `RelayBoard`) | `set_value()` of Alpha, Beta and Angles | `AxisFairSpec` |
| `AnglesLink` | `AnglesHardware` and its converter | `AnglesSpec` |
| `EncoderBoard` | the kernel module of Alpha and Beta | `BoardSpec` |
| `Force`, `Rational` | the balance, over exact fractions | `ForceSpec` |
| `Instruments` | `Plugins`, `Force`, `AnglesLink`, `EncoderBoard` together | `InstrumentsSpec` |
| `MotorDrive` | `MotorHardware`, the line and the drive | `DriveFairSpec` |
| `TTYLocker` | opening and closing a port by several processes | `LockSpec` |
| `SerialEngine` (extends `TTYLocker`) | the settings of the port | actions of `SerialPort` |
| `RingBuffer` | the buffer class, as operators | |
| `SerialPort` (extends `SerialEngine`) | reading, writing, waiting, notifying | `PortFairSpec` |
| `MC*` | constants for TLC | |
| `*_proofs` | theorems about `MeasureThread`, `AeroISTWindow`, `Project`, `Instruments`, `ArduinoLink`, `Axis`, `MotorDrive`, `SerialPort` | |

`PROJECT.json` ("map") gives the lines of every definition.

**MeasureThread.**  `pc` names the places of `produce()` where other threads can
be seen: `started`, `loop` (the channels are set, slots run), `read` (a sample
is read and posted), `events` (slots run, counters and ends are judged), and
`quit`, `failed`, `returned`, `ended` on the way out.  `inbox` is the queue of
slots, processed in order at the two `processEvents()` only; `outbox` is the
queue of signals to the GUI thread, with `finished` last.  Any hardware call
may throw (`Throw`), also in the middle of a loop over the channels
(`SetChannels`).  Values read are left out: a sample is its number.

A sweep adds doubles (`current = current + step`) and compares the sum with the
end.  The settings have one or two decimals, so the model counts `current` in the
decimals of its channel, which is what the sums are but for an error many orders
below the last decimal.  Such an error decides `current > end` in one case only: where the
decimals reach the end exactly.  There the sum may be a little past the end, as in
0.1 + 0.1 + 0.1 > 0.3, and the last point is lost, or not, as in 1 + 1 = 2.  Which of the
two it is depends on start, end and step alone, so it is a setting of the run:
`conf.exceeds`, either value of which `ConfsAssumption` allows.  `Past` uses it, `Due` is
the number of rows that it leaves, and SampledOnGrid speaks of the decimals of a
value.  The percentage is exact arithmetic.  The GUI thread is an
environment with as much freedom as its queues allow: it builds a worker and
starts it at once or later (`NewRun`), posts slots, takes signals in order
(`GuiTakes`), and deletes the worker with the `finished` it takes (`GuiDelete`).

**AeroISTWindow.**  A slot that opens a dialog is split there: `modal` is the
stack of the frames that wait in nested event loops, and what follows the
dialog in the code is the action that closes its frame.  Posted events are
taken in any frame; clicks only with the stack empty (a modal dialog blocks
them).  The pointers `m_test` and `m_thread` are `null`, `live` or (m_test)
`dangling`; deleting a dangling one ends in `app = "crashed"`.  `sink` is the
model that the signal MeasureDone is connected to, NULL when Qt has
disconnected a deleted one.  `WorkerEnvironment` says that a window, seen from its
worker, is the GUI thread of `MeasureThread`: every step of it is one of that
module, or changes nothing there.

**RelayBoard, ArduinoLink.**  The contract: a call switches its relay or not,
and returns "ok" only if it did.  `ArduinoLink` has two queues of bytes, the
firmware's reader that waits for `$`, seven further bytes, executes or ignores
a command, echoes or answers; and the host: `set_relay()` (one try of write and
read, compares the echo), the readings (six tries, compares three characters),
and the life of a pressure object, which switches the multiplexer.  Bytes may
be lost in both directions, `MaxLost` times.  `RelayContract` is the refinement:
`RelayBoard!Spec` under the mapping of `op` and `returned`.

**Axis.**  The loop: first read, upwards while below, downwards while above
(judged by the read inside `increase()`), settle, until near.  Relays are
switched through `RelayBoard`, so that a call may throw having switched or not.
The axis turns up to `Slew` between two reads while a relay is on and up to
`Coast` while one is switched.  After an exception a relay may stay on
(`Drift`).

**MotorDrive.**  `talk_to_simoreg()` is Send, then Receive, Retry or
ReceiveFails.  A frame carries its word, how many of its bytes were altered, and
whether it was cut: the xor detects one altered byte for certain, two may cancel
out.  Set points are in a small unit, and `speed_actual` in 1/Full of it, so
that both are whole.  The drive turns one step at a time towards the
set point it took, or coasts with terminal 37 off.

**Project.**  A model is a record of its settings and two tables, one column each
per variable.  A file holds, by tag, its elements in the order they were written,
each a record of its contents by tag, which the loader asks for by tag; `Number`
rounds as the text with 10 or 15 digits does.  `taken` (history) remembers for
each measurement what its reference was when the zero was taken, `saved` what the
lists were when the file was written.  Settings that are saved in full (names,
control, iterations, and end and step, which have two decimals and fit in six
digits) are copied; the settling time goes through `toInt()`.

**Plugins.**  A factory is a record of what its meta says: the general name, the
channels with their ranges, what is controlable and what has a zero.  `stored`
is QSettings; the preferences write it, and the dialogs of references and
measurements make a model (`reference`, `measurement`) of what they show.
`getListVariableHardware()` is one step per factory, whose constructor leaves
some of its devices open or throws with some of them open; `open` is the set of
devices that are open, by run, plugin and device.  After `Restart` only the
settings remain.  A dialog has one row per controlable channel; `StartSpins` is what
the spin boxes of the start values may show (those of all rows are enabled), `Starts`
what `accept()` makes of it, by name, where the last row of a name stays.  Names may
be shared.

**AnglesLink.**  The constructor sets the two channels of the converter up and does
not look at its answers; `read()` asks one encoder after the other, each with a
wait that may run out, and begins again until both have answered or it gives
up.  The converter answers, refuses, answers late or in two pieces, or not at
all.  Numbers in Gray code are sets of bits.

**EncoderBoard.**  A read takes the bytes one by one while the axis may turn; the
display takes two bytes packed from the digits of a number.

**Force.**  `set_zero()` and `read()` with the passes of Newton's method, the Jacobian
as the code computes it (a mixed term is always multiplied by the second force)
and the inversion with its pivots.  Doubles are fractions (`Rational`), so that a
result is equal to what it should be or is not.  A balance is given with the inverse
of its linear part, if that has one: `ForcesTrue` speaks of the calibrations for which
the product of the two is the identity (`IsRegular`) and there is no quadratic part, and
of the reference for all of them.

**Instruments** puts these four in one behaviour space: they share no state, so
that one of them moves in each behaviour.

**TTYLocker.**  Each process has its place in `open()` or `close()`: the check of the
lock file, the open of the device, the lock (truncate, write the pid), the
exclusive flag.  Any system call may fail, any process may crash between two
steps; a file that holds the pid of a dead process is `Stale`.  `overlapped`
remembers that two calls have overlapped.

**SerialEngine.**  A termios is a speed, a character size and a set of flags: on Linux
`cfsetispeed()` and `cfsetospeed()` set the same bits, so that a rate for one
direction changes both.  A custom rate is a divisor of the driver that `setCustomRate()`
sets beside the termios, which keeps its speed; nobody reads it back and `close()` does not
restore it, so that the divisor is left out.  The
engine changes the termios it wants (`cur`), then asks the device, which may
refuse; `rep` is what the object reports.  Setters are modelled with their order
of the two, so that a change that was refused stays in `cur`.

**RingBuffer** keeps the blocks, head, tail and size of the class and defines
`reserve`, `free`, `chop`, `read`, `write`, `getChar`, `ungetChar`, `indexOf`,
`canReadLine` and `readLine` on them.  A loop of the class is a recursive function over
the rings that fit their blocks (`Rings`, `While`).

**SerialPort.**  `port` holds the fields of the object, `stack` the calls that are in
progress: a slot connected to `readyRead()` or `bytesWritten()` may call the
port again, a wait emits them inside itself.  The driver is a queue `rx` and the
count of bytes it accepts; the device may be unplugged, and what the driver holds
is then lost.  A case of `Cases` says
what the user does in a behaviour, so that every feature is met with the
others it interacts with.

## 3. The runs

| run | bounds | what it shows |
|---|---|---|
| MeasureThread | two channels, seven kinds of run (up with a step that does not divide, down, one point, up and down in tenths whose sums exceed the end, bounded, endless), groups of 1 to 3, queues of 2 | `SampledOnGrid`, `WholeGroups`, `GroupsKept` (one setting per group, a stop completes it), `RowCount` (never more rows than are due, all of them when the bar is full), `ManualHeld`, `ProgressForward`, `BoundedRunEnds` |
| MeasureThreadUnsafe | three short runs | violation: a failed run leaves the motor turning |
| Window | two measurements, one reference, one row each, queues of 1 and 2 | `StatusShown` (status, worker, pointers and Stop button agree), `CleanMeansSaved`, `WorkerEnvironment` (the window behaves as `MeasureThread` supposes, and pulls no worker from under a thread that uses it), `AllRowsDelivered` |
| WindowStop | one measurement without end | `StopEnds`, `ErrorReported` under any nesting of dialogs |
| WindowClear | one measurement | violation: Clear deletes the running measurement |
| ArduinoLink | two relays, one analogue pin, two multiplexer channels, three retries, two lost bytes | `RelayContract` (refinement of `RelayBoard`), `LossTolerance`, `ChannelSelected` (the channel that the object wants, and enabled), `ExchangeEnds` |
| Axis | limit 5, precision 3, slew 2, coast 1 | `RelaysExclusive`, `Arrived`, `TravelBounded` (limits and homing), `SetValueEnds` |
| MotorDrive | full speed 4, 100% = 8 units, precision 2, one retry, two faults, set points -4, 0, 3, 8, 33 | `CallsTrue`, `SpeedTrue`, `SetValueEnds` |
| Project | two references of one row, one measurement of three rows, groups of 1 and 2 | `TablesKept` (rectangular, round trip), `ZeroOfReference`, `AveragesAgree` |
| Serial | two processes, one of them in full; blocks of 2 bytes, 3 bytes each way, calls nested 3 deep, two setters | `LockHolds`, `SettingsKept`, `BytesKept`, `MutedByWaitOnly`, `WaitEnds`, `WriteDrains` |
| Instruments | six installations, three dialogs, one start value changed in each, two runs; three channels; two positions, three tries, one late or cut answer, two reads; six positions and fourteen numbers | `AsAccepted`, `StartsAsShown`, `OnlyThrownOpen`, `ForcesTrue`, `EncodersTrue`, `AnglesReadEnds` |
| ForceNewton | one channel, R = 2 F + F^2, three passes | violation: the iteration stops before it has converged |

Why the bounds are enough.  A run of the worker depends on its settings through
the comparisons with the end, the group and the iterations; the seven runs reach
each of them from both sides, and the properties that depend on the numbers are
proved for all of them.  Two queued slots are needed for "the last one wins", two
events for a sample followed by `finished`.  Two measurements are needed for a
selection to move when one is deleted; the worker takes one at a time.  Two lost
bytes reach the second command after a loss, and with three retries (five in the
code) use up the tries of a reading, so that `LossTolerance` is met at its limit; with
four the contract of a relay no longer holds (section 4).  Two channels of the
multiplexer tell the one that was selected from one that was left selected.  The drive needs one retry to tell a first try from a
second, and the numbers of the real one are covered by the proofs.  In `Project`,
three rows give a whole group and the rest of one, or three groups; two references
give an order to be kept and a deletion before another one; the number of saves,
loads, deletions and runs is not bounded.

Serial is nine cases, six of transfers and three of opening.  Three bytes through
blocks of two fill one block and begin another, so that buffers grow, wrap and give
back blocks; depth three is a wait in a slot in a wait.  Bytes of both directions
are not both numerous in one case, since their paths only meet in the waits, where
one byte of the other direction is enough.  Two setters in a row, of any kind,
find the ways in which the report, the wish and the device can come apart, and two processes every race of the
lock; sequences of setters and more processes are what the proofs of `SettingsKept`
and `LockHolds` are for, as that of `MutedByWaitOnly` is for deeper nesting.

Instruments: two installations have two rows for Alpha or for Beta, as the default
build has for both: the row of Angles is the last in one and the first in the other; one
changed start value tells the rows of a name apart.  Three dialogs are the preferences, a reference and a measurement in
any order, and two runs reach a run after one whose constructor threw.  The
calibrations take every choice of three of four rows, among them singular ones
and those that need a pivot, and one with a quadratic part; their inverses are
computed from the cofactors, which `invert()` does not use.  One
late or cut answer is enough to shift the answers by one.  The shafts include
each carry from byte to byte and the bit above the third; the numbers of the
display include each sign and the borders of four digits.

Deadlock is checked in every run but three: in Project the user may stop
working at any time, in Instruments and ForceNewton a behaviour stops when its
bounds are used up.

### Fairness

- The worker thread is scheduled and its hardware calls return, or throw:
  `MeasureThread` and `AeroISTWindow`.  `MotorDrive` and `Axis` say when that is
  so for the two calls that loop.
- Some event loop of the GUI thread always runs, nested or not
  (`WF(PostedEvents)`): no handler blocks otherwise.  The user need not click.
- The line delivers what it does not lose, the board runs (`ArduinoLink`).
- An axis with a relay on turns (strong fairness, since reads may show it
  standing still).  `SetValueEnds` of Axis holds only before an exception, and
  for an axis that is slow against the precision: with precision 2, slew 2 and
  coast 1 it oscillates around the value for ever.
- The drive answers a telegram in time or not at all, and turns.
  `SetValueEnds` of MotorDrive holds for values in 0..100% and while terminal 37
  is on: otherwise the loop waits, as the code has no other way out.
- `select()` returns, as it has a timeout, and a slot of the program returns
  (strongly fair, since other calls may begin and end inside it).  A driver that
  is asked for room again and again grants some, and takes some of what is
  written: without it a line held by flow control would stop every write
  (`SerialPort`).
- The waits of `AnglesHardware` end, and the converter does something with each
  command, be it to lose it (`Instruments`).

### Findings

1. `SafeAfterAnyEnd`: after an exception `set_final()` is not called, although
   the comment in the catch block speaks of cleaning up; the motor keeps turning.
2. `RunningMeasureKept`: Clear Project and Load Project delete a running
   measurement, which Delete Measure refuses.
3. `StopsConverged`: `newton_method()` goes on while the residual is inside the
   tolerance, and stops when it is outside: one pass, whatever is left over.

Also seen, without a run:

- Worker: a sweep from 0 to 0.3 by 0.1 ends without its last point, since the sum
  of doubles passes 0.3 (`measurethread.cpp:119`, `129`); `RowCount` counts what is
  due by the sums, not by the decimals.
- Worker and window: the result of `MeasureThread::isReady()` is ignored, only
  its exception counts; `m_test` keeps its address after a failed start; a
  reference that is running has no Stop button.
- Data: a fractional settling time is saved as a decimal, refused by the schema
  (`aeroist.xsd:14`) and read back as 0.
- Plugins: `main.pro` builds Alpha, Beta and Angles, so that the names "Alpha" and
  "Beta" occur twice where `variable.h:11` wants them unique.  A sweep by the first
  of two rows starts at what the second one shows, with a step turned by what the
  first one shows, and may end after one point; `StartsAsShown` excepts it and says
  what holds otherwise.  A constructor that throws leaves open what
  it had opened, which `OnlyThrownOpen` excepts.  A dialog that is refused has
  already changed some settings.
- Motor: "give up after 5 tries" (`motor.cpp:285`, also `angles.cpp:240`) makes
  six; `convert_percentage` reads the word 0x8000 as +200% where its comment says
  -200%.
- Pressure: a reply cut before its end is taken (`pressure.cpp:280-282`), which is
  why `LossTolerance` speaks of replies without a loss.
- Angles: a late answer of one encoder is read as the other's; `EncodersTrue` says
  nothing after a late or cut answer.  The settings of the port are set before it
  is opened (`angles.cpp:191-194`), fail and are lost.
- Force: `calc_jacobi()` multiplies a mixed term by the second force in both
  columns.
- Kernel modules: a read of the counter while the axis turns may mix two
  positions (`angle.c:13`); `EncodersTrue` speaks of an axis that stands still.
- Serial port: mutual exclusion fails when two opens overlap between the check
  and the lock; a failed open after the lock leaks the descriptor and the lock;
  `waitForReadyRead()` of an unplugged device does not time out; with a limited
  read buffer, a nested wait that fills it makes the outer wait spin; `close()`
  writes one block of what is left and drops the rest; a failed setter's change
  is applied by the next one that succeeds; `setParity()` clears flags that
  belong to the error policy; a rate set for one direction changes both on Linux while
  the object reports two (`serialportengine_p_unix.cpp:1300`, `serialport.cpp:121-131`); a
  custom rate is reported though the device rounds it to a divisor, which a later
  standard rate and `close()` leave behind.  `LockHolds`, `WaitEnds` and `SettingsKept` except
  these cases by name.

## 4. The proofs

All are of the form `Spec => []Inv` or `Spec => [][A]_vars`, for all values of
the constants under the assumption that the module states.

**MeasureThread_proofs**, from `ConstantsAssumption`: what the dialogs leave in the
settings (positive groups, a step turned towards the end).  The properties are
not inductive: `SampledOnGrid` needs to know which value the channel was
commanded at each place of the loop, `WholeGroups` how `emitted`, `k` and `l` are
tied.  `IInv` = `TypeOK` and `CountingInv` (counters), `SweepInv` (the commanded
value is the point `k` of the grid), `ManualInv` (what is commanded in a free
run), `EndInv` (what each outcome left behind).  Theorems: `TypeCorrect`,
`Inductive`, `OnGrid`, `Whole`, `Manual`, and the action properties
`Uniform` and `StopLast`, which together are `KeepsGroups`.  The number of rows
needs products and quotients of variables: lemmas about the grid give, for a
sweep, that the point `k` is due iff `k` does not pass the quotient, or is less than it
where the doubles exceed an end that the decimals reach;
`BoundedInv` bounds the iterations by it, `FullInv` ties the percentage to what
was emitted, and `RowsCounted` proves `RowCount`.  `ProgressGoesOn` proves
`ProgressForward`: the percentage after `n` rows is one quotient, of a sweep up or
down and of a free run (`PercentageOf`), which the rows of a run never exceed
(`WithinRun`), and `ForwardInv` says that what is shown is not more than what the
rows so far amount to, until the last iteration sets it to 100.

**Axis_proofs**, from `AxisAssumption`.  `AxisInv` = `AxisTypeOK`, `CallInv` (which
call is under way at each place) and, until an exception, `RelayInv` (which
relay is on), `PlaceInv` (how far the axis can be from what was read) and
`TravelLimited`.  Theorems: `AxisTypeCorrect`, `AxisInductive`, `NeverBoth`,
`Arrives`, `Travel` and `HomingHolds`, together `TravelIsBounded`.

**MotorDrive_proofs**, from `DriveAssumption`, whose arithmetic part,
`Percent <= Full * Precision`, says that one step of the drive's word is not
coarser than the precision (100, 0x4000 and 0.1 in the program).  `DriveInv` =
`DriveTypeOK`, `TriesInv`, `LineInv` (a frame on its way to the host carries the
last answer), `HostInv` (what a finished exchange has done), `RangeInv`.
Theorems: `DriveTypeCorrect`, `DriveInductive`, `CallsAreTrue`, `ReachesSpeed` and
`NeverBeyond`, together `SpeedIsTrue`.

**AeroISTWindow_proofs**, from `ConstantsAssumption` and `WindowAssumption`.
Nothing of what the window shows is inductive alone: whether Stop is enabled
depends on which dialogs are open, which signals are queued and whether the model
has been deleted meanwhile.  `WindowInv` = `WindowTypeOK`, `DialogInv` (which
dialogs can be nested in which), `StatusInv` (the pointers and the thread at each
status), `OutboxInv` (`finished` is the last signal of a run, and a mark of
unsaved data follows each sample), `ModelInv` (the model of a run is the one it
was started for), `RowsInv` (the samples in the queue are, in order, those the
model lacks) and `CleanMeansSaved`.  Theorems: `WindowInvariant`, `ShowsStatus`,
`NothingToSave`, `RowsDelivered`, `NotPulled`, and `WindowIsEnvironment`: every
behaviour of window and worker is one of `MeasureThread` alone.  So the theorems
about the worker hold in the program, with dialogs, deletions and all; `RunsTrue`
states them there.

**ArduinoLink_proofs**, from `LinkAssumption` (relays, pins and multiplexer
channels are not named by `$` or the end of a line; readings are digits).
`LinkInv` = `LossTolerance` (an exchange that fails has cost losses: more than
half as many as the tries it made), `OpInv`, `LenInv` (a frame is written only
when the board has taken the last one), `SettledInv` (what it has not taken then
waits for more, or is no command), `TriesInv`, `JamInv` (without a loss no `$` is
on the line that the firmware would wait at for ever), `LineInv` (the line holds
at most seven bytes of former frames, then what remains of the last one) and
`CreditInv` (each lost byte spoils two tries at most: the one it belongs to and
the one whose start was taken for its rest).  Theorems: `LinkInvariant` and
`LossToleranceHolds`, for any number of losses; `ChannelKept`, as long as at most
two bytes have been lost; `ContractKept`, the refinement of `RelayBoard`, where at
most two can be lost.  Both limits say what the protocol gives: it has no check
sum, and with four losses a write cut after `$R0`, followed by a command for relay
1 that loses its first three bytes, switches relay 0.  `TwoLost` is the invariant
of these two: as long as two bytes at most are lost, every command that the board
executes is one that the host has sent in this exchange, and an echo is that of
the command.

**Project_proofs**, from `ProjectAssumption` (the settings that the dialogs make,
the digits of the texts).  `ProjectInv` = `ProjectTypeOK` (tables stay
rectangular), `RunningInv`, `ZerosInv` and `FileInv` (the file is what saving the
lists of that moment writes).  `ZeroOfReference` is not inductive, since a project
may be saved and loaded again and again: `ZerosInv` says that a zero is the one
that was taken or the text of it, and lemma `Rounding` that the text of a text is
the same, so that it drifts no further.  `TablesKept` needs that what loading
makes of the elements is what saving has made them of, and that the lists that
come back satisfy the invariant again.  `AveragesAgree` compares the groups of the
CSV export with those of a curve; the loop over the rows of a group is a recursive
function, which is shown to be defined, and to keep sum, least and greatest in
order, by induction over a set of numbers (lemma `Induction`).  Theorems:
`ProjectInvariant`, `TablesAreKept`, `ZeroIsOfReference`, `AveragesDoAgree`, for
any number of rows, groups and rounds of saving and loading.

**SerialPort_proofs**, from `ContentsDiffer` (the contents of the lock file can be
told apart), `RatesAssumption` (rates are positive, a custom rate is none of the standard ones),
`FoundAssumption` (the device is found with some termios), `MeIsProc` and, for the
bytes, `BlocksHoldBytes` (a block has two bytes or more; the code's have 16384),
`NewlineIsByte` and `SizesAreNumbers`.  Its four parts share one observation: each
step of the port is a step of the lock protocol or leaves the lock alone
(`PortLocks`).
That whoever has the port holds the lock is not inductive: `LockInv` adds
`OwnerInv` (a file with a living pid belongs to a process that is past its lock and
not yet past its removal, or that has leaked it) and `AloneInv` (until calls
overlap, whoever is in a call is alone in it, and an open port has its file and
the exclusive flag).  Theorems: `LockTypeCorrect`, `LockInductive`, `LockIsHeld` of
the protocol, `PortHoldsLock` of the whole object, for any set of processes and any
crashes.
`SettingsInv` adds to `LockInv` that, as long as no setter was refused and no calls
overlapped, whoever has the port wants what the device is set to, reports that and
will restore what was found, that nothing is open behind the back of the
processes, and that otherwise the device is as it was found; so the exclusion is
what keeps the settings, and each setter is shown to change the wanted termios and
the report alike (`SettersKeep`).  Theorem: `PortKeepsSettings`.
`NotifierInv` is about `canReadNotification()`, which is entered again from the slots
of `readyRead()` and from waits inside them and turns the notifier off when it is: a
port that is inside a notification, or whose notifier is off for that reason, has a
slot of `readyRead()` among its calls in progress, whose end turns it on again, since
the state it restores is "on" (`Restarts`).  It needs the shape of the stack: a slot
that a wait has caused lies on the frame of that wait, and `close()` on nothing
(`Shape`).  Theorem: `PortHearsInput`, for any depth of nesting.
`BytesInv` is about the two buffers.  The greater part of its proof is the algebra of
`RingBuffer`, for blocks of any size: the contents of a ring are its blocks one after
the other (`FlattenEnds`, `ByLast`), and `reserve()`, the copy into the room, `free()`,
`chop()`, `ungetChar()`, `append()` and the reads each do to the contents what they do
to a queue.  The loops are recursive functions; `LoopExists` shows that such a function
has a value and `LoopEnds` that a loop with a measure that falls ends in a state that
keeps what its turns keep, both from the well-foundedness of the numbers, and
`Chopping`, `Freeing` and `Looped` apply them.  `WellFormed` is not inductive.  A ring
must besides be like a new one when it is empty (`Sized`), and no block but the last
may be used up (`Solid`): with such a block at the front, `getChar()` would read past
its end.  That is where a block needs two bytes: `reserve()` cuts the last block to
its tail and appends another when the last is half full, which a block of one byte is
when `chop()` has left nothing in it.  `Whole` is these two
and that all bytes were written by somebody; `RingIsQueue` says that a whole ring is a
queue.  On top of that, `InHalf` (what the program has had, the buffer and the driver
are what arrived) and `OutHalf` (what was sent and the buffer are what was written, in
order, and all of it if nothing was dropped) are kept by every action, and a port that
is closed or unbuffered has empty buffers, which `open()` relies on.  Theorem:
`PortKeepsBytes`, which states `BytesKept` for any block size, limits, partial reads
and writes, depth of slots, resets, failures and crashes.

**Instruments_proofs**, for the plugins from `PluginsAssumption` and
`ChannelsAssumption` (each channel has its default inside its range, and a positive
step if it is controlable).
`NothingElseOpen` rests on `ListInv` and `OpenInv` (an open device belongs to the run
that is being made or to a constructor that threw); `HardwareAsAccepted` on
`ModelsInv` and `HardwareInv` (the list grows with the factories, and each entry
carries the settings of the model at the moment it was accepted);
`StartsShown` on `InstalledInv` and `SweepsInv` (the starts of a model are those of the
last rows, and the step of a sweep is turned by the start of its own row).
`StartsAsShown` is what `MeasureThread` assumes of its settings in `ConfsAssumption`:
the dialog provides what the theorems about the worker start from, for every
sweep by a row that is the last of its name.

For the encoders, from `AnglesAssumption` (positions are numbers of a word),
`NoPositionAssumption` (the value that stands for another text is none of theirs) and
`BoardAssumption` (shafts have 25 bits).  `GrayTakenBack`: the loop of
`grayToBinary()` ends and undoes Gray code, for a word of any width.  It is a
recursive function, shown to be defined by induction over the passes that are left;
the argument is that two passes over a distance are one over twice the distance
(`TwiceShifted`).  That the answers are those of the right encoder and the right call
is not inductive: `AnglesInv` adds that, as long as nothing was late or cut, a wait
leaves nothing behind (`OneAnswer`: its command is owed, or answered by NACK or by a
position of the call, or lost) and that an encoder that has answered did so in this
call, perhaps in an earlier try (`OwnGray`).  `BoardInv` says that the bytes read so
far are those of the position, if it has not changed since the read began; the rest
is arithmetic, of the four bytes (`BytesTogether`) and of the digits of the display
(`Digits`).  Theorems: `AnglesAreOwn`, `BoardsAreTrue` and, of the parts together,
`EncodersAreTrue` and `PluginsAmongOthers`.

For the balance, from `ForceAssumption`: there are channels, no volt stands for zero
newtons, and what a calibration consists of are fractions.  The proof has four storeys.

1. *Fractions.*  Those in lowest terms are a field with an order.  Euclid's algorithm, a
   recursive function, ends with a common divisor and takes a factor of both numbers
   along, so that equal values are one fraction (`FracEqual`) and sums and products can
   be computed with any representatives (`PlusFrac`, `TimesFrac`).
2. *Sums.*  `Sum` is a fold that takes the elements of a set in no given order.
   `SumSplit` shows, by induction over finite sets, that any may be the first; linearity
   and the exchange of two sums (`SumPlus`, `SumTimes`, `SumSwap`) follow.
3. *Inversion.*  `invert()` takes n steps with swaps and then undoes the swaps, those of
   rows on the columns and with the signs exchanged.  A matrix m is read as the
   equations m p + y = 0.  `Solves` is the invariant of the way forth: after l steps the
   first l of p and of y have changed sides.  A swap only turns y or p (`Turned`), an
   elimination moves one more (`EliminateSolves`), and the way back undoes the turns
   (`UnswapSolves`), so that in the end the equations are m y + p = 0, solved for p
   (`InvertIs`).  A pivot of zero would end that; it cannot come up as long as every y
   has a p (`Onto`): the search has found nothing but zeros then (`PivotZero`), and for
   some y no p would do.  A matrix with an inverse is `Onto` from the start.  Theorem:
   `InverseInverts`.
4. *The readings.*  `ForceInv` = `ForceTypes`, `ReadingInv` (the channels read so far have
   the voltages of the load, which is steady; the zero is the response to the reference;
   `mat` is what `invert()` gives) and `ForcesInv`.  `ForcesTrue` speaks of the end of
   `read()` only.  What makes it hold there is that the first guess is right already, by
   the inverse, transposed like the file, that the residual is zero where the forces are
   right, and that a pass then subtracts nothing, whatever the Jacobian, singular or not,
   and however many passes there are.  For the load of the reference the guess is zero
   even if `mat` is no inverse.

Theorems: `ForcesAreTrue`, for any number of channels, any fractions, tolerance and
number of passes, and `ForcesTrueAmongOthers` for the parts together.

`WindowInv`, `LinkInv`, `ProjectInv`, `NotifierInv`, `BytesInv`, `AnglesInv`,
`BoardInv` and `ForceInv` were checked by TLC as invariants of the runs above before
they were proved.

Only model-checked: every liveness property (`BoundedRunEnds`, `StopEnds`,
`ErrorReported`, `ExchangeEnds`, the two `SetValueEnds`, `WaitEnds`, `WriteDrains`,
`AnglesReadEnds`), which the provers cannot do under fairness.  Every safety property
of a passing run is proved.  The three violations are counterexamples and need no
proof.

## 5. Not modelled

- The values measured and their conversions to physical units, plots and views,
  the plain CSV files, the text of the matrix file, the commands of GPIB, the
  rounding of doubles in Force.
- That opening the Arduino's port resets the board; reads of uninitialised bytes
  after a reply without a terminator.
- Noise that inserts bytes; answers of the drive that come after the timeout.
- The hardware of the virtual plugins, which returns what it was last set to, or
  random numbers before; the Arduino plugin, a page of the preferences without
  model or hardware.
- Of the kernel modules, the registration with the kernel and the copy to the
  user's buffer.
- Of qserialdevice, the engines of Windows and Symbian and SerialPortInfo, which
  the program does not build or use; breaks, the emulation of mark and space
  parity, error codes, rate 0, the buffer of QIODevice itself.
- A file that the program did not write.

## 6. Plan

Done: the modules of section 2.  What could follow:

1. `Session`: an abstract specification of a measurement (idle, running,
   delivered), implemented by `AeroISTWindow` under a refinement mapping.
2. `Axis` over `AnglesLink`: the positioning loop with late answers.
