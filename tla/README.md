# A TLA+ model of libtock-rs

libtock-rs is the userspace library with which Rust applications run as
processes of the Tock kernel. A process is single-threaded; what makes it hard
is that it lends pieces of its memory to the kernel (upcall targets, buffers),
that drivers in the kernel answer whenever they like, that the answers wait in
a queue until the process yields, and that the process may lose interest at any
moment: futures are dropped, `select` throws its loser away, calls fail half
way, waits end by a timeout. This directory models the library, the fake kernel
and drivers its tests run against, its formatter, its runner and the example
programs that have a protocol of their own. TLC checks all of it on small
instances; TLAPS proves for every instance the invariants and the action
properties that the runs check, of the core, the libraries and the programs.

All paths below are relative to `src/`.

## 1. The system

| Part | State it keeps | Operations | Hard behaviour |
|---|---|---|---|
| Driver futures, `platform/src/async_call.rs` with `subscribe.rs`, `allow_rw.rs` | `Shared` (arguments, waker), `started`, the lent buffer | `new`, `poll` (allow, subscribe, start, park, re-check, finish, complete), `drop` (cancel, unallow, unsubscribe, release) | drivers run between any two system calls; every call may fail; a future may be dropped at any point; memory is reused |
| Executor, `async/src/lib.rs` | the pinned arms, `a_done`, `b_done` | `block_on`, `join`, `select` | sleeping over work that is done; cancelling the loser |
| System calls, `platform/src/syscalls_impl.rs` and friends | none | subscribe, allow, command, yield, exit; decoding of a command's answer | undoing what was shared, in every exit path |
| `share::scope`, `platform/src/share/` | the list of handles in a stack frame | run a closure, then undo every share | errors in the middle, nested calls |
| Kernel, `unittest/src/fake/syscalls/`, `kernel_data.rs`, `share_data.rs`, `upcall.rs` | registration table, upcall queue, allow tables, expected calls, log | the other side of each system call, `schedule_upcall`, delivery | upcalls queued for a registration that is replaced or gone |
| `AllowDb`, `unittest/src/allow_db.rs` | lent regions | insert with overlap check, remove | disjointness, regions that are never removed, regions of no length |
| Fake drivers, `unittest/src/fake/*` | per driver: busy flag, buffers, settings, queued data | command, allow, test-side triggers (`fire`, `set_value`, `set_pressed`) | abort reports, ring indices, buffers taken out, answers prepared in advance |
| Driver APIs, `apis/` | mostly none; futures and pin handles | blocking calls of one pattern, asynchronous calls, listeners, setters and getters | one upcall slot per (driver, subscribe number), reentrancy, width and sign of what travels as a word, arithmetic at its limits |
| `exit_test`, `unittest/src/exit_test/` | environment variable, stdout | run the test again in a second process | recognising the right process and message |
| `runner/` | two forwarding threads and a child | convert, deploy, forward, interrupt | partial writes, end of input, exit races, an image left over |
| `ufmt/` | `Formatter` settings, line buffer | parse a format string, write, pad, build nested values | failing writers, indices into fixed buffers |
| `examples/` | per program | see the modules below | timeouts against late answers, flags apart from the hardware, differences drawn |
| `runtime/`, `panic_handlers/`, `build_scripts/`, `demos/`, `syscalls_tests/`, `tools/`, `libraries/` | | start-up assembly, printing, build steps, samples | outside the model, see section 9 |

How they interact: an application awaits driver futures under `block_on`, which
polls them; a poll makes system calls, which change the kernel's tables; a
driver answers by writing the lent buffer and queueing an upcall; the next
Yield, whoever makes it, delivers the oldest queued upcall to the `Shared` of
the future it was registered for, which stores the arguments and wakes the
waker; the next poll takes the buffer back and completes. A drop cancels,
unallows, unsubscribes and releases, in that order.

A blocking driver function does the same within one stack frame, under
`share::scope`, and yields until its own cell is set. Any upcall may be
delivered by that yield; if it is a listener's, the listener may make a blocking
call in its turn.

Tests replace the kernel by `fake::Kernel`, which has the same tables, knows
fake drivers by number, and can be told which system calls to expect and what to
answer. The runner and `exit_test` work on processes of the host.

What makes each part correct:

* futures: the kernel never refers to memory that is gone; a buffer is never
  the process's and a driver's at once; a future completes with its own answer;
  no future waits for an answer that cannot come; a future that is gone has left
  nothing behind;
* blocking calls: nothing of a stack frame stays with the kernel after the call
  has returned, whichever call failed; a call whose command was accepted returns
  with the answer to that command; every call returns, whatever runs inside it;
* executor: it does not sleep over work that is done, returns whenever the
  drivers answer, and leaves the kernel's tables empty;
* kernel, real or fake: replacing or removing a registration removes its queued
  upcalls; its records are of what drivers hold, and no two hold the same memory;
* driver APIs: a pin that has one handle is what its view says; a reading is what was measured
  for that call; what was set is read back; the receive ring is a queue of the
  newest frames; who follows a button misses no change;
* formatter: what is printed is what was asked for, inside its buffers, and a
  formatter is balanced after every value;
* programs: what is reported, drawn or driven is what happened, whichever answer
  came late; no frame loop or verdict waits for an answer that need not come.

## 2. Modules

The core, which is proved about:

| Module | What it is |
|---|---|
| `TockKernel` | the kernel tables as one process sees them, and one operator per system call and per driver step |
| `AsyncCall` | the two futures over that kernel, with the most general application |
| `AsyncPromise` | the abstract life of a driver future, with no tables, queues or calls; `AsyncCall` implements it |
| `Executor` | `block_on` over `join` or `select`, over `AsyncCall` |
| `SyncCall` | the blocking calls and the listeners over `TockKernel`, as a stack of frames |
| `DriverApis` | one record for each blocking function of `apis/`: its slot and the buffers it lends |
| `TockKernel_proofs` | lemmas about the kernel's operations |
| `AsyncCall_proofs` | the futures of any application; those of one that keeps its promises, and the refinement |
| `Executor_proofs`, `Combinators_proofs` | on those: `block_on` with `join` and `select`; the third program of `MCCombinators` as an instance of that |
| `SyncCall_proofs` | the blocking calls of any application, what they return and what they leave behind |
| `Library_proofs`, `Devices_proofs` | the libraries of the next table |
| `Programs_proofs` | the programs of the table after it (section 7 for all of these) |

The libraries:

| Module | What it is |
|---|---|
| `RxRing`, `RxQueue` | the 802.15.4 receive ring with its process and its radio; the queue it implements |
| `Gpio`, `StepUntilPress` | pins, handles and edges; the stepper's movement raced against a button and stopped, composed with `Gpio` by `EXTENDS` |
| `Sensors` | eight sensors and the buzzer, asked for a reading both ways, with the fake driver's prepared, busy and refused answers and the decoding of each |
| `Settings` | what radio, SPI controller, screen and LEDs are set to and read back as |
| `SpiBus` | the four SPI transfers over the fake bus |
| `Buttons` | the fake buttons, their events, a listener and the two questions |
| `FakeKernel` | `fake::Kernel` in a test: expected and injected answers, subscribe, allow and yield-no-wait, `AllowDb` beside the drivers' own buffers |
| `AlarmTime`, `CommandReturn` | the arithmetic of times; the answer of a command as it is built, carried and read |
| `Ufmt`, `UfmtNumber`, `UfmtParse`, `LineBuffered` | the `Formatter` and its builders; padded numbers in fixed buffers; format strings as the macros cut them; the line buffer |

The programs:

| Module | What it is |
|---|---|
| `Doom` | `doom.rs`: bounded conversions of two axes on one slot, and a frame drawn in scaled bands |
| `ManualDash` | `manual_dash.rs`: engine, clutch and gears stepped by measured time, drawn by differences |
| `Throttle` | `ecu_throttle.rs`, `ecu_dash.rs`, `throttle_probe.rs`: pedal, brake latch, wheel and preflight against a driver that limits and times out |
| `WifiScan` | the three Wi-Fi programs against a radio whose upcalls do not say of which scan they are |
| `ScreenProbe` | `screen_first_draw.rs`, `screen_busy_probe.rs`: attempts with deadlines on one slot |
| `RawFrames` | the raw 802.15.4 sender and receiver |
| `Beeper` | `kit_tune.rs`, `kit_hush.rs`: notes with a patience, and a stop that only the owner may make; the capsule's record of who plays, not the sound |
| `JitterProbe` | `jitter_probe.rs`: absolute deadlines and signed lateness on a counter that wraps |
| `Runner`, `ExitTest` | the runner with its threads and child; a test case run again in a second process |

`MCAsyncCall`, `MCCombinators`, `MCSyncCall` and `MCListeners` are instances for
TLC; `FakeKernel` and `AlarmTime` are also run by themselves. `MCLibrary` and
`MCPrograms` gather the modules of the second and third table: their parts share
nothing, so a behaviour picks one (`part`) and the others stay as they begin,
and one run checks them all. The theorems are about `MCLibrary` and `MCPrograms`
with any values of their constants; the `.cfg` gives the values of one instance.

### Correspondence with the code

A *slot* is a (driver, subscribe number) pair together with the allow number
the operations on it use. A *target* is a place in process memory; a future is
identified with its place, so dropping it and creating another may reuse the
place, which is exactly the case in which a stale pointer is dangerous. Values
are abstracted to what the properties tell apart: the arguments of an upcall,
an operation in a driver and the bytes in a buffer are named by the future
whose operation they belong to.

| TLA+ | code |
|---|---|
| `upcall`, `queue`, `allowed` | `DriverData::upcalls`, `KernelData::upcall_queue`, the buffer a fake driver was given |
| `outstanding` | the driver's own state: the alarm that is set, the read length that is pending, an enabled interrupt |
| `life` | `started` and whether `poll` has returned `Ready` |
| `args`, `wake` | `Shared::args`, `Shared::waker` |
| `step`, `cur` | the program counter inside one poll or drop, and its `self` |
| `Poll`, then `AllowBuffer`, `Register`, `Start`, `Fail`, `Park`, `Finish`, `Complete` | `poll`, one action per system call |
| `Drop`, then `Cancel`, `Unallow`, `Unsubscribe`, `Release` | `drop` and the drop glue of the fields, in field order |
| `Yield` | `yield_wait` that finds an upcall, and `Shared::upcall` |
| `Driver` | a driver that answers; it may run between any two system calls |
| `PollArm` ... `ArmReady`, `PollNext` | one pass of the `poll_fn` closure of `join` or `select` |
| `SyncSubscribe` ... `SyncReturn` | `Console::write` inside an arm |
| `YieldWait`, `DropArms`, `BlockAgain` | `block_on`'s sleep, the end of the combinator, the application's next round |
| `frame`, `depth` | the stack frames of the blocking calls in progress: cell, program counter, loop position in the scope's list |
| `reported` | calls of `Config::returned_nonnull_upcall` |
| `Call`, `Lend`, `Subscribe`, `Command`, `Refuse` | a function up to its loop, one action per system call; `Refuse` is the `?` after any of them |
| `SyncCall`'s `Yield`, `Deliver`, `Woken` | the loop `yield_wait`, upcall, look at the cell |
| `Leave`, `Unlend`, `Unsubscribe` | the drop of the scope's list, share by share in field order |
| `Control` | the application's commands while a listener is registered |

In `SyncCall` a target is a place on the stack, so that a call made after
another has returned reuses its memory. A buffer that the driver fills is named
by the upcall slot; a buffer the driver only reads has a slot of its own in the
same table, since read-only and read-write allow differ in nothing the
properties tell apart but the writing.

`EventSlot` holds the slots whose driver goes on producing upcalls until it is
told to stop (GPIO interrupts); the others answer once per operation. `Buffered`
holds the slots whose futures are `BufferedCall`s (console reads), the others
are `Call`s.

The modules of libraries and programs keep their state in one record, `app`
(`RxRing`, `Gpio`, `StepUntilPress`, `FakeKernel` and `Ufmt` in variables of the
code's names). Its field `at` is the place in the program, named after what the
code is about to do; the other fields are the program's variables by their own
names, the driver it talks to, and *ghosts*, which no action reads: what was
really measured (`entry`, `told`, `turn`), how a frame was numbered (`no`), what
the child wrote (`wrote`), when a condition last held (`since`), the time that
does not wrap. A property compares what the program says with the ghost.

* A number that travels through a word keeps its width: `Byte`, `Half` and
  `Word` stand for 2^8, 2^16 and 2^32, and `Signed` is the two's complement
  reading of a word; a setter's arguments, the driver's copy and the getter's
  decoding are three operators (`RadioArgs`, `RadioKeeps`, `RadioReads`).
* In `Sensors` a blocking reading is split at its system calls, so that the
  driver may answer between any two; in `SpiBus` and `Settings` a call is one
  step, and what can come between is `SyncCall`'s matter.
* In `RawFrames` a byte is the name of its field and its place in it, so that a
  reader that takes the wrong offset prints a wrong name.
* Of the buzzer the model has what its capsule records: whose note is active,
  which wait, what was told. Whether the pin is driven it does not say, and a stop
  that is answered with success need not have ended even the record (section 6).
* What lies outside the repository (the kernel's buzzer, screen, throttle and
  Wi-Fi capsules, the tools and the child of the runner) is modelled from what
  the code and the documentation in it say, and marked external.

Operators marked *wrong on purpose* are variants with a plausible bug. No
specification uses them; putting one in place of the definition it precedes must
make the property it is meant for fail, which is how each property is shown to
depend on the code. A property made of several conjuncts has one such variant
that is used for it; the others (`ConsumedNot`, `ChangesAny`, `ToReadPlain`,
`JudgeOn`, `ExpectedLate`, `RevsJump`, `OpeningAnyway`, `EnterWidthCountsOn` and
their like) break the other conjuncts when they are put in place.

## 3. What the runs check

| Run | Instance | Shows |
|---|---|---|
| `AsyncAny` | two reads of one slot and two edges of another, any safe application | type invariant, `NoDanglingUpcall`, `NoDanglingBuffer`, `BufferExclusive`, `WakeNotLost` |
| `AsyncExclusive` | two reads, or two sleeps, with two edges, one future per slot at a time | `NothingLost`, `CompletionIsOwn`, `BytesMatchArgs`, `NoOrphan`; every step is one that `AsyncPromise` allows (`KeepsPromise`), where only an interrupt's driver may answer more than once |
| `Combinators` | three programs: read then print joined with a sleep; the same two, both printing, under `select`; a read against a GPIO edge | `ReturnsClean`, `NoSleepOverReady`, `EdgeEndsWithFuture`, `AlwaysReturns` |
| `SyncEvery` | every blocking function of `apis/` that loops, and the two interrupt listeners | `OwnAnswer`, `NothingLeft` |
| `Listeners` | two programs: console, alarm and a button listener, nested four deep, calls refused; the key-value functions inside each other, sharing slot and buffers | `NoDanglingUpcall`, `NoDanglingBuffer`, `StuckWasReported`, `EveryCallReturns` |
| `Library` | the library modules, one to a behaviour | `RingIsQueue` (a refinement of `RxQueue`, and when the process may sleep over a frame), `PinsAreTrue`, `StopKeepsCount`, `ReadingIsOwn`, `DeviceIsHeard` (settings, SPI bytes, buttons), `NoOverlap` and `RecordIsTrue` of the fake kernel, `NumberIsPadded`, `TextIsKept`, `FormatterBalanced` of ufmt, `ConversionsAreTrue`, `LibraryGoesOn` |
| `Programs` | the programs, one to a behaviour | `MisreadOnlyAfterLeaving` (and whole frames) of doom, `CarIsTrue`, `ConfirmedIsTrue`, `BrakeHolds`, `UnmarkedIsOwn`, `EchoIsWhole` (the runner's terminal, and the raw frames' fields), `ReportIsTrue` (`exit_test`, buzzer, jitter), `ProgramsGoOn` |
| `UnpolledDrop` | two sleeps, only one polled at a time | violation of `NothingLost`: finding 1 |
| `JoinSyncSecond` | the printing arm is polled second | violation of `NoSleepOverReady`: finding 2 |
| `SyncProximity` | a proximity reading under a button listener | violation of `OwnAnswer`: finding 3 |
| `AllowDbEmpty` | three drivers, buffers of no length among the others | violation of `NoOverlap`: finding 4 |
| `AlarmHour` | every time and frequency of a small word | violation of `TopsOutAtTheLongest`: finding 5 |

Deadlock is checked in every run of the core, where it says that the program and
the drivers are never all waiting for each other; `Library`, `Programs` and
`AllowDbEmpty` are of programs and tests that end, and of conversions that are
only initial states, and do not check it. In `Listeners` a key-value call that
was overtaken waits for ever, as it may, and stutters (`StoreStuck`).

`SyncEvery` leaves out the proximity reading that yields once, which is finding
3, and allows a call only on a slot that no other call on the stack uses, which
is what the APIs assume. The key-value part of `Listeners` drops that
assumption; `StuckWasReported` is then checked with no system call refused: an
inner call that fails *before* it subscribes removes the outer call's
registration without a report.

Some properties carry an exception, which is a statement too. A blocking
reading may return another measurement's answer exactly when one was in progress
as it subscribed (`ReadingIsOwn`); the radio's process may sleep over a frame
that came between its allow and its subscribe (`SleepsOnlyOverEarly`); doom may
misread an axis after it left a conversion behind (`MisreadOnlyAfterLeaving`);
the stepper loses its count to a press that comes as the movement ends
(`LostOnlyAtTheEnd`); the dash takes a stick that cannot be read for one at rest
(`BrakeHolds`).

## 4. Bounds

Core. Two futures contend for one slot, which is the smallest number with which
a registration can be stolen and a place reused under another future's stale
pointer; they are symmetric. Every slot has two, so that what one leaves behind
meets its successor and not only the same place used again; `AsyncExclusive`
reads or sleeps, with edges in between, since only two slots at a time are needed
for an order of upcalls that one slot does not have. The queue is bounded only for event drivers (`MaxQueue`):
a one-shot driver queues at most one upcall per operation it is given. Nothing
else is bounded: rounds, polls and drops are unlimited. `SyncCall` bounds the
stack (`MaxDepth`): three frames are a call, the listener under it and the call
that listener makes, which is enough for any answer to arrive inside a call
above its own; in the buttons part of `Listeners` four are no bound at all, as
the functions are of four slots and none is called on a slot in use.

Library. The ring has three frames of which two can be full, indices wrap twice
before `MaxFrames`. Two pins, one of them missing, and two handles, so that two
handles of one pin meet. Two drivers of the fake kernel, one of which takes its
buffer out as it writes, and buffers of one or two bytes at two addresses, which touch,
overlap and begin at the same place, and the empty one; one expected call at a
time. Words are 16, with bytes and half words of 4 and 8: every width is smaller
than the next, so a truncation shows. Format strings of up to five tokens hold
an escape next to a specifier on either side. The line buffer holds two bytes
and is given up to three at once. Times run over every word up to 40 with
`Thousand` 4, so both saturation and rounding occur. The queue of a button holds
three reports, which is a press, a release and one more; of a sensor one.

Programs. A frame of doom has two rows drawn on three of the panel in bands of
two, so scale, a short last band and a budget that runs out all occur. The car
has two gears and twenty revs. Scans have a timeout of three and queues of
three, so a result, an end and a late end meet. Attempts are three, answers that
belong to others one per step. A child of the runner writes two bytes, to one
output or to each, and two are typed. Raw frames number to seven with widths of 2 and
3, whose wraps fall together only at six. The tune has three notes and a
patience of two polls; the jitter probe three samples, of which the counter
wraps before the first, during them, or not.

## 5. Fairness

`AsyncCall`'s properties are safety properties and need none. In `Executor` the
process is weakly fair, as a process that is runnable is scheduled, and so are
the drivers of `Prompt`: an alarm that is set expires, a write is sent. A driver
outside `Prompt` (a button, a serial line nobody types on) need never answer.
In `SyncCall` the process is fair in the same way (`Step`) and the drivers of
`Prompt` answer; the application need not call anything, and a button need not
be pressed. Nothing limits how often it is pressed: the queue is first in, first
out, so an answer is reached however many events precede it. `AlwaysReturns`
then says that a `join` returns when both drivers answer and a `select` when one
of them does.

In `MCLibrary` the processes of the ring, the stepper and the sensors are fair,
the motor goes on stepping and the sensor answers what it accepted; no frame, no
press and no listener is owed. In `MCPrograms` the programs are fair, and of
their surroundings the throttle's clock, the screen's deadline, the runner's
pipes and a child that reads its input and obeys a signal. The converter of
doom, the Wi-Fi radio and the screen's answers are not: their programs must go
on without them, which is what `ProgramsGoOn` says.

## 6. Where code and documentation part

With a run:

1. **A future that was never polled takes another's registration**
   (`UnpolledDrop`). `Subscribe::drop` unsubscribes unconditionally. Creating a
   `Sleep`, polling another, and dropping the first leaves the second without a
   registration: it never completes. `alarm/src/lib.rs:141` states the rule as
   "only one may be *polled* at a time", which this obeys.
2. **A blocking call inside a joined arm delivers the other arm's upcall**
   (`JoinSyncSecond`). `async/src/lib.rs:27` says an upcall can only arrive in
   `block_on`'s own yield. `Console::write` yields too; called in the arm polled
   second it receives the first arm's upcall, and `block_on` sleeps over an arm
   that is ready until some other upcall comes.
3. **A proximity reading may return before its answer** (`SyncProximity`).
   `proximity/src/lib.rs:43` yields once. If another upcall is first in the
   queue, `read_sync` returns `Err(Busy)` with the command accepted and the
   measurement running, which `:35` excludes.
4. **Taking back an empty buffer forgets another's record** (`AllowDbEmpty`).
   `allow_db.rs:145` removes what is recorded at an address; a buffer of no
   length was never recorded, and the one recorded there is then lent twice,
   against the invariant of `:30`.
5. **A sleep saturates long before the documented hour** (`AlarmHour`).
   `alarm/src/lib.rs:55` saturates the product before it divides by 1000, so at
   1 MHz every time from 4.3 seconds on becomes 4.3 seconds; `:38` says about an
   hour.

Met while modelling, without a run of their own:

* *An edge may end without disabling its interrupt.* `gpio/src/lib.rs:283` says
  the enable lasts exactly as long as the future, whichever way it ends. A
  future whose upcall was delivered and that is then dropped without another
  poll is neither cancelled nor completed (`async_call.rs:187`). The edge part
  of `Combinators` makes no blocking call in its arms, where this cannot happen.
* *A read-out of the probe says more than it knows.* `screen_first_draw.rs`
  prints that lines run with an outstanding call are the marked ones;
  `ScreenProbe!OutstandingIsMarked` is false when the frame of the same attempt
  timed out, and when a step that failed left its command behind.
* *"Only the stick clears the lockout"* of `ecu_dash.rs` is false of a stick
  that cannot be read (`Throttle!OnlyTheStickClears`); `doom.rs:481` says the
  caller goes on with the previous reading, but an error reads as centred and
  released (`:549`).
* *The fake screen takes the lent buffer and may fail after it*
  (`fake/screen/mod.rs:284`): the record of the region stays and the next allow
  of it is refused; `Library` has such a
  driver (`Taker`), and `DbIsHeld` says what the record is then: what drivers hold,
  and what this one has let go of (`lost`), of which `allow_db.rs:152` does not
  think.
* *ufmt is "panic-free"*, but a pointer or a negative number padded with zeros
  to a width below its prefix underflows where overflow is checked
  (`NumberIsPadded` states it as its exception), and maps and sets printed with
  `{:#?}` leave one level of indentation behind (`leaked`).
* *A stop does not silence, and its end cannot be seen.* `kit_hush.rs:61-71` and
  `:83-106` record a run in which both stops returned what a working stop returns
  and "cycle complete ... slice disabled by the kernel" was printed while the tone
  kept sounding, and retract the guarantee that the program leaves things no
  worse; `kit_tune.rs:82-93` and `:342-345` say the same: once `active_app` is
  cleared, when the alarm fires, a stop answers `OFF` and does nothing. So
  nothing true can be said of the sound. `Beeper` models `active_app` alone, and
  `VerdictIsTrue` says only that no program ends with a note that the capsule
  still counts as its own and that it has not asked the capsule to stop.
* *Dropping one handle's view of a pin disables the pin under another's*
  (`gpio/src/lib.rs:187`). No line promises otherwise; `ViewIsTrue` is of pins
  that are taken once (`exclusive`), `NoOrphanOutput` of all.
* *`kit_hush.rs:305`* says the slice has been through enable and disable also
  when another process began to play after the first stop, so that the note was
  only queued and never started.
* *A press reported before events are switched off* is still delivered after
  they are switched on again, to whoever listens then, as it is queued by slot.
* *Widths and arguments.* `sound_pressure/src/lib.rs:63` accepts 256, which
  `:48` excludes; `i2c_master/src/lib.rs:60` issues the command of a write for
  `write_read`; the fake SPI driver records nothing of an in-place transfer
  (`fake/spi_controller/mod.rs:72`); the fake screen's invert is always off and
  its write frame keeps only two of four values.

## 7. What is proved

`AsyncCall_proofs` proves, for any sets of futures and slots, any assignment of
futures to slots and any bound on the queue, and for `Spec`, the most general
application:

| Theorem | States |
|---|---|
| `TypeCorrect` | `TypeOK` |
| `UpcallsNeverDangle` | `NoDanglingUpcall` |
| `BuffersNeverDangle` | `NoDanglingBuffer` |
| `BuffersAreExclusive` | `BufferExclusive` |
| `Invariance` | the inductive invariant `Inv` behind all of them |

Its second half adds the promises to the application, for `ExclusiveSpec`, in
which a slot has one future at a time (`WakesAreKept` needs only `Spec`):

| Theorem | States |
|---|---|
| `NothingIsLost` | `NothingLost` |
| `CompletionsAreOwn` | `CompletionIsOwn` |
| `BytesAreOwn` | `BytesMatchArgs` |
| `NothingIsOrphaned` | `NoOrphan` |
| `WakesAreKept` | `WakeNotLost` |
| `OwnInvariance` | the inductive invariant `IInv`, which is `Inv` and `Own` |
| `PromiseIsKept` | `KeepsPromise`: `ExclusiveSpec` implements `AsyncPromise` |

`Executor_proofs` proves, for any two arms, any set of them that goes on to make
a synchronous call, and `ExecSpec`, the specification without its fairness:

| Theorem | States | Hypothesis |
|---|---|---|
| `ExecutorInvariance` | `ExecInv`: `Inv` of the futures, where `block_on` is, what it has dropped by then | none |
| `ReturnsAreClean` | `ReturnsClean` | `OwnSlots`: each arm and the call has its own slot |
| `SleepsWithNothingReady` | `NoSleepOverReady` | `Sheltered`: a `select`, or a `join` whose second arm makes no synchronous call |
| `EnablesEndWithFutures` | `EnableEndsWithFuture` | `Alone`: a `select` of two futures in their own slots, no synchronous call |

`Combinators_proofs` takes from it what `MCCombinators` checks of its third
program, for any slots that satisfy `PartAssumption`:

| Theorem | States |
|---|---|
| `EdgesEndWithFutures` | `EdgeEndsWithFuture`, of a `select` whose arms make no synchronous call: with one the claim is false (section 6) |

`SyncCall_proofs` proves, for any set of functions and listeners, any nesting,
with system calls refused or not and reentrant calls of one slot allowed or not:

| Theorem | States |
|---|---|
| `TypeCorrect` | `SyncTypeOK` |
| `UpcallsNeverDangle` | `NoDanglingUpcall` |
| `BuffersNeverDangle` | `NoDanglingBuffer` |
| `Invariance` | `Inv`, their conjunction with the range of the loop counter |

It goes on to what the callers rely on, for any set of functions, stack depth
and nesting, with any system call refused where nothing else is said:

| Theorem | States | Hypothesis |
|---|---|---|
| `OwnInvariance` | `IInv`, which is `Inv` and `Own` | `Disciplined`, no slot is used by two calls in progress |
| `AnswersAreOwn` | `OwnAnswer` | the same |
| `NothingIsLeft` | `NothingLeft` | the same |
| `StuckIsReported` | `StuckWasReported` | no call is refused, or no slot is used twice |

`Library_proofs` proves, for the parts of `MCLibrary`, any value of the part's
parameters:

| Theorem | States | Hypothesis |
|---|---|---|
| `RingKeepsQueue` | `RingIsQueue`: the ring implements `RxQueue`, and `SleepsOnlyOverEarly` | none |
| `PinsStayTrue` | `PinsAreTrue` | none |
| `DriversHoldApart` | `NoOverlap` | `Fake!OneEmpty`: a test lends no empty slice but that of `unallow` |
| `RecordsStayTrue` | the action property `RecordIsTrue`, of `fake::Kernel`'s records | `Fake!OneEmpty` |
| `StopTellsPosition` | `StopKeepsCount`, of the stepper example | none |
| `ConversionsStayTrue` | `ConversionsAreTrue`, of times and of the answers to commands | none |
| `FormatterStaysBalanced` | the action property `FormatterBalanced`, of ufmt's `Formatter` and its builders | none |
| `NumbersStayPadded` | `NumberIsPadded`, of numbers in their buffers | none |

`Devices_proofs` goes on, without a hypothesis:

| Theorem | States |
|---|---|
| `ReadingsStayOwn` | `ReadingIsOwn`, of the eight sensors and the buzzer |
| `DevicesStayHeard` | `DeviceIsHeard`, of the settings, the SPI bus and the buttons |
| `TextStaysKept` | `TextIsKept`: a format string of any length is cut as it is read from left to right, and the line buffer of any capacity keeps the order |

`Programs_proofs` proves, for the parts of `MCPrograms`, any value of the part's
parameters and without a hypothesis:

| Theorem | States |
|---|---|
| `BrakeIsKept` | `BrakeHolds`, of the three throttle programs |
| `DoomSeesAndShows` | `MisreadOnlyAfterLeaving`, which includes `FrameIsWhole` |
| `WifiConcludesTruly` | `ConfirmedIsTrue`, which includes `CompleteIsOwn` |
| `UnmarkedLinesAreOwn` | `UnmarkedIsOwn`, of the screen probes |
| `CarStaysTrue` | the action property `CarIsTrue`, which is `GlassIsTrue` and `RevsDoNotJump` |
| `ReportsStayTrue` | `ReportIsTrue`, of `exit_test`, the two buzzer programs and the jitter probe |
| `EchoesStayWhole` | `EchoIsWhole`, of the runner and of the raw frames, both with the receiver's own sender and with a neighbour's frame |

The assumptions are those the modules declare: `KernelAssumption` (the null
value is no target, event slots are slots, the bound is a natural number),
`AsyncAssumption` (each future has a slot, buffered slots are slots and none of
them an event slot: the only `BufferedCall` is the console's `Read`) and
`SyncAssumption` (functions are records of slots, targets are stack places) and
`ExecutorAssumption` (two arms, the frame of the synchronous call, a combinator);
for the libraries `RingAssumption` (two to 255 slots, where `Byte` is 256: the
code bounds `N` by nothing, but from 256 on its `N as u8` and the driver's own
differ), `GpioAssumption` and `FakeAssumption` (sets of the right kind), `StepAssumption`
(the motor is no pin, the movement has a length), `SensorsAssumption` and
`SettingsAssumption` (a byte is smaller than a half word and that smaller than a
word, which is a multiple of a byte and holds at least four values; 360 fits a
half word), `SpiAssumption` and `ButtonsAssumption` (0 and 255 are bytes, there
is a button), `AlarmAssumption` and `AnswerAssumption` (of numbers),
`UfmtAssumption` (a width is at most 18, as the macros reject a longer one, and
lengths and bounds are natural), `LinesAssumption` and `TokensAssumption`
(capacity and bounds are natural);
for the programs `ProgramsAssumption`, of which the proofs use that heights and
bands of doom are positive numbers; of the car, that its idle is no more
than its redline, that its divisors are positive, that there is a longest step a pass may take
(`manual_dash.rs:311`) and that torque is a number up to the redline (`:104`,
`:577`); of the raw frames that the counters have a width, that of the sequence
number the smaller (`FramesAssumption`); of the tune that it has a note and its
patience a length (`BeeperAssumption`); and of the jitter probe that the program
begins within the counter, that its periods together fit the counter, and that
the lateness it can gather fits a half of it, which is what reading a difference
as a signed number takes (`JitterAssumption`).

The hypotheses in the tables are operators of the modules they are about. Each
is what section 6 shows to be needed: without `Sheltered` there is finding 2;
`Disciplined` says of a function that it yields until its cell is set, which is
what `Proximity` does not (finding 3), that only listeners use a slot of events,
and that a buffer is lent in the slot that is subscribed; a synchronous call
beside an edge leaves its interrupt on (`Alone`); without `OneEmpty` there is
finding 4. TLC evaluates them as
assumptions of the instances: `EveryApiAssumption` in `MCSyncCall` says that
every function of `apis/` but that one is `Disciplined`, and `PartAssumption` in
`MCCombinators` that the three programs are of these kinds.

The argument for the futures. That the kernel holds no pointer to a future that
is gone is not inductive: the step that frees the memory, `Release`, knows
nothing of the tables. `Inv` adds what each step of a drop has already taken back. From
`unsubscribe` on, no table holds the buffer of the future being dropped; at
`release`, neither a registration nor a queued upcall refers to it; a future is
only ever registered in its own slot, so unsubscribing that slot is enough; and
an unbuffered future's buffer is never lent. The same for a poll: at `complete`
the buffer is back. The only other thing needed is that removing a slot's
entries from the queue leaves exactly the entries of the other slots, which
`TockKernel_proofs` proves of `Purge` (`PurgeProperties`); `Purge` is written
without recursion for that reason.

The argument for the promises. `Own` says of a slot with one future at a time
whom it works for. An operation at a driver that answers commands is that of the
one started future, which is registered, has no arguments and has not passed the
point of its drop where it cancels (`OwnOperation`); an upcall that waits is the
answer to such an operation, which is then over (`OwnQueue`), and is the only
one (`OneAnswer`). So a new future finds nothing of an old one between its
subscribe and its start (`Registered`), the driver's write goes to the buffer of
the future it serves (`Lent`, `OwnBytes`), and a started future is either served
or answered (`Served`). The order of the queue matters to none of this: the
lemmas `SubscribeWaiting`, `ScheduleWaiting` and `TailWaiting` of
`TockKernel_proofs` turn each operation on the queue into one on the set of
upcalls that wait, and `SubscribeOne`, `ScheduleOne` and `TailOne` keep their
number. Every step of the futures keeps the slot-wise part of `Own` for itself
(`Core`, `NextCore`), which is what the executor needs of it. For the
refinement, `AllIsHere` shows that under `IInv` the abstract state of a future is
a matter of its own slot; `StepKeeps` then gives, action by action, the step of
`AsyncPromise` that is taken.

Events are the exception, in the proofs as in the code. An interrupt whose edge
was delivered to a future that was then dropped unpolled stays on (section 6),
and its next edge may be the first thing the next `Edge` hears, from another pin
perhaps; the documentation lets any enabled pin resolve an `Edge`
(`gpio/src/lib.rs:301`). `CompletionIsOwn` and `NoOrphan` are therefore said of
the other slots, and what such a driver does is nobody's work in `AsyncPromise`.

The argument for the blocking calls. `LentBy` and `UpcallLive` say, for each
stage of a call, what it may be sharing then, and are inductive together. Most
steps move one frame's counter to a stage at which no less may be shared and add
to the queue at most an upcall for a registration in force; the lemma
`KeepsSafe` is about all of these at once. The others are `Lend`, `Unlend`,
`Subscribe` and `Unsubscribe`, each a lemma of its own. A reentrant call needs
no special treatment: each table entry names the call that lent last, whose own
drop comes first because the stack is popped from the top.

The argument for what they return. `Own` says of each slot whom it works for,
now over a stack: calls in progress are of different slots (`Alone`), a driver
serves the call of its slot that is accepted and has not heard (`OwnOperation`),
what waits in the queue is the answer to that call and then the driver is idle
(`OwnQueue`), and a call is registered from its subscribe to its answer
(`OwnFrames`). An answer therefore reaches the frame it is for, however many
listeners and calls of listeners ran in between. The bytes need one thing more:
from its first `lend` on the driver of the slot holds the call's own buffer
(`OwnLent`), which is where `Disciplined` is used. Refusals cost nothing: a call
that is refused leaves before it is accepted (`LeaveOwn`).

`StuckWasReported` needs another invariant, because it is about calls that do
share a slot (`Stuck`): a call that waits without its registration was reported
(`Reported`), and so was every waiting call below one of its slot that has
subscribed (`Overtaken`). The second makes the first inductive: a call drops the
registration of its slot only as it leaves, and by then it had subscribed and
taken it from the one below, unless it was refused before that. So nothing is
said when slots are shared and calls refused, and nothing holds then.

The argument for the executor. An arm's future is driven by the same steps as
in `AsyncCall`, so its invariant carries over once each step of `block_on` is
shown to be one of the most general application (`AsyncKept`). `Control` ties the
executor's place to the future's; `Dropped` says what is gone at each place.
`ReturnsClean` is then a matter of counting: every future is gone, and by `Core`
a table refers to nothing that is gone (`AllGone`). For `NoSleepOverReady`, an
arm found Pending in this round has no arguments at the yield, because nothing
in between delivers an upcall (`Looked`). That is exactly what fails for the arm
polled first when the second one makes a synchronous call.

The argument for the ring. `Laid` spells out where the frames lie: `Count` and
`Place` are the two remainders of `Pending` with the wrap written as a choice,
which `Wraps` justifies, an index being less than two rounds of the ring. A read
then moves each frame one place forward (`ReadsHead`); a put adds one behind the
last and, when that leaves the two indices equal, moves the reader too, so the
newest `N - 1` remain (`PutsLast`). That is arithmetic of any state. What makes
it a queue for the process is `Told`: an index is advanced only by a process
that saw the indices differ, or that was told of a frame by an upcall, which
stays true until the process has taken the ring back. The upcall says so only
because the driver drops a frame when it has no ring (`Shared`).

The argument for the pins. `ViewIsTrue` is not inductive: of two handles of one
pin, the step of one could falsify the view of the other. `OwnPins` adds that a
pin has one handle where each is taken once (`exclusive`), which is also when
the property says anything of a view; every step of a handle is then one of
`HandleSet`, which changes the handle and its pin together.

The argument for `AllowDb`. `Recorded` is the invariant its comment states, no
two recorded buffers overlap, and it is what makes the one neighbour enough: if
the last buffer that starts below the new one's end does not reach it, none
does (`Admitted`, from `Greatest`). `HeldRecorded` ties the record to the
drivers: what a driver holds is on record under its own address and length, and
no two hold the same; so what is handed back and removed by address is the
driver's own. The other direction is `RecordedHeld`: what is on record is held, or
a driver has let go of it without a word. What was let go of stays on record and
is never lent again (`LostRecorded`), because `Admitted` admits nothing that
overlaps a record, so nobody's handing back removes it (`LostKept`). `RecordIsTrue` also says that what waits in
the queue is of a registration in force (`QueueTyped`), for which a subscribe
must leave only what is of other drivers. `retain` is written like the kernel's
own `Purge`, by counting, and that its places exist is taken from
`TockKernel_proofs` as an instance (`Counting`). The rest is said of a step: a
call that the test makes fail uses up its expectation and nothing else.

The argument for the formatter. Who finishes a builder puts back what it changed
only if every layer in between did so too, and the stack has no bound in the
code. `Layered` therefore says that there are layers of settings, from those of
a fresh `Formatter` below everything to those in force above: a builder leaves
the layer as it found it, and a scope keeps the layer below it, which is what it
puts back. Adding or removing the top of the stack adds or removes a layer;
`Counted` says of the indentation that it is one for each step open and one for
each that a map or set left behind, and `StartsBehind` of a fixed width that it
began before what was written since.

The argument for numbers. The loop that fills writes `width - length` bytes, or
none, from the end of its buffer (`FillIs`), so the index it ends at is no less
than zero exactly when the width is within the buffer (`FilledUp`), and digits
within theirs are `DigitsFitIn`. What is said of the prefix and the sign comes
from putting these together case by case.

The argument for the line buffer (`LinesInv`). What was written so far is what
came out, what is in the buffer, the line on its way and the rest of the text,
one behind the other (`Written`), and that is numbered in ascending order at
every place in the code; a step cuts the rest in two (`CutsInTwo`), moves a part
of it across a border (`MovesBorder`) or, when a write fails, leaves the end of
it out (`DropsBehind`), and the order is that of the whole.

The argument for format strings. `Parse` is the macros' search for a brace and
what it finds behind it, `Scan` a reading from left to right, both recursive
functions over all strings of tokens. That each exists, and what it is at a
string from what it is at shorter ones, is shown once for any function defined
from arguments of smaller rank (`RecursionHasFunction`, `RecursionIsTyped`), by
the least rank at which it would fail, and gives `UnescapeIs`, `ParseIs` and
`ScanIs`. What remains is that `Parse` may be read by its first token, an escape,
an opening or a closing brace or another (`ParsesByFirst`, from `TextOfEscaped`,
`TextOfBad`, `TextOfOther` and `OpensBehind`), as `Scan` is; that they agree is
then again a matter of the shortest string at which they would not (`SameAlways`).

The argument for the stepper (`StopInv`). A movement has at most one upcall,
which says where the motor stands, and the motor stands still by then
(`EndIsTold`); a movement that ended before it was stopped has made all its
steps (`EndIsFull`). Where the process is tells what else can be queued: from
the press that it saw to the end, nothing but the motor's own upcall can wake
it, because the edge's listener is gone (`EdgesAreHeard`).

The argument for conversions and settings is arithmetic of any word size: a
quotient and its rest are named (`Divides`, `DividesOnly`) and products compared
by their factors (`ProductGrows`), since neither prover multiplies. A value is
then followed on its way into arguments, into what the driver keeps and back
(`RadioTravels`, `SpiTravels`, `ScreenTravels`, `LedsTravel`); that -1 survives a
word and a byte is that the one is a multiple of the other (`PowerTravels`).

The argument for the sensors. `ReportsAreTrue` says of every report that is
queued that it is what the sensor was given; `CallIsAlone` says of a blocking
call that began with the sensor idle that nothing is queued before its command
is accepted, and that what is queued after it is its own answer.

The argument for the bus and the buttons. What is left of the response is its
end, from where the process has read to (`ResponseIsRest`), so that each
transfer takes the next bytes however it is cut. What is queued of a button leads,
change by change, from what the listener was last told to the state it has
(`ChangesLead`); an upcall takes the first step off that path, a press adds one
at its end, and who begins to follow a button while a report of it is still
queued is not counted as following.

The arguments for the programs. Each invariant says what a place in the program
may take for granted of an answer it did not ask for. `ReadIsOwn` of doom: only
the reading in progress has the converter busy, and what is queued or sampled is
of its axis, as long as nothing was left behind at the start of the burst.
`RowsAreDrawn`: the rows above `y` are those of the frame; that a band may reuse
the line built for the row before is `LinesAreTrue`, by the least row that would
be wrong. `EndsAreTrue` of the wifi programs: an end of the scan in progress is
queued only once it has ended; `StopIsTrue` counts the stops made so far and says
at which of them a scan can still be only asked for. `SinceIsKept` of the
throttle ties the lockout to what was last seen. `StaleIsExcused` of the screen
probe: an unmarked attempt finds an answer of an older command only behind a
frame or write of its own that timed out, because `Poisons` looks at both
(`WriteIsOwn` is what then holds of the line). `DashInv` of the car: the engine
is never below its idle, so a clutch that slips lifts nothing, and what is on
the glass is what was drawn last, until a rectangle is refused. `ExitInv`: a
line that names an Exit call, wherever it stands in the output, is of a thread
that ran the closure of the place asked for, and so is the first of them.
`OwnSounds` and `OwnEnded` of the buzzer programs: the capsule plays a note of
theirs or keeps it waiting only while the program listens or is about to stop it,
or when the program is over and its stop did not end it, and not once its end has
been told; and every note before the current one has ended. `JitterInv`:
a wake is due a whole number of periods after the first reading and late by no
more than was gathered so far (`Punctual`), which a signed difference then
reads truly; the histogram counts the samples that were seen (`Counted`) and the
extremes are two of them (`Extremes`).

`RunnerInv`: the place of the main thread decides what has been built and run,
so an image that is deployed is one of this run; and what the child wrote is
what was printed and, behind it, what is still in the pipe. Under QEMU both are
taken byte by byte, as the loop in the code does (`Pushes`), and what the loop
makes of one byte more is what it made of those before and one byte's worth
(`CrlfLoops`, `LoopsAgree`). `FramesInv`: frames on the air and those received
are numbered in the order sent, a repeated one by the number it repeats
(`Ordered`), and a header is read field by field, so that what is printed is what
stands at that place, or nothing where it was cut (`ReadHeader`).

## 8. What is only model-checked

Every invariant and every action property of the passing runs is stated by a
theorem of section 7, and so are the two refinements. Left to TLC are:

* Liveness under fairness and `ENABLED`, which are out of the prover's reach:
  `AlwaysReturns`, `EveryCallReturns`, `LibraryGoesOn`, `ProgramsGoOn`, and that
  no run of the core deadlocks.
* The five violations of section 6, which are behaviours and need no proof, and
  what is said there of operators that no run checks (`OutstandingIsMarked`,
  `OnlyTheStickClears`).
* That the functions of `apis/` are of the kind the theorems on blocking calls
  ask for: a matter of the table in `DriverApis`, which TLC evaluates as an
  assumption (`EveryApiAssumption`).

No module declares a `RECURSIVE` operator. Recursive functions are proved about
by the least argument at which a claim fails, as above: the library's induction
theorems take an operator as a parameter and cannot be used.

## 9. What is not modelled, and why

* `runtime/` (start-up assembly, the instructions of each system call, the
  linker layout) lies below the abstraction of a system call; `panic_handlers/`
  print and terminate, and no state survives.
* `build_scripts/`, `demos/`, `syscalls_tests/`, `tools/` and `libraries/`
  configure, call or adapt what is modelled.
* The examples that are not named in section 2 call the APIs in straight lines,
  or draw fixed pictures; they keep no state that two actors could disagree on.
* ufmt's derive macro writes calls of the builders that `Ufmt` models; the code
  it writes is not modelled.
* Of the fake drivers: the key-value store and the low-level debug messages, a
  value kept and given back. Of the fake kernel: memop, the thread-local that
  finds the kernel, and the raw register form of a system call.
* Of the APIs: the packing of I2C addresses and lengths and the assertions on
  the first argument of an answer; the screen's counts and tables of modes; the
  buzzer's blocking tone beyond its call pattern.
* An abort of a console read that reports after the unsubscribe is the Tock
  kernel's, whose code is not here: the kernel in this repository reports inside
  the abort (`fake/console/mod.rs:168`).

What a continuation would take up: the I2C arguments;
the key-value store as an abstract map behind its API; a combinator of
`Executor` chosen anew in every round.
