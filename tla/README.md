# KDAMonitor in TLA+

A specification of the KDAMonitor kernel driver (`src/driver`): modules that
describe its sensors, its event queue, its log writer, its objects in the Windows
Filtering Platform (WFP) and its load and unload, TLC configurations that check
them on small instances, and proofs, checked by TLAPS, of what holds for every
instance.

## 1. The system

The driver observes a machine through four sensors. Each is a callback that the
kernel invokes on the thread, and at the moment, of the observed activity. A
sensor fills in a `KDAMON_EVENT` and pushes it into one queue; one system thread
pops the events and appends each as a line of JSON to a log file.

```
 process_callback  image_callback  registry_callback  wfp_callout (out, in)
        \                \               /               /
         +----------------+--- Push ----+---------------+      any thread, any time
                               |
                         event_queue          ring of 1024, spin lock, WakeEvent
                               |
                              Pop
                               |
                         log_writer thread ---> kdamon_<date>_<time>.jsonl
                               ^
              StopEvent, join  |   start
                         driver_entry         sets up / tears down all of the above
```

### Components, their state and operations

| Component | State | Operations | What makes it correct |
|---|---|---|---|
| event queue (`event_queue.c`) | ring, `Head`, `Tail`, `Count`, `NextId`, `DroppedEvents`, spin lock, `WakeEvent` | `Initialize`, `Push`, `Pop`, `GetWakeEvent` (`Count` has no caller, `Destroy` is empty) | a bounded FIFO whatever the interleaving; consecutive ids; a push that finds it full leaves no trace but the counter |
| log writer (`log_writer.c`) | `g_ThreadObject`, `g_StopEvent`, `g_LogFileHandle`, the thread | `Start`, `Stop`, the thread's loop, `WriteEvent` | no wakeup lost; the log in the order of acceptance, its gaps the events that were lost; nothing left after `Stop` |
| line format (`log_writer.c`) | buffers on the thread's stack | `JsonEscapeW`, `RegistryFormatValueData`, `Write...Event` | no write beyond a buffer, no field cut, no partial line, known which events can be too long |
| network sensor, WFP session (`wfp_callout.c`, `wfp_session.c`) | `g_EngineHandle`, callout and filter ids; objects in the Base Filtering Engine | `SessionInit`, `CalloutRegister`, `CalloutUnregister`, `SessionCleanup`, classify | a failed or ended load leaves nothing; a loaded driver has all of it |
| process, image, registry sensors (`..._callback.c`) | their registration, `g_RegistryCookie` | `Register`, `Unregister`, the callback | no callback without the queue and the writer; the fields show what the kernel gave; the log in the order of time, as far as time orders it; a key resolved whenever it can be |
| driver entry (`driver_entry.c`) | `g_DeviceObject`, the order of the above | `DriverEntry`, its failure cascade, `DriverUnload` | each failure undoes exactly what was done; an unload ends and leaves nothing |
| device (`device.c`) | device object, symbolic link | `CreateDevice`, `DeleteDevice` | the failure of the second leaves nothing of the first |
| echo IOCTL (`ioctl.c`), test client (`client/`) | none | echo | not part of the event path |

### What is hard in it

* **Interleaving.** Callbacks run on every processor, with the writer thread, and
  during load and unload. Only the queue has a lock; its fields are updated one
  after the other inside it.
* **A one-bit wakeup.** `WakeEvent` stands for any number of pushes and is reset
  by the wait, before the queue is drained.
* **Stopping.** `StopEvent` is seen only by the wait; the drain loop does not look
  at it, and network events keep arriving during the stop.
* **Order.** A sensor takes the time of its event before the lock that orders the
  events, and the registry callback uses a cookie that its own registration and
  unregistration write.
* **Partial failure.** Nine steps of `DriverEntry`, three of `LogWriterStart`,
  nine WFP calls can fail; each has its own way back. Failures of a write, of
  the formatting and of every deletion are ignored.
* **Limits.** A full ring, wrapping indices, `ULONG` counters that wrap, fields of
  260 characters filled by texts whose length is in bytes, buffers of 520, 600 and
  1000 bytes filled by text that escaping can double.
* **State that outlives the driver.** WFP objects of a non-dynamic session, the
  log file, and a thread that nobody joined.

`PROJECT.json` lists these hazards at their lines with the properties for them.

## 2. The modules

```
 BoundedFifo            what the queue promises
   ^ refines: EventQueue            how it does it, one memory access at a time
   |
 LogWriterThread        the thread's loop on that queue
   |
 LogWriter              Start, Stop, the file; what becomes of each event
   |
 Driver                 load, failure cascade, unload, the callbacks
   |
 NetworkSensor          what the WFP session and callouts promise
   ^ refines: Wfp                   how they do it, one system call at a time

 Sensors                time, cookie and order of the callbacks
 Capture <- LogRecord   from the operation of the kernel to the line of the log
 JsonEscape             the escape of a string
```

The modules above and below `Driver` meet in it: it builds on the abstract queue, which
`EventQueue` is proved to implement, and on the abstract network sensor, which `Wfp`
is proved to implement, so it repeats neither the ring and the lock nor the
WFP calls.

### BoundedFifo and EventQueue

`BoundedFifo` is the contract of the queue: `PushAccepted`, `PushDropped`,
`PopEvent`, `PopNothing` and `ConsumeWake`, each atomic. `EventQueue` is
`event_queue.c`. A thread holds its place in `pc`; `CallPush`, `DropWhenFull`,
`AssignId`, `Store`, `CountUp` and `Signal` are the statements of
`KdaMonEventQueuePush`, `CallPop`, `FindEmpty`, `Take` and `CountDown` those of
`KdaMonEventQueuePop`; `Acquire` and `Release` are the spin lock. The linearization point
of a push is `Signal` (`KeSetEvent` under the lock) or `DropWhenFull`, that of a pop
`Take` (where the head moves) or `FindEmpty`: the refinement mapping shows the queue as it was until
then. `ImplementsFifo` states the refinement.

### LogWriterThread and LogWriter

`thread` is the program counter of `KdaMonLogWriterThread`. The wait is three
actions: `SeeStop`, `SeeWake` and `Block`. With both objects signalled when the wait
begins, `KeWaitForMultipleObjects` takes the first, `StopEvent`; a thread that was
blocked resumes with whichever was signalled first. `PopToWrite`, `PopToWait` and
`WriteReturns` are the drain loop. `LogWriter` adds `KdaMonLogWriterStart` with a failure
at each of its three steps, `KdaMonLogWriterStop`, and the history: `accepted`, `log`
and `lost`. When `ObReferenceObjectByHandle` fails, `Start` closes the file under the
running thread: `WriteLost` covers what the thread then writes. `threadHandle` follows the
handle that `IoCreateSystemThread` returned: line 607 closes it, and after that failure
line 611 closes it again. What the kernel does then (nothing, a bugcheck under Driver
Verifier, the closing of somebody else's handle) is not modelled.

### Sensors

The callbacks, on any number of threads, from the call of the kernel (`Enter`) until the
event has an id (`PushAccepted`): `Stamp` is `KeQuerySystemTimePrecise`, `ResolveKeyPath` the
use of `g_RegistryCookie` by a registry callback. Meanwhile the registry callback is
registered (`StartRegister` to `RegisterReturns`; `GoLive` and `StoreCookie` are the two
effects of `CmRegisterCallbackEx`, in either order) and unregistered. A call remembers in
`known` how many events had been accepted when it was entered.

### Capture, LogRecord and JsonEscape

`Capture` is what each callback copies of an operation of the kernel into the
fields of a `KDAMON_EVENT`: `CopyBytes` compares lengths in bytes, as the process, image and network
callbacks do, `CopyChars` in characters, as the registry's do; `Observed` says which
operations go by. A text has a length in bytes, which may be odd, and a number of
characters before its first zero; a field has the index of its terminator and the
characters a reader meets.

`LogRecord` takes such an event through `KdaMonLogWriterWriteEvent` and the four
`Write...Event` functions. Text is its length, the numbers and fixed words of a line are a length
between the least and the most the format can produce (`Overhead`), and each
buffer on the stack is `Garbage` until written. `Escaped` is what `KdaMonJsonEscapeW` makes of a field;
when the escape does not fit it reports the truncation (`cut`). That `JsonEscape` makes strings
of just these lengths is the theorem `EscapeKeepsContract`.
No sensor produces thread events, so the `default` branch of the switch is not modelled.

`JsonEscape` is the loop of `KdaMonJsonEscapeW`, one action per branch, over characters
that are special (escaped), plain (copied) or other (dropped).

### NetworkSensor and Wfp

One action per system call of `wfp_session.c` and `wfp_callout.c`, with the engine's own
rules in `Addable` and `Delete`: a key exists once, references must exist, what is
referred to cannot be deleted. `engine` survives the unload, `fwps` is the kernel's
list of classify functions. `stuck` records that a deletion or close failed for a
reason that is not the driver's; without it nothing may remain.

`NetworkSensor` is the contract: phases `absent`, `starting`, `present`, `stopping`, and the
set of directions observed. `Wfp` implements it with the phase read off the next system
call (`NetPhase`) and a direction observed while its callout is registered and its
filter in the engine (`Observing`). A load whose second filter fails thus shows as a
sensor that observed one direction for a while.

### Driver

`Components` is the order of `DriverEntry`, and `up` counts those that are set up. Device
object, symbolic link and the three host sensors are each one `SetUp`, the queue is `SetUpQueue`; the log
writer is `Start` of `LogWriter` between `StartWriter` and `WriterStarted`; the network
is `NetworkSensor`, from `StartNetwork` by way of `StartObserving` for each direction.
`SetUpFails` and `StartNetworkFails` jump to the label that takes down what is up. One walk down stands for
`DriverUnload` and for the cascade of `DriverEntry`, because the cascade's labels are in
the unload's order. Removing a callback is two steps: the registration goes
(`Unregister`), and the call returns once the callbacks in progress have
(`Unregistered`, `StopNetwork`). A callback is `BeginCall`, and `EndCall` when it pushes, so that
loads and unloads fall between. Because the network comes before the queue, a push can meet
`KdaMonEventQueueInitialize`. It has one of these outcomes: it follows the zeroed `WakeEvent` and crashes, or is
torn by the zeroing or by the reset of the lock it holds (`PushCrashes`: `bugcheck` stands for both, and the run ends
there); it is wiped, with its wakeup left behind (`SetUpQueue`); or it takes effect on the initialised queue (`EndCall`). Loads repeat without end, and a load clears the globals, unless the thread of
a failed load keeps the image mapped.

### Modelled from outside (external)

* `KeAcquireSpinLock`/`KeReleaseSpinLock` exclude; a synchronization event is reset by
  the wait it satisfies; `KeWaitForMultipleObjects` takes the first signalled object.
* `PsSetCreateProcessNotifyRoutineEx(..., TRUE)`, `PsRemoveLoadImageNotifyRoutine`,
  `CmUnRegisterCallback` and `FwpsCalloutUnregisterById` return when the calls in
  progress have; in `Driver` the callbacks of one sensor in progress count as one.
  The first two return a status that the code only logs (`process_callback.c:52`,
  `image_callback.c:51`), the last two one that it ignores (`wfp_callout.c:288` and `295`). They fail for a routine, cookie
  or id that is not registered, and `FwpsCalloutUnregisterById` for a callout with flow
  contexts; the driver unregisters only what it registered and creates no flow contexts, so that in
  `Driver.Unregister` and `Wfp.UnregisterCallout` they succeed. Were they to fail, a callback would outlive the driver.
* `CmRegisterCallbackEx` may call the callback before it stores the cookie; a cookie is
  good until `CmUnRegisterCallback` returns; the system time does not go back.
* `IoCreateSystemThread` keeps the driver's image mapped while its thread runs.
* `KeSetEvent` on a zeroed event follows a NULL list link (the bugcheck described in
  `docs/crashes.md`).
* The Base Filtering Engine: the rules of `Wfp`. Objects are not persistent but outlive
  the session.

## 3. The runs

| Run | Instance | Properties | What it shows |
|---|---|---|---|
| `event_queue` | 2 producers, writer, ring of 3, ids mod 3 | `TypeOK`, `MutualExclusion`, `RingConsistent`, `ImplementsFifo`, `SectionsFinish` | every interleaving of pushes and pops is a bounded FIFO |
| `log_writer_thread` | queue of 3, ids mod 4, pushes without end | `ThreadTypeOK`, `NoLostWakeup`, `EveryEventIsPopped`, `StopEndsThread` | the one-bit wakeup suffices; a stop ends the thread once pushes cease |
| `log_writer` | see `MCLogWriter`; one content whose record is too long, every call may fail | `WriterTypeOK`, `Accounting`, `GapsAreLosses`, `CleanLifecycle`, `EveryEventSettles` | where events go, and that the log shows what it lacks; `Stop` leaves nothing |
| `driver` | loads without end, one host sensor and both directions of the network active, queue of 2, 3 events a load, every step may fail | `DriverTypeOK`, `CallsHaveTheirSupport`, `NothingLeft`, `UnloadEnds` | loads, failed loads and unloads under activity |
| `wfp` | loads without end, every call may fail, at most 2 open sessions | `WfpTypeOK`, `AbsentOnUnload`, `NoDanglingClassify`, `LoadedIsComplete`, `LeftProviderBlocksLoads`, `ImplementsNetwork` | what a failure leaves in the filter engine, what it does to the next load, and that the driver can rely on the sensor all the same |
| `sensors` | 2 threads, process and registry callbacks, 3 events, 3 values of the clock | `SensorsTypeOK`, `InOrderUnlessConcurrent`, `KeyPathKnown` | how far the log is in the order of time, and when a key's path is missing |
| `log_record` | the real sizes, texts and data of extreme and boundary lengths | `RecordTypeOK`, `FieldsFaithful`, `NothingPrintedUnset`, `NothingCut`, `OnlyRegistryValuesTooLong` | what the kernel gave is in the fields and from there in the line, or the line is known to be too long |
| `json_escape` | all strings of up to 5 characters, buffers of 0 to 11 bytes | `EscapeTypeOK`, `StaysInBuffer`, `LongestPrefix`, `RoomyNeverTruncates` | the escape against a reference definition |

Four more runs each check one statement of the repository's documents that the
code does not keep; TLC shows how (section 6).

### Bounds

* **Size.** A ring of 3 has an inner slot besides the two at the wrap and can be
  empty, partly filled, full with either end at the wrap; a queue of 2 or 3 is
  enough for drops, wakeups with several events and drains that find more.
* **UlongMax.** Where events are not counted (`EventQueue`, `LogWriterThread`) the id
  counter is a few values wide, so that it wraps several times in a run. Where
  ids name events in a history (`LogWriter`, `Driver`) it is at least `MaxEvents`, so that they do not
  wrap; the proof of `EventQueue` covers the wrap for every width.
* **MaxEvents.** 3 events or more with a queue of 2: accepted, dropped, written and
  queued events coexist. A callback in progress counts against it.
* **Contents, Threads, Active.** One host sensor stands for the three, which are treated alike;
  both directions of the network, because a load can fail between them. Two threads are enough
  for one callback to overtake another; the process sensor stands for the ones without a key.
* **MaxTime.** With three values of the clock an event can be dated before, at and
  after another. Time and events may end there, callbacks go on: they drop.
* **Lengths.** The sources of `json_escape` exceed the buffer from every side by more
  than the two bytes a step can write; `log_record` takes texts that
  are absent, empty, of an odd number of bytes, as long as a field has room for, one byte and one
  character longer, of the greatest length a `UNICODE_STRING` has and with a zero inside, and a name with which
  the line fills `EventBuffer` exactly. An escape has no, as many or twice as many characters.
* **MaxOpen.** One session that failed to close beside the current one.

Deadlock is checked where the system goes on for ever (`event_queue`,
`log_writer_thread`, `sensors`, `log_record`, `wfp`). It is not where the system really
stops: a function returned (`json_escape`), a stopped writer with all its events accepted
(`log_writer`), a system that crashed or a thread that keeps the image from being loaded again (`driver`).

### Fairness

* The holder of the spin lock runs at `DISPATCH_LEVEL` and is not preempted: each step
  of a critical section is weakly fair (`SectionsFinish`). Nothing is assumed of who wins the lock.
* A thread that is ready is eventually scheduled: the writer thread, `DriverEntry`,
  `DriverUnload` and a callback that has begun are weakly fair.
* Nothing makes a callback begin, the driver load or unload, or a call fail.
  Properties that need the pushes to pause say so as a premise
  (`StopEndsThread`, `UnloadEnds`), because the code does not ensure it. In `Driver` the pushes of a load
  are bounded as well (`MaxEvents`): that endless pushes keep a drain from ending is in
  `LogWriterThread`, whose pushes never end, and `UnloadEnds` adds the callbacks that the unload waits for.

## 4. What the properties say

* `MutualExclusion`, `RingConsistent`, `ImplementsFifo`: of the queue's
  fields whenever the lock is free, and of its behaviour at all times.
* `NoLostWakeup`: a thread that has not reached its drain loop never waits in
  front of events with `WakeEvent` reset. `EveryEventIsPopped` is its liveness side.
* `Accounting`: an accepted event is in exactly one of the queue, the thread's
  hand, the log and the losses. It is conservation only, as a loss is one of the places.
  `GapsAreLosses` is what a reader of the log can conclude: its ids ascend, and an id is skipped only
  because the write of that event failed or its record was too long. A full queue leaves no gap,
  and an ignored failure of `WriteEvent` costs no other event.
* `CleanLifecycle`: after `Stop` no thread, object or file; while the writer of a successful `Start` runs,
  object and file. `Start` closes the thread's handle once when it succeeds, and twice exactly when it
  fails with the thread created: the defect is stated, not excused, and a correction of the code would
  change this line. That the thread itself is left over is `FailedLoadStopsThread` (section 6).
* `StaysInBuffer`, `LongestPrefix`, `RoomyNeverTruncates`: the escape writes a
  terminated string inside its buffer, the escape of the longest prefix that
  fits, and all of it when the buffer exceeds twice the source.
* `InOrderUnlessConcurrent`: an event accepted before a later event's callback was entered is
  not dated after it. Only the events of overlapping callbacks can be out of order in the log.
* `KeyPathKnown`: a callback lacks the cookie only if it was entered before the registration
  returned, never for an unregistration. `SensorsTypeOK` ties the cookie to the registration.
* `FieldsFaithful`: by whichever of the four ways a text was copied, its field is terminated
  inside the array and shows the text, or as much of it as there is room for.
* `NothingPrintedUnset`, `NothingCut`, `OnlyRegistryValuesTooLong`: no buffer is read before it
  is written; no escape and no value data is ever cut, so that the statuses that are ignored are
  harmless; and only registry values that are set under more than 158 characters of key and
  name, or deleted under more than 413, can be lost for the length of their line.
* `AbsentOnUnload`, `NoDanglingClassify`, `LoadedIsComplete`, `LeftProviderBlocksLoads`: the
  WFP objects are gone after every failed load and every unload unless the engine fails;
  the kernel's pointers are gone even then; a driver never runs on leftovers; and
  a provider that was left blocks every later load. `ImplementsNetwork`: `Wfp` is a `NetworkSensor`.
* `CallsHaveTheirSupport`: process, image and registry callbacks run only between a
  successful start of the writer and its stop, classify functions only while
  device and session exist. `NothingLeft`: an unloaded driver has no object,
  registration, direction observed, call or file, and no thread unless `KdaMonLogWriterStart` failed. `UnloadEnds`: an unload comes to its end.

Each module also holds operators whose comment begins "Faulty:". They are never part
of a specification. Each is a plausible mistake in the definition after it, and
`PROJECT.json` pairs it with the property that rules it out.

## 5. What is proved

The proofs hold for every value of the constants that satisfies the modules' named assumptions.

| Theorem | Of | Argument |
|---|---|---|
| `TypeCorrect`, `Exclusion`, `RingAgrees`, `IdsConsecutive`, `Refinement`, `SectionsAreShort` | `EventQueue`, any ring size, counter width and set of producers | `IInv` describes the ring at every line of the critical sections: which fields the holder of the lock has already updated. Each action keeps it, and under it each maps to an action of `BoundedFifo` or to a stutter. `SectionsAreShort` is the safety half of `SectionsFinish`: the steps left until the release (`StepsToRelease`) only go down, and nobody else touches what the holder has read |
| `ThreadTypeCorrect`, `NoWakeupIsLost`, `ThreadUsesQueue` | `LogWriterThread` | `ThreadInv`; an event is queued only together with the signal, and the signal is consumed only on the way to the drain loop, which is left only with the queue empty. Every step is one of `BoundedFifo` or leaves it alone |
| `WriterTypeCorrect`, `LifecycleIsClean`, `LossesShow`, `EveryEventAccounted`, `TimelineIsPrefix`, `WriterUsesThread` | `LogWriter`, any queue, number of events and set of records too long | `WriterInv` is `Control` (which of thread, object and file exist at each point of Start and Stop) and `History` (log and losses together are the events before the one in hand; in hand and queue are the rest), from which a skipped id is that of a lost event. With `LinesAreSettled` (while nothing is lost the settled events are the lines, one by one) the log is a prefix of what was accepted |
| `EscapeTypeCorrect`, `EscapeStaysInBuffer`, `EscapeOfRoomyIsWhole`, `EscapeIsLongestPrefix`, `FieldReadsAsString`, `EscapeTerminates`, `EscapeKeepsContract` | `JsonEscape`, any source and buffer | `Room`: before the return there is room for the terminator, and at most two bytes are written per character. `CopiedSoFar`: until then the bytes are the escape of the characters consumed, which with one character more grows by that character's escape (`EscapedPrefix`). `ReadsAsString` names the backslashes that escape; a pair or a plain character may follow. `StepsLeft` is the loop's variant |
| `FieldsAreFaithful`, `RecordTypeCorrect`, `BuffersAreSet`, `NothingIsCut`, `OnlyValuesTooLong` | `LogRecord` with `Capture`, any operation with texts of any length, any escapes | `CopiesFaithful`: the copies by bytes and by characters come to the same. An invariant with which buffer is set in which branch and how long it can be; the rest is the arithmetic of the formats |
| `SensorsTypeCorrect`, `LogInOrderOfTime`, `CookieKnown` | `Sensors`, any number of threads, sensors, events and ticks | `SInv`: `CallsPast` (what was accepted before a callback was entered is not dated after its stamp) and `CallsHold` (a registry callback in progress keeps the unregistration from returning) |
| `WfpTypeCorrect`, `UnloadedIsAbsent`, `ClassifyNeverDangles`, `LoadsAreComplete`, `LeftProviderIsFinal`, `SessionImplementsSensor`, `IdsTellTheTruth`, `CascadesEnd` | `Wfp`, any number of loads, any failures | `WfpInv`: what the kernel's list and the globals say of each other (`KernelKnown`), what a load has added by each call (`Built`), what an earlier one can have left (`Leftovers`), that nothing is there that should not be while no deletion failed (`Clean`). Under it each call is a step of `NetworkSensor` or a stutter. `CallsLeft`, the calls until the driver is gone, goes down with each of them |
| `DriverTypeCorrect`, `CallsAreSupported`, `NothingIsLeft`, `DriverUsesSensor`, `TimelineOfLoad`, `WriterOfLoad`, `HostGoesFirst`, `CrashIsEarly` | `Driver`, any queue, number of events, set of active sensors and of records too long | `DriverInv`, in terms of the set `Up` of the components that are up: which objects exist (`Placed`), that a callback registered or in progress belongs to a component that is up (`Awaited`), and where the network and the writer are in their own lives while they are up and while they are not (`NetworkPlaced`, `WriterPlaced`, with `Control` of `LogWriter`). `WriterInDriver`: every step of the driver but `Load` and `SetUpQueue` is one of the log writer or leaves it alone; `Load` starts it afresh, and `SetUpQueue` finds it so (`FreshWriter`). `EarlyInv`: before its queue is set up a load has not come to its writer, and a crash finds it there |

`CallsHaveTheirSupport` and `NothingLeft` are not inductive: that no host callback outlives the writer
follows from the order of `Components` only if every callback in progress is known to belong to a component
still up, which is `Awaited`. `AbsentOnUnload` needs `Clean` at every call of the way down, because
what the engine refuses to delete depends on all that refers to it.

The theorems join the modules, so that what is proved of one may be used in the next:

* the queue: `EventQueue` implements `BoundedFifo` (`Refinement`), and `LogWriterThread`
  keeps to it (`ThreadUsesQueue`); `LogWriter` keeps to the thread (`WriterUsesThread`), and
  what is proved of the log writer holds in the driver, load after load (`TimelineOfLoad`, `WriterOfLoad`);
* the network: `Wfp` implements `NetworkSensor` (`SessionImplementsSensor`) and the driver
  keeps to it (`DriverUsesSensor`);
* the escape: `LogRecord` takes any lengths that its assumption and `Escaped` allow, and
  `JsonEscape` makes no others (`EscapeKeepsContract`).

Where a document claims more than the code does (section 6), a theorem states how much is true:
`HostGoesFirst` for `ProducersGoFirst`, `CrashIsEarly` for `QueueBeforeProducers`, `TimelineIsPrefix`
for `TimelineComplete`, and the last conjunct of `NothingLeft` for `FailedLoadStopsThread`.

`Escaped`, the reference of `LongestPrefix`, flattens a sequence of sequences, which the library
defines by recursion. The provers cannot instantiate an induction rule over a predicate, but they can
one over a set: `NatSetInduction` follows from the existence of a least natural outside the set
(`WellFoundedInduction`), and from it what `FlattenSeq` makes of one sequence more (`FlattenAppend`).

Only model-checked: all liveness, because fairness and `ENABLED` are beyond the prover
(`SectionsFinish`, `EveryEventIsPopped`, `StopEndsThread`, `EveryEventSettles`, `UnloadEnds`). Of
termination the proofs have the half that is safety: `SectionsAreShort`, `EscapeTerminates` and `CascadesEnd`
give a natural number that every step reduces; that a step is possible as long as it is not zero, and is
taken, is not proved. The theorems above that name no property of section 3 were found to hold
on the instances of the runs before they were proved; no run lists them.

## 6. Where code and documents disagree

| Run | Statement | What TLC shows |
|---|---|---|
| `driver_producers_first` | CHANGELOG: all event producers are unregistered before the log writer and queue are torn down | `DriverUnload` stops the writer (line 28) and destroys the queue before it unregisters the WFP callouts (line 34) |
| `driver_queue_first` | CHANGELOG: callouts are registered right after the event queue init | `DriverEntry` registers them before (line 71 against 79); a connection in between pushes into a zeroed queue |
| `driver_failed_load` | CHANGELOG: the cascade that "skipped log writer thread shutdown on process callback registration failure" was corrected; the failure inside `KdaMonLogWriterStart` is the path that still skips it | when `ObReferenceObjectByHandle` fails the thread runs on and the driver cannot be loaded again |
| `driver_timeline` | README: a full timeline | the thread that sees `StopEvent` does not drain the queue |

## 7. Not modelled

* The echo IOCTL (`ioctl.c`) and the test client: two length checks and the copy of one number, a single
  sequence of calls. Neither keeps state that anything else depends on; handles that a client has
  open keep device object and driver in place by the I/O manager's count, not by this code's.
* Addresses, ports, process ids and flags of an event, which go from the kernel to the line unchanged;
  the wording of lines; debug output; `guids.c`.
* The name of the log file. It has the resolution of a second, so that a load within the same second
  as an earlier one appends to its file; `Driver` has no clock.
* The `default` branches of `WriteEvent` and of the registry's `action`, which no sensor reaches, and thread events, IPv6 and
  the usermode reader, which do not exist yet.

The modules cover every operation of the code that changes state. What could still be
added is detail inside `KdaMonLogWriterOpenFile` (two directories and the file, one
failure each) and the numbers of the records.
