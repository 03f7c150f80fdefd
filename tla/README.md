# A TLA+ model of PipeWine

PipeWine is an ASIO driver for Wine: a COM object that a Windows audio
application (the host) loads, and that plays and records through a PipeWire
filter.  The repository also holds RtAudio, the library through which its host
programs reach ASIO and the sound systems beside it.  These modules model both,
check them with TLC on small instances and prove their main invariants with
TLAPS.  The groups of modules: the threads of the audio path; one driver object
through its methods; the helper that knows the server's nodes; the work that the
helper does for others; the driver as something that is installed, loaded and
set up; and of RtAudio the way of the samples and the life of a stream.

## 1. The system

### Parts, state, operations

| Part | Source | State | Operations |
|---|---|---|---|
| Callback manager | `asio.c` 353-585 | `g_callback_manager`: thread handle, lock, two auto-reset events, the request (driver, half), `callback_pending`, `thread_should_exit` | `init_`, `marshal_`, `cleanup_asio_callback_manager`, the Wine thread `asio_callback_thread_proc` |
| Process callback | `asio.c` 653-773 | `asio_buffer_index`, the two halves of each channel buffer, sample position | one call per PipeWire cycle, on the data thread |
| Driver methods | `asio.c` 857-1960, 2560-2619 | `asio_driver_state`, `pw_filter`, `asio_callbacks`, `wine_buffers`, reference count, channel flags, sizes | `Init`, `CreateBuffers`, `Start`, `Stop`, `DisposeBuffers`, `Release`, and queries |
| Control panel | `asio.c` 1970-2205, `gui/` | the panel pointer, the configuration on display | `ControlPanel`, `GuiApplyConfig`, `GuiLoadConfig`, `GuiClosed` |
| Filter events, deferred connect | `asio.c` 587-652, 775-857 | `asio_buffers_left_to_init`, a barrier | `add_buffer`, `state_changed`, worker callback |
| PipeWire helper | `pw_helper.cpp` | init state, bound proxies, default nodes, node information | create, round trip, lock, registry events, find node |
| Deferred operations | `pw_helper.cpp` 608-687 | `pending_operation`, `operation_userdata` | schedule, process |
| Thread creation | `asio.c` 2431-2456, `pw_thread.inc.cpp` | one global structure and event | `jack_thread_creator` |
| Configuration | `asio.c` 2540-2879, `pw_helper.cpp`, `pw_config_utils.c` | registry, environment, file | `configure_driver`, `store_config` |
| COM server, registration | `main.c`, `regsvr.c` | reference counts, registry keys | class factory, `DllRegisterServer` |
| RtAudio, samples | `rtaudio/RtAudio.cpp` | formats, channels, offsets, byte order and buffers of a stream | `getDeviceInfo`, `probeDeviceOpen`, `setConvertInfo`, `convertBuffer`, `byteSwapBuffer`, the part of `callbackEvent` that moves samples |
| RtAudio, streams | `rtaudio/RtAudio.cpp` | `stream_.state`, the handle, `isRunning`, `runnable`, `drainCounter`, condition variables | `openStream`, `startStream`, `stopStream`, `abortStream`, `closeStream`, `callbackEvent`, the threads around it |

All of these are modelled; what is left out of each is in section 6.

### How the parts interact

* The **application's thread** calls the driver methods one at a time.
* PipeWire's **data thread** of a driver calls the process callback once per
  cycle while the filter is connected.  The process callback tests the driver
  state, copies the inputs, asks the callback manager for the host's
  `bufferSwitch` and copies the outputs.
* The **control panel** is a modal dialog that the application's thread runs; a
  confirmed change is applied to the driver at once, whatever its state.
* The **loop thread** of the helper handles what the server sends; `Init`
  looks nodes up in the same table, by name or the default one; an enumeration
  is offered to the panel, which does not use it in its current form.
* The **Wine thread**, one per process, executes `bufferSwitch` while it holds
  `callback_lock`.  The data thread waits for it at most 100 ms.
* `CreateBuffers` starts the Wine thread, `DisposeBuffers` and the last
  `Release` stop it: ask for the lock, set the exit flag, set the event, wait
  at most 5 s, destroy lock, events and memory.
* Any thread may have the loop thread **work** for it: it stores an operation,
  takes it out again and waits for the loop.  The one operation there is
  connects the filter, during which PipeWire may ask `jack_thread_creator` for
  its data thread.
* A host process **loads** the driver through what the registration has written;
  its `Init` reads registry, files and environment, its panel writes them for
  the next process.
* In **RtAudio** the host's thread calls the methods of one stream; a callback
  thread of RtAudio's own (ALSA, PulseAudio, OSS) or the driver (ASIO, JACK,
  CoreAudio) calls the host back, and what the callback returns may stop the
  stream, from a third thread.

### What is hard here

Three threads meet in one global structure with a lock, two events, two
timeouts and several plain variables (`asio_driver_state`, `asio_callbacks`,
`asio_buffer_index`) read and written without any lock.  A timed-out request
is answered later; a cleanup may stop waiting for a thread; a method may run
between the test of a pointer and its use; several driver objects share the
one manager.  The helper's slot for a pending operation and the structure of
the thread creator are one for all callers.  Registration and configuration are
sequences of writes that a failure or a kill cuts anywhere.  In RtAudio a stream
is deleted by one thread while others are on their way to it; condition
variables are waited on without a predicate or without their mutex; and the same
conversion is written out once per back end.  `PROJECT.json` lists the hazards
with their lines.

### What makes each part correct

* Manager: no wake-up is lost; a wait that succeeds means that *this* request
  was executed; lock, events and memory outlive their users; the cleanup
  returns.
* Process callback: it returns; it never copies a half the host is working on;
  each cycle has the host called exactly once.
* Driver methods: buffers and callback table outlive the callback that uses
  them; no thread is left after `DisposeBuffers`; a running driver has a
  manager; the host is not called after `Stop`.
* Control panel: a running cycle never sees sizes that do not fit its buffers.
* Helper: nobody waits for ever, no node is used after removal, the lock that
  is released is the one that was taken.
* Deferred work: an accepted operation is executed once before its call returns;
  a created thread runs its own function, and its creator learns its own thread.
* Configuration, registration, COM server: a confirmed setting is read by the
  next process; a reported result is so; the module lives as long as it is held.
* RtAudio: a sample arrives where it was meant for, in value and in place; no
  access leaves a buffer; what a device is said to do it does; no thread uses a
  deleted handle; nothing is played after a stop; methods return.

## 2. The modules

| Module | What it is |
|---|---|
| `CallbackManager` | state of manager, Wine thread and marshalling data threads; one action per step between two points where another thread can act |
| `AudioStream` | EXTENDS it with the process callback and the driver methods; `Spec`, the fairness, all properties |
| `SynchronousCall` | abstract specification: a cycle is a synchronous call of the host |
| `MCAudioStream` | instance for TLC |
| `AudioStreamProofs` | types, no lost wake-up; one driver open at a time: the life of the manager; until a wait times out: no torn half, no buffer freed under the host; with a prompt Wine thread: no fault, each step one of `SynchronousCall` |
| `DriverMethods` | one driver object: every method with its failures, the array of channels, the sizes, the copies of a cycle, the panel |
| `AsioProtocol` | abstract specification: the states a host knows, and the buffers in each |
| `MCDriverMethods` | instance for TLC |
| `DriverMethodsProofs` | types, accesses within bounds, `DriverMethods` implements `AsioProtocol`; for a careful user and host no fault, silence at a start, every channel served |
| `PwHelper` | server, loop thread and client around the table of nodes, with the conditional lock |
| `MCPwHelper` | instance for TLC |
| `PwHelperProofs` | lookups after the round trip are exclusive |
| `ThreadCreator` | `jack_thread_creator` and the threads it has made |
| `HelperWork` | EXTENDS it with the scheduling, the loop thread, the filter's events and the waits for its state |
| `DeferredCall` | abstract specification: a call is executed once before it returns |
| `MCHelperWork` | instance for TLC |
| `HelperWorkProofs` | types, who owns the pending operation and the shared structure, `HelperWork` implements `DeferredCall` |
| `Configuration` | settings as functions from sources: registry, files, environment |
| `Registration` | the writes of `DllRegisterServer` and `DllUnregisterServer`, with what earlier ones left |
| `ComServer` | counts of factory, objects and module, several host threads |
| `Server` | EXTENDS the three: processes that are started, use the driver, confirm settings and end or are killed |
| `MCServer` | instance for TLC |
| `ServerProofs` | counts, loading and reports; confirmed settings |
| `RtConvert` | formats, `convertBuffer`, `setConvertInfo`, `byteSwapBuffer` as operators on buffers |
| `RtDevices` | `getDeviceInfo` and `probeDeviceOpen` of ASIO, JACK, ALSA, PulseAudio and OSS |
| `RtCoreAudio` | the same for CoreAudio, whose devices have several streams |
| `RtData` | EXTENDS them with `openStream` and the cycles: one round of samples to and from the devices |
| `MCRtData` | instance for TLC: devices and requests |
| `RtDataProofs` | what an open stream has, that `getDeviceInfo` is true, accesses within the buffers |
| `RtSampleProofs` | EXTENDS it: samples arrive, in value and in place |
| `RtApi` | state, handle and processes of a stream, and `openStream` |
| `RtThreads` | EXTENDS it with the back ends that have a callback thread |
| `RtDrivers` | EXTENDS it with the back ends that are called by a driver |
| `RtStream` | both together, fairness and properties |
| `MCRtStream` | instance for TLC |
| `RtStreamProofs` | handles outlive their users, nothing is played after a stop |

`AudioStream` and `DriverMethods` divide the methods of a driver between them.
The first interleaves them with the other threads and abstracts channels and
sizes to "the half"; the second has channels, sizes, rate, references and
failures, and a process cycle is one step.

### `CallbackManager` and `AudioStream` and the code

* `rt[d]` is where the data thread of driver `d` is in the process callback
  (`idle`, copying `input`, about to `call`, at `enter` of the lock, about to
  `signal`, `waiting`, copying `output`); `half[d]` is the local
  `input_buffer_index`, then `current_buffer_index`.
* `wine` is where the Wine thread is: `wait`, `enter` the lock, `decided` to
  call (pointer tested), `calling` the host, `leave` the lock, `signal`.
* `app` is where the application's thread is, and in which driver's method.
  `Start` and `Stop` are two steps (buffers cleared; index and state set) since
  a cycle can run in between; `DisposeBuffers` is five (filter disconnected and
  destroyed; callback table and buffers gone; exit flag; event; join and
  destruction).  `CreateBuffers` is one step: nothing runs for that driver
  before it ends.  `Release` and `DisposeBuffers` of a driver that runs or has
  buffers are sequences of the methods they call.
* The events are booleans: auto-reset, a set event set again stays set.
* `callback_lock` is `free`, held by `wine`, or `deleted`.  The sections of the
  other threads contain nothing that blocks and are one step each.
* `fault` records undefined behaviour: a lock used after deletion (`lock`), a
  call through the cleared table (`null`), a cycle on a freed object
  (`object`), a thread surviving into a new manager (`thread`).  The behaviour
  ends there.
* `given_up` is a history variable: a wait of 100 ms has timed out since
  `init_asio_callback_manager` made the manager.  The code remembers nothing of
  the kind, which is why one timeout can put all later cycles out of step.

Parameters: `Drivers`, `NoDriver`; `Late`, the points at which the Wine thread
may be for more than 100 ms (a data thread's wait may time out there); `Stuck`,
those at which it may be for more than 5 s, which only the host's own code can;
`Exclusive`, whether the application releases a driver before it opens the
next; `Failures`, the steps at which `CreateBuffers` may fail (`connect`,
`paused`, `events`, `thread`).

### `DriverMethods` and the code

* A slot is an index of the one array that `Init` allocates, inputs first:
  `active`, `buffer_size` and `wine_buffers` are fields of its elements.
  `allocated` are the numbers of channels it was made for, `wineasio_number`
  those that are configured now, `asio_active` those a host asked for.  Three
  different loops run over these three numbers, and that is the subject.
* `dirty` are the slots whose buffers hold samples: a cycle adds to it, the
  clears of `Start` and `Stop` and the allocation of a buffer take away.
* `Confirm` is the panel with its changes (`GuiApplyConfig`), `GuiClosed` a
  cancelled one, `PanelReturns` the return of the dialog, which stores the
  pointer of a panel that is closed.
* `CreateBuffers` has three outcomes: it succeeds, it stops before the first
  buffer (`CreateBuffersStops`), or after some or all of them
  (`CreateBuffersKeeps`), each leaving behind what the code leaves.
* `fault`: an index beyond the array (`bounds`), the array after it was freed or
  a cycle on a freed object (`dangling`), a copy beyond a buffer (`overrun`), a
  NULL filter used (`filter`), a rate of 0 as a divisor (`zero`).

Parameters: `MaxChannels`, `Sizes`, `Durations`, `Rates`; `FixedSize`; what the
user changes in the `Panel`; the liberties of the `Host` (`sparse`: any subset
of the channels instead of the first ones, `size`: any size, `reference`: a
second reference); the `Failures` (`init`, `connect`, `paused`, `memory`,
`manager`).

### `PwHelper` and the code

* `server`, `announced`, `asked` and `wire` are the server and the connection:
  objects appear, are announced, described, change and disappear, and the
  messages about them arrive in order.  Not in `src/`: modelled as the code
  uses it.
* `loop` is the loop thread: a registry handler is two steps (lock; change and
  unlock), a node handler too (it takes no lock), the others are one.
* `client` is the client's thread: `create_helper`, `wait_for_roundtrip`, then
  lookups: by name (`find`), of the default node (`default`, with the spin of
  `wait_for_nodes_init` under both mutexes), or of all nodes (`enumerate`).
* `LoopLocks`, `LoopUnlocks`, `ClientLocks` and `ClientUnlocks` each read
  `init_state` for themselves, as `Helper::lock` and `Helper::unlock` do.
* `fault`: a mutex released that is not held (`unlock`), two threads in the
  table (`table`), a node's properties read while they are rewritten (`torn`).

### `HelperWork`, `ThreadCreator` and the code

* `pending_operation` and `operation_userdata` are the fields of the helper, with
  a Boolean for "not NULL"; `client[c]` is where a thread is between scheduling
  and return (`scheduled`, `taken`, `queued` in `pw_loop_invoke`, `executed`),
  or in `wait_for_filter_state` (`waiting`) or a triggered processing.
* `loop` is the loop thread.  A step of another thread under the lock of the
  loop is possible only while it polls; `pw_loop_invoke` releases the lock.
* `creator` and `helper[k]` are the two sides of `jack_thread_creator`.  The
  creation is numbered, and everything that belongs to it has its number, so
  that a mix-up shows as two different numbers.  A new thread reads its function
  and its argument after it has set the event, when the next creation may have
  begun to overwrite them; `overtaken` is a history variable with the threads to
  which that has happened.
* `buffers` and `asio_buffers_left_to_init` are what `add_buffer` changes.  The
  counter is never set, so that it begins with whatever the memory of the object
  holds (`LeftToInit`); at 0 the loop thread waits at a barrier that nobody has
  initialized, which may last for ever (`hung`).  The run takes the 1 that gets
  there at once.

Parameters: `Clients`, `Ports`; `MaxCalls` and `MaxThreads` bound what happens;
`MayHang`, whether `CreateThread` fails or the barrier blocks.

### `Server` and its parts and the code

* `ComServer`: `cf_ref` and the objects' counts change in the atomic steps that
  the code takes; `at[t]` is where a host's thread is in `CreateInstance` or
  `Release`.  `strays` are the loop threads of drivers that were released: no
  count stands for them, and `DllCanUnloadNow` does not see them.
* `Registration`: `keys` are the registry keys that exist; a call is a sequence
  of writes (or deletions), each of which may fail or be the last before a kill.
  Any set of keys that earlier calls can leave is a start.
* `Configuration`: a source is a function from the names it has; `Missing` and
  `Malformed` stand for no value and one of another type.  `configure_driver` and
  `pw_config_load` are compositions of them in the code's order, with the ranges
  and the power of two checked where the code does.
* `Server`: `panel` is a confirmation that is being stored (user's file, then the
  values in the registry), `last` the last that was completed.

Parameters: `Threads`, `MaxRefs`; `Registries`, `UserFiles`, `SystemFiles`,
`Environments` and `Edits`, what the sources and the panel may say;
`MayBeKilled`.

### `RtData` and its parts and the code

* A buffer is a function from positions to samples, a sample an integer: a two's
  complement number of its format, or a float in units that make every
  conversion of an integer exact (`RtConvert`).  Buffers in bytes are only
  their lengths; a buffer that is too short shows in `AccessesFit`.
* `stream` has the fields of `stream_` that decide where samples go; `told` what
  `getDeviceInfo` has said, before and independently of the open.
* A cycle is: the callback fills its buffer, then one step per direction, in the
  back end's order; `deviceBuffer` is kept from one direction to the next, as in
  the code.  `played` and `heard` are what device and callback got.
* ALSA's, PulseAudio's, OSS's, JACK's and ASIO's copies of the same steps are one
  operator each where they agree, and a case where they differ.

### `RtStream` and its parts and the code

* `state`, `isRunning`, `runnable`, `drain`, `internal` are the fields of the
  code.  `handle` is `live` from `probeDeviceOpen` to `closeStream` and `freed`
  where it was deleted with users left; a step that would use it then sets
  `fault`, and the run ends.
* `pc` has the host, the `worker` (callback thread or driver) and the `Stoppers`:
  the threads that ASIO and JACK start for a stop that the callback asks for.
* A section under `stream_.mutex` is one step; a test outside it is a step of its
  own.  `woken` is a signal that reached a sleeping thread; a signal when nobody
  sleeps is lost.  ASIO's event stays set.
* Three flags remember what the code leaves open, so that the properties can
  name it: `unwound` (the error path of a second direction deleted a handle that
  a thread sleeps on), `asked` (the callback asked for a stop) and `hurried` (the
  host started or closed the stream during a stop that it had not asked for).

### What is assumed of the surroundings

* `pw_filter_disconnect` removes the filter from the data loop and waits for a
  cycle in flight; `pw_filter_set_active(false)` is a message to the server and
  does not.
* The application calls the methods of all drivers from one thread, as ASIO
  requires, calls none while a panel is open, calls `Init` before any other
  method, and does not use a driver after its last `Release`.
* Waits other than those at the points of `Late` end in time; a
  `WaitForSingleObject` on a closed handle fails at once or is not reached.
* The small allocation of the array of channels succeeds; those of the buffers
  may fail.
* The loop lock that a failing `Init` keeps (`asio.c:1142`) is recursive and
  its owner the application's thread: it is not modelled.
* `wineasio_preferred_buffersize` always equals `asio_current_buffersize` after
  `Init`: one variable stands for both.
* Nodes have names, no two the same; the identity of a proxy is not reused; of
  several answers to the round trip only the first changes anything.
* PipeWire creates threads from its loop thread only, one after the other.
* A host's thread keeps to COM's rules: it uses what it holds.
* The host of RtAudio is one thread; the driver's own stop waits for the
  driver's callback, but for CoreAudio's within the callback.
* A device does what its record says; what it refuses for other reasons is part
  of `RtStream` (an open, a start or a second direction may fail), not of
  `RtData`.

What the constants are assumed to be is stated by an `ASSUME` of the module that
declares them, which TLC evaluates and the proofs use.  Three of them say more
than types.  `ConfigAssumption`: a source of settings has values for its names.
`RequestsAssumption`: both directions of a request have one rate, one format and
one layout, as the arguments of `openStream` do.  `SystemsAssumption`: an ASIO
driver has one type for all its channels and RtAudio knows it, an ALSA device
takes some layout and an OSS device some integer format, only devices of ASIO
and OSS may have the other byte order, JACK has one size of buffers for all
devices, PulseAudio one device, and the least size of a buffer is not above the
greatest.

## 3. The runs

All runs are finite without a state constraint: events are booleans, there are
two halves, the state of a released object is that of the next one, an object
of the server appears and disappears once, and samples are moved in one round.

| Run | Instance | Checks | Distinct states |
|---|---|---|---|
| `prompt` | 2 drivers, one at a time, never late, no failure, fair | `TypeOK`, `NoFault`, `CallsAreSynchronous` | 4.6 thousand |
| `late` | 2 drivers, one at a time, late anywhere, host unbounded, all failures, fair | `ManagerOutlivesUsers`, `RequestIsWoken`, `DisposedIsQuiet`, `RunningHasManager`, `NoTornHalf`, `DisposeWaitsForHost`, `ProcessReturns`, `MethodReturns`, `RequestIsServed` | 107 thousand |
| `careful` | 1-2 channels each way, 2 sizes, 2 rates; the panel changes size and rate; `Init` and the connection may fail | `TypeOK`, `NoFault`, `ChannelsServed`, `StartsClean`, `FollowsProtocol` | 19 thousand |
| `failing` | the same with every liberty of the host, a rate of 0 and every failure | `AccessesInBounds` | 485 thousand |
| `lookup` | 1 node and 1 metadata object that come, change and go at any time, all lookups, fair | `TypeOK`, `OnlyEarlyLookupsFault`, `FoundIsBound`, `PlainLookupReturns`, `SpinEndsOrBlocks` | 182 thousand |
| `work` | 2 threads, 3 calls, 2 created threads, 1 port, everything may fail or hang, fair | `TypeOK`, `PendingIsOwned`, `CreatedIsOwn`, `ExecutesOnce`, `CallsReturn` | 204 thousand |
| `server` | 2 threads with 2 references each, sources with good, missing and bad values, 2 edits, failures and kills, symmetry | `HeldIsLoaded`, `ReportIsTrue`, `ConfirmedIsRead` | 1.9 million |
| `rtdata` | 6 back ends, 34 systems of devices, every format, layout, offset and pair of directions, 2 frames or 1 | `TypeOK`, `SamplesArrive`, `AccessesFit`, `InfoIsTrue` | 679 thousand |
| `rtstream` | 6 back ends, 2 stopping threads, every value a callback may return, failures of open and start, fair | `TypeOK`, `NoFault`, `QuietAfterStop`, `CallsReturn`, `StartIsHeard` | 631 thousand |

Runs that find what a comment or the documentation says violated:

| Run | Property | Says | Shows |
|---|---|---|---|
| `stale` | `CompletionMeansServed` | "Callback completed successfully" (`asio.c:575`) | after one timeout, each wait takes the previous completion |
| `roundtrip` | `NodesKnownFirst` | "Make sure to get all registered nodes before the client asks" (`pw_helper.cpp:940`) | the wait is for a state that was set before the round trip |
| `swap24` | `SwappedArrive` | "automatically take care of any necessary byte-swapping" (`RtAudio.h:74`) | `byteSwapBuffer` goes on by two bytes where a 24-bit sample has three |

### Why the bounds are enough

* `prompt`, `late`: two drivers give every interaction in the manager, which
  serves one request at a time and remembers one driver; a third would add only
  a second bystander.
* `careful`, `failing`: two channels in each direction distinguish the first
  from the last, an input index from an output index of the same array, the
  allocated from the configured and from the active number, and leave room for a
  sparse request; two sizes and durations of 1 to 3 give less, equal and more in
  every comparison.
* `lookup`: every interaction is between one message and one lookup, about the
  same object or about two of different kinds; two nodes give 33 million states
  and nothing new.
* `work`: the slot for an operation and the structure of the thread creator hold
  one item each, so that two contenders meet in every way; the third call and
  the second thread come after one that has left something behind.  `MaxCalls`
  and `MaxThreads` end the run of the model, not of the code.
* `server`: two threads, two references each, are the least that make a count go
  wrong while both factory and object are held; registering goes on while no
  process has the module and no panel has been confirmed (`RegisterAlone`), for
  it shares with them only whether the driver can be found.  Of the values of a
  source those are left out that the code treats like one that is there.
* `rtdata`: a byte has 2 bits (`ByteBits`), so that the formats of 8, 16, 24 and
  32 bits keep the ratio of their widths and every value of a sample is cheap;
  the conversions are shifts by a number of bytes and divisions by a power of
  two, which do not depend on how many bits a byte has.  Buffers of two frames
  and up to three channels tell frames from channels and a layout with channels
  side by side from one without; a single frame of 16 bits is the request that
  OSS rounds up to its smallest fragment.
* `rtstream`: a callback starts at most one stopping thread per start of the
  stream, so that a second one needs a host that starts the stream again before
  the first has ended; with two, each order of old thread, new thread and host
  happens.  No callback asks for a third while both are there.

### What they show

When the host answers in time, the two threads implement a synchronous call
(`prompt`, the refinement of `SynchronousCall` through `PhaseOf`), and nothing
is used after it is gone.  When it does not, a half may be torn (`asio.c:753`),
`DisposeBuffers` may free the buffers the host is still filling (`asio.c:1923`)
and clear the table the Wine thread is about to call through (`asio.c:421`):
`late` reaches each of the three.  What it shows of them is that a wait which
timed out under the present manager is the only cause (`NoTornHalf`,
`DisposeWaitsForHost`), and that even then the manager is never destroyed under
a thread, no request is lost and everybody returns.  The reason the 5 s limit of the cleanup does no
harm is worth a sentence: `DisposeBuffers` takes the callbacks away before the
cleanup asks for the lock, so after the lock was granted the Wine thread cannot
enter the host any more.  With two drivers open at once that argument fails,
a driver's `DisposeBuffers` destroys the manager of the other, and only the
wake-up property is left, which `NoLostWakeup` proves for every instance.

A host that asks for the first channels in the reported size has a driver that
follows the ASIO states and copies every prepared channel whose buffers are as
large as the configured size, even while the panel changes size and rate of a
running driver (`careful`).  Any host, any failure and a rate of 0 may reach a
freed array or a division by zero, but never an element beyond the array or a
sample beyond a buffer (`failing`).

After the round trip a lookup excludes the registry handlers although the lock
is conditional; before it, `lookup` reaches the faults `unlock` and `table`.
`SpinEndsOrBlocks` is as much as can be said of `wait_for_nodes_init`: it spins
under the mutexes that the handlers behind the awaited message need.

An accepted operation is executed once before its call returns although the
slot it passes through is shared: the thread that fills it empties it again
before anyone else can (`work`).  An operation without userdata is the
exception: it stays in the slot and all later ones are refused, which
`PendingIsOwned` leaves open.  A creator gets the id of its own thread, because
the loop thread makes one thread after the other and waits for each.  It waits
for the id only: a thread that is slow to read its function may find that of the
next creation (`work` reaches it) and run it a second time, while its own is
never run.  `CreatedIsOwn` has this happen to threads that were overtaken, and to
no other, and never with the function of an earlier creation.

The module is never unloaded while a thread holds a factory or an object, a
registration that reports success leaves a driver that can be listed and loaded
(and its removal one that cannot), and what was confirmed
in the panel is what the next `Init` finds, unless a kill, an override in the
environment or a file of the system comes between (`server`).

In RtAudio samples arrive, buffers are long enough and the information of a
device is true, but for what the properties name (`rtdata`):

* `Gap`: a device of 24 bits in four bytes, or in the other byte order; an OSS
  device that gets other channels when it is opened again for both directions, or
  other frames, because what is asked for is less than a fragment (`Resized`); the
  second stream of a CoreAudio device.
* `Covered`, `CoveredBoth`: a first channel other than 0 of PulseAudio, two
  directions of OSS with different numbers of channels, the devices after an
  ALSA card that cannot be opened.

A handle is deleted only when its users have left, nothing moves after a stop,
and methods return, but for these (`rtstream`): the error path of a second
direction, which deletes the handle that the thread of the first sleeps on
(`unwound`); a host that starts or closes the stream during a stop that the
callback has asked for (`hurried`, `asked`); a signal that comes before its
wait, for which OSS, JACK and CoreAudio have no predicate (`MayMissSignal`).

### Read off the models without a run

Cases in which a definition of the modules is false on an instance that no run
has: other values of the constants, or another of the specifications.

* `NoCallAfterStop` (`AudioStream`): "BufferSwitch() must not called after
  returning" (`asio.c:1299`); a cycle that has passed the test of the state calls
  the host after `Stop`.
* `ProcessReturns` under `HungHostSpec`: "with timeout to prevent deadlocks"
  (`asio.c:568`); a host that does not return blocks the data thread at the lock,
  before the wait that has the timeout.
* `CanRecreate` (`DriverMethods`): "Host must recreate buffers"
  (`docs/real_time_config.md:86`); `DisposeBuffers` destroys the filter that only
  `Init` makes.
* `AccessesInBounds` with a panel that changes numbers of channels: the loops run
  over the new numbers in the old array.
* A size raised in the panel stops the copies until the buffers are made again,
  and so does a smaller size of the host's choosing; of a sparse request only the
  first channels are copied; the panel opens once per `Init`; `Release` frees the
  array whatever the number of references left; `Release` of a driver whose
  `CreateBuffers` failed half-way leaves its filter connected.

### Deadlock

Two cfgs have `CHECK_DEADLOCK FALSE`.  `lookup`: the waits for the round trip and
in `wait_for_nodes_init` may last for ever with nothing left to do.  `rtstream`:
a run ends where a step faults.  The other runs that can end do so in a state
that repeats itself, and TLC checks that there is no other end.

### Fairness

`AudioStream`: `ThreadsRun`, a data thread inside a cycle, the Wine thread and
the application's thread inside a method are scheduled.  No fairness makes
PipeWire begin a cycle or the application call a method.  `HostIsFair`: the
host's `bufferSwitch` returns eventually, however late.  `FairSpec` is both;
`HungHostSpec` is the first only.  Weak fairness is enough for the lock: the
Wine thread leaves it on every round, and a thread that wants it competes with
at most one round per set event.

`PwHelper`: loop thread and client are scheduled, the server answers the round
trip and describes each object it was asked about.  Nothing makes a device
appear, change or go, or the client begin a lookup.

`HelperWork`: loop thread, calls in progress and created threads are scheduled.
Strong fairness is assumed of two steps: of a thread that wants the loop's lock,
because the loop thread gives it up and takes it again on every poll and a mutex
does not starve a waiter for ever; and of a wait with a time limit, whose test
comes back again and again with the time over.

`RtStream`: the host inside a method, the callback thread and the stopping
threads are scheduled; the driver goes on calling a stream that is active, and
the callback of the user returns.  Nobody has to call a method.

`DriverMethods`, `Server` and `RtData` have safety properties only: one thread,
or nothing that anyone waits for.

## 4. The proofs

For every set of drivers, every `Late`, `Stuck`, `Exclusive` and `Failures`
allowed by `ManagerAssumption` and `StreamAssumption`:

* `TypeCorrect`: `Spec => []TypeOK`.
* `StreamInvariant`: the inductive invariant `StreamInv`.  `RequestIsWoken` is
  not inductive: `CreateBuffers` could give a forgotten request its callbacks
  back.  `RequestInv` (a manager with a thread has a request pending only for a
  driver with buffers) rules it out; it needs `CycleInv` (a cycle in flight is
  one of a driver that nobody is disposing of), which needs `MethodInv` and
  `CallbackInv`.
* `NoLostWakeup`: `Spec => []RequestIsWoken`.

With `Exclusive`:

* `CleanupIsSafe`: `Spec => []ManagerOutlivesUsers`.
* `ManagerFollowsBuffers`: `Spec => []RunningHasManager`.
* `DisposedDriversAreQuiet`: `Spec => []DisposedIsQuiet`.
* `NoHalfIsTorn`: `Spec => []NoTornHalf`.
* `DisposeIsPatient`: `Spec => []DisposeWaitsForHost`.
* `CompletionsAreServed`: until a wait has timed out under the present manager,
  a process callback takes a completion only for its own request; `stale`
  refutes `CompletionMeansServed`, the same without that condition.

The first three rest on `ExclusiveInv`: at most one driver is open (`OneDriver`), so the
manager is there exactly while a driver has buffers (`HolderInv`), its handle
exactly while the thread is (`ThreadInv`), the lock is the Wine thread's
exactly where the code holds it (`LockInv`), the exit flag is set only by a
cleanup in progress (`ExitInv`), during which the thread is not in the host
(`JoinInv`).  The lemmas named `...Frame` state what an action leaves alone;
there is one lemma per conjunct for the methods, one for the data threads and
one for the Wine thread.

The other three rest on `InStepInv`: until a wait times out (`given_up`), events
and threads are in step.  Its core is `AskInv`: while a data thread is between
its post and the end of its wait, the request is its own, and exactly one of
pending flag, first event, Wine thread and second event carries it (`Asked`,
`Answered`); and `RestInv`: otherwise none of them does, so that no completion is
left for the next cycle to take.  A manager that is made anew starts in step
again, because the cleanup of the last one has joined its thread.

With `Prompt` (`Exclusive`, nothing is ever late, and `CreateBuffers` fails at
most before its filter is connected):

* `NoFaultHappens`: `Spec => []NoFault`.
* `ImplementsSynchronousCall`: the initial states and steps of `Spec` are those of
  `SynchronousCall` under `PhaseOf`.

Both from `PromptInv`: `InStepInv`, that no wait times out, and that a filter that
calls back is that of a driver with buffers (`FilterInv`).

For every number of channels, all sizes, durations and rates
(`MethodsAssumption`):

* `TypesCorrect`: `Spec => []TypeOK`.
* `BoundsKept`: `Spec => []AccessesInBounds` if the panel leaves the numbers of
  channels alone; without the condition it is false (section 3).
  `AccessesInBounds` is not inductive: `ArrayMatches` adds that a live array was
  allocated for the configured numbers and for no fewer than the active ones,
  `HasFilter` that a prepared driver has a filter.  `CopyLemma` is the
  arithmetic of the copies: each is at most the smaller of duration and
  configured size, which the test of the process callback compares with the
  size of the buffer.
* `ProtocolFollowed`: `Spec => FollowsProtocol`, the refinement of
  `AsioProtocol`, if moreover the host takes no second reference and
  `CreateBuffers` does not fail after its first buffer.  `Lives` and
  `PreparedInArray` say that the array lives as long as the driver is
  initialized and that every prepared channel is in it, so that the loops of
  `DisposeBuffers` find them all (`PreparedConfigured`); `ProtocolStep` maps
  each method to one step of the protocol or to none.

With `Careful` (the panel leaves the numbers of channels alone, no second
reference, no failure of `CreateBuffers` after its filter is connected, no rate
of 0):

* `NoFaultHappens`: `Spec => []NoFault`.
* `StartsWithSilence`: `Spec => StartsClean`, also for a sparse request.
* `ChannelsAreServed`: `Spec => []ChannelsServed`, if the host asks for the first
  channels.

A `CreateBuffers` that fails later than `Careful` allows leaves a filter that
calls back a driver after its release; that case is in `failing`, where it shows
as the fault `dangling`, and nothing is proved to exclude it.

`CarefulInv` adds to the invariant of the refinement that only a prepared driver
is connected (`ConnectedInv`), that sound is in active channels with buffers
only (`SoundInv`), which the loops of the clears reach, and that the channels a
cycle visits are those that were asked for, if those are the first ones
(`VisitedInv`).

For every set of nodes and metadata objects (`HelperAssumption`):

* `TypesCorrect`: `Spec => []TypeOK`.
* `HelperInvariant`: the inductive invariant `HelperInv`.
* `LateLookupsAreExclusive`: `Spec => []OnlyEarlyLookupsFault`.
* `PointersAreBound`: `Spec => [](FoundIsBound /\ DefaultIsBound)`.

The argument: `init_state` becomes `Running` once, in a handler of the loop
thread, which is then in no other handler (`WireInv`), so that a registry
handler reads the same value at its lock and its unlock; a lookup that read
`Running` reads it again.  `MutexInv` states who holds the mutex for both.

For every set of threads and ports, any number of calls and creations
(`HelperWorkProofs`):

* `TypesCorrect`: `Spec => []TypeOK`.
* `PendingIsTaken`: `Spec => []PendingIsOwned`.
* `CreatorsGetTheirOwn`: `Spec => []CreatedIsOwn`.
* `ImplementsDeferredCall`: `Spec => ExecutesOnce`, the refinement of
  `DeferredCall` with its fairness left aside.

All from `WorkInv`: the loop thread is in one place (`LoopInv`), what is queued
is an operation of a client that waits for it (`QueueInv`), and the shared
structure belongs to the creation the loop thread is in, while the event is set
only by the helper of that creation (`ThreadInv`: `PrivatesInv`, `HelpersInv`,
`EventInv`, `ReadInv`, `OvertakenInv`).  The last says that the structure belongs
to the thread that has still to read it, until the next creation stores its
function; the one before that what is read is never that of an earlier creation.

For every set of threads and every number of references, sources and edits
(`ServerProofs`):

* `NobodyIsUnloaded`: `Spec => []HeldIsLoaded`.
* `ReportsAreTrue`: `Spec => []ReportIsTrue`.
* `ConfirmationsAreRead`: `Spec => ConfirmedIsRead`.

`ServerInv` is `ComInv` and `RegInv`.  `ComInv` has the counts equal to the number
of holders (`CountIsExact`), those who are about to give up included, so that a
count of zero leaves nobody to unload under; the cardinalities are those of sets
of threads.  `RegInv` says that a call in progress has written exactly the steps
it has passed.  `SettingsInv` says that until the next confirmation begins the
registry and, if it could be written, the user's file have what the last one
said (`ReadInv`), which needs that an open driver has a value for every name and
that a panel belongs to an open driver (`PanelInv`).

For all six back ends, any set of stopping threads (`StoppersAssumption`) and
whatever the callback returns (`ReturnsAssumption`) (`RtStreamProofs`):

* `OpenStreamsHaveTheirHandle`: `Spec => []TypeOK`, with its last conjunct.
* `HandlesOutliveTheirUsers`: `Spec => []NoFault`.
* `NothingAfterStop`: `Spec => QuietAfterStop`.

`RtInv` is the types, what holds on every back end (`Common`: only the host
closes a stream and makes it run), and one part for each kind.  `OfThreads`: the
thread is joined before the handle goes.  `OfDrivers`: the driver is waited for,
and as long as the host does not interfere with a stop it has not asked for
(`Calm`), a driver inside a call has a stream that runs.  The lemmas `HostHops`,
`ThreadHops`, `DriverHops` and `StopHops` deal with the many steps that only move
one process.

For all six back ends, every set of devices and requests that the assumptions
allow, any number of channels and frames, and every width of a byte
(`RtDataProofs`):

* `TypesAndDirections`: `Spec => []TypeOK`.
* `DevicesKeepTheirPromises`: `Spec => []InfoIsTrue`.
* `AccessesStayInside`: `Spec => [](Api # "CORE" => AccessesFit)`.

`RtInv` says that an open stream is what `openStream` makes of its arguments, and
that what the host was told is what `getDeviceInfo` says of the device, whenever
it was asked; the rest is about `openStream`.  One lemma per back end says what
`probeDeviceOpen` makes of a stream when it succeeds (`SetUp`: device, format,
layout and frames, with the other direction as it was; `Buffered`: channels,
offset and buffers), one that it does succeed for a request within what the host
was told (`Kept`), with `Follows` for what the input of both directions needs of
the output before it: ALSA, OSS and CoreAudio refuse an input whose size is not
that of the output, and it is, because `openStream` passes on the size that the
output has got.  The bounds: a direction is `Fitting` when its buffers hold what
it needs, which `PlaceLemma` shows of each position of either layout, with an
offset of the first channel.  The device buffer is one for both directions.
`AloneLemma` has it made for the first; `TogetherLemma` shows that the second
direction leaves it alone only where its frame is not larger than that of the
first, and otherwise makes it longer, since both have the same number of frames
(`OutputStays`; OSS outside `Gap`).

For the same, with bytes of eight bits (`RtSampleProofs`):

* `SamplesReachTheirChannels`: `Spec => [](Api # "CORE" => SamplesArrive)`.

`ByteBits = 8` is what the code has; TLC takes fewer so that its numbers stay small.
With the width fixed, the ranges of the formats are numbers and the arithmetic of
each conversion can be done.  The argument follows a sample.  Its value: each pair
of formats is one of a few conversions, and a conversion is at most a step of the
coarser format off (`ConvertedLemma`).  Its bytes: they are those of the sample in
one order or the other (`Ordered`), `byteSwapBuffer` turns one into the other
(`OtherOrder`), and `doByteSwap` is set exactly if the device has not the host's
order (`InOrder`), for which each back end is gone through (`ServedLemma`).  Its
place: the positions of a conversion are those of the device's and the user's
channels (`SidesLemma`), no two are the same (`PlacesDiffer`), and so a position is
written once (`WrittenLemma`).  The other channels: `CycleInv` adds to the property
that the rest of the device buffer is silent unless an input is left there
(`SharedQuiet`), since an output does not clear it, and that the buffer keeps its
size.  What `Gap` and `KeepsInput` except from the property is excepted here too.
TLC has checked `CycleInv` on the instance of `rtdata`.

Only model-checked:

* The liveness properties, and the fairness in `CallsAreSynchronous` and
  `ExecutesOnce`: fairness and ENABLED are out of the prover's reach.
* `AccessesFit` and `SamplesArrive` of CoreAudio: the place of a channel is a sum
  over the streams before it.

## 5. Plan

1. `SamplesArrive` and `AccessesFit` of CoreAudio, with the place of a channel
   given by a function instead of a fold.
2. `RtConvert`: that a conversion to a wider format and back is the identity.

## 6. Not modelled

Whole parts:

* WASAPI and DirectSound (`RtAudio.cpp` 3653-7160): two more back ends of the
  same shape, for a system on which this driver is not used.
* CoreAudio with different devices for the two directions: two drivers call one
  stream at the same time.
* The vendored headers, the C and Python bindings, tests, scripts, the example
  application, and the widgets of the panel.
* The device callback of the helper, which the driver does not set, and device
  names, which it only passes on.
* The time information that a cycle hands to the host (`asio.c:773`).

What the models of modelled parts abstract:

* `RtStream`: a section under the mutex is one step; no spurious wake-ups; a
  device that fails while it stops; `error()` as an exception on the callback's
  thread; `jackShutdown`; reset requests of an ASIO driver; a thread that an
  error path has left behind is not followed further; PulseAudio out of memory
  in the second direction.
* `RtData`: one round of samples, so that over- and underruns are absent; what a
  device refuses for other reasons than its record.

Hazards that no property states, because the model takes the harmless case, has
the outcome without calling it an error, or leaves the line out:

* `asio.c:464`: when an event cannot be created, the critical section stays
  initialized; `asio.c:1142`: `Init` returns with the loop's lock when the filter
  cannot be made; `asio.c:1976`: `GuiClosed` runs inside the modal call, before
  `ControlPanel` stores the pointer of the panel that is closed (`PanelReturns`);
  `asio.c:2560`: the fields of a new object are not initialized before `Init`;
  `asio.c:2831`: a number of channels from the environment has no upper limit.
* `pw_helper.cpp:256`: a node's properties are rewritten without the mutex that
  lookups read them under (the fault `torn` of `PwHelper`).
* `RtAudio.cpp:2191`, `3654`: when the JACK server goes away, or an ASIO driver
  changes its rate, the stream is closed or stopped from a thread of the system;
  `3490`: the threads that stop a stream are never joined; `3256`: an ASIO driver
  that refuses a size is asked for its preferred one, after the host has been
  given a size; an open of PulseAudio's second direction that runs out of
  memory for its buffers (`8834`, `8855`) marks the stream as closed while `pah` is
  still 0, so that `8969` leaves thread and handle of the first, and the
  `closeStream` that follows (`392`) joins a thread that it wakes only when the
  stream is marked as stopped (`8529`-`8540`); `9429`, `9452`: a second OSS direction
  may change the size of a stream whose first buffer is allocated, and the format
  and channels of the first direction, whose conversion stays as it was set up
  (the properties except both, in `Gap`).
