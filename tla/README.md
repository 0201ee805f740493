# A TLA+ model of esp32quickjs

The repository binds the QuickJS engine to the ESP32: JavaScript programs run on one FreeRTOS task (the *JS
task*), which calls `ESP32QuickJS::loop()` for ever; a few other tasks do what would block it. The files under
`src/esp32/` are the program modelled here. Of the engine (`src/quickjs.c` and the rest, vendored) the memory
management is modelled, on which every reference `esp32/` counts relies, and the list of module definitions.

Contents: the [inventory](#inventory) of the system, the [modules](#modules) and how they correspond to the code,
the [runs](#runs), their bounds and what they show, the [fairness](#fairness) assumed, what is [proved](#proofs),
where code and comments [disagree](#disagreements), what is [left out](#not-modelled), and the [plan](#plan).

Run from this directory: `tlc -config worker.cfg MCJSWorker.tla`, `tlapm JSWorkerProofs.tla`.

## Inventory

Three kinds of concurrency meet in this program: real tasks (JS task, worker, module reader, AsyncTCP, WiFi,
interrupt handlers); *re-entrance*, because a JavaScript call that waits (`require()`, `delay()`) runs a nested
event loop (`JSBlockingGuard::tick`) below which other commands, handlers, timers and module evaluations start
and finish; and callbacks settled long after the call that asked for them, which find global state as others left
it.

| Component | State | Operations | Hard behaviour | Correct when |
|---|---|---|---|---|
| `JSWorker` (QuickJS.h 155-229) | work queue, mutex, binary semaphore | `submit`, `workerTask`, `end` | wake-ups that coalesce, batches | nothing lost, nothing run twice |
| `JSI2C` (760-1260), `JSSPI` (1300-1880), `JSFileSystem` (1900-2000) | queue of entries, bus and device tables | the trampolines, `processEntry` on the worker, `loop`, `end` | table read on one task and changed on the other, entries freed under the worker | each promise settled once with its own outcome; a handle means one bus |
| `JSTimer` (231-345) | vector of timers, id counter | `setTimeout`, `setInterval`, `clearTimeout`, `ConsumeTimer`, `RemoveTimersForOwner`, `RemoveAll` | nested rounds, changes during a round, wrapping times, sweep from the AsyncTCP task | ids unique, never early, cleared means gone, no timer of a client that has left |
| `JSBlockingGuard` (2779-2867) | start time | `tick`, `wait` | re-entrance of every other component | no component sees itself half-way |
| `JSModuleLoader` (2869-3491) | `pending_`, `cache_`, `pending_eval_`, `ns_cache_`, reader task | `registerModule`, `require`, `importModule`, `processPendingEval`, `loop` | reads that finish at any time, evaluation within evaluation, timeouts | exports belong to their module, every promise settles, nothing freed is used |
| `JSAnalog` (350-760) | LEDC channel bitmap, pin table, write queue, touch slots | `analogWrite`, `servoWrite`, tones, `writeAnalogStop`, touch listeners | queued writes against synchronous detaches, slots reused under an interrupt | no channel leaked or shared, no stale listener called |
| RTTTL player (2590-2650, 4380-4460) | vector of players with generations and callbacks | `playRTTTL`, its error path, the tick, `onComplete`, aborts by writes | the callback runs half-way through the tick and may take over the player, or move the vector | every tune ends, a callback is freed exactly once |
| `JSEspNow` (2010-2330), `JSESPNow.h` | pending sends, two event queues, handlers | `init`, `end`, `send`, handlers, `loop`, callbacks of the WiFi task | reports carry an address and no id, handlers that wait | a promise settles with the outcome of its own frame |
| `JSTelnetServer` | stack of new connections, client map, line buffers | `onTelnetData`, `initClient`, `handleClientInput`, `onTelnetDisconnect`, `stop`, `start` | AsyncTCP task against `loop`, a command within a command | lines whole and in order, nothing of a client left behind |
| `JSRepl` | Serial line buffer | `pumpSerial`, `processCommand` | a command that waits | a line is run once |
| `WebServer`, `JSQueue`, `JSStash` | routes, middlewares, table of handlers, queue of operations, stash ids | `get`/`post`/..., `use`, `serveStatic`, `remove`, `listen`; requests; `pushPendingOp`, `runPendingOps` | AsyncTCP task against JS task, a connection that ends, handlers within handlers | each request goes once to each of its handlers and lives as long as they need it |
| the engine's memory (quickjs.c 5360-5780) | counts, marks, three lists | `JS_DupValue`, `JS_FreeValue`, `free_zero_refcount`, `JS_RunGC` | both run in pieces over a heap half changed; WeakMap records go with their keys | what is reachable stays, cycles go, counts are right afterwards |
| WiFi scan and connection (2389-2590) | a flag, a mutex, one callback | `scan`, `loop` | two scans that overlap | one result per scan |
| `JSPromise` | nothing that is used | | | |
| `MotorDriver`, `RotaryEncoder` and their bindings | positions, last states | interrupt handlers, `moveTo` | interrupts against the loop | every legal transition counted |

Calls go from JavaScript to the components on the JS task; work goes to the worker and the reader through a
queue guarded by a mutex plus a binary semaphore; results come back by a `done` flag or a cache that `loop()`
scans; telnet input, disconnects and HTTP requests arrive as callbacks on the AsyncTCP task, radio reports on the
WiFi task; owner and output stream (`currentTelnetId`, `activeOutputStream`) are globals. `PROJECT.json` lists
each hazard at its line.

## Modules

| Module | Models | Relation |
|---|---|---|
| `PromiseService` | what the promise-returning peripherals promise a program: one first-come first-served server | abstract specification |
| `JSWorker` | worker task, queues of I2C, SPI and the two file systems, `loop`, `close`, `end` | implements `PromiseService` |
| `JSI2C` | the bus table behind the handles, with the driver | assumes of the worker what `JSWorker` shows |
| `JSTimer` | timers, rounds, owners, with commands, jobs, `tick` and telnet disconnects | |
| `JSModuleLoader` | `require`, `importModule`, the reader, evaluation on a stack of activations | |
| `JSAnalog` | LEDC channel pool, RTTTL player, touch listeners and their interrupt | |
| `JSTelnet` | telnet server and Serial console: connections, buffers, commands within commands | what a command does to timers is in `JSTimer` |
| `JSEspNow` | sends, reports of the WiFi task, `loop` within handlers | |
| `JSWeb` | HTTP server, queue of operations and stash, on the AsyncTCP and JS tasks | |
| `QuickJSGC` | reference counts and the cycle collector | |
| `JSWorkerProofs`, `JSTimerProofs`, `JSModuleLoaderProofs`, `JSAnalogProofs`, `JSTelnetProofs`, `JSEspNowProofs`, `JSWebProofs`, `QuickJSGCProofs` | theorems | each extends the module it is named for; `JSWorkerProofs` extends `JSI2C` too |
| `MC...` | values for the constants of the module they are named for | |

A definition whose name ends in `Bug` is a plausible mistake in the definition after it; no specification uses
one. Each property was seen to fail with one of them in place (`PROJECT.json`, "mutants").

**JSWorker.** A step is what one task does between two accesses to what the other task shares. `Submit` is a
trampoline up to the release of the mutex, `Give` the semaphore and what `js_close` does after it; a scan of a
queue is `SkipEntry` and `SettleEntry` per entry, since the worker may set `done` between two rounds. `Take`,
`Swap`, `Process` and `BatchDone` are the four phases of `workerTask`. The state of an item (`undone`, `done`,
`freed`) and of the resolving functions (`live`, `freed`) is explicit; `uaf` records a use after free, after
which nothing more is said. What a driver does is abstracted to `ok` or `error`. The four peripherals share the
shape of `loop`; they differ in whether `end()` ends them (`EndModules`) and whether they have a `close`. The
stashed functions of a file system and the `JSValue`s of a bus are both `funcs`. A file system that is not
mounted rejects at once, which touches nothing here, and is left out.

**JSI2C.** `waiting` is the worker's line; `OpenExisting`, `OpenInstall`/`OpenPushed`, `Close` and `Transfer` are
`processEntry`. The push on `buses` is split in two, because the unlocked check of `js_write` may fall within it.
`i2c_driver_install` fails while a driver is installed (ESP-IDF), and any driver call may fail: after a failed
`i2c_driver_delete` a driver runs that is in no slot of the table. `I2CInit`, `I2CNext`
and `I2CSpec` have a prefix because `JSWorkerProofs` extends both modules.

**JSTimer.** The JS task has a stack of activations (commands, jobs, rounds of `ConsumeTimer`); JavaScript runs in
the top one and may, when `CanNest`, start others, as `tick()` does inside `require()`. `timers` is a set:
`GetNextTimeout` sorts the vector before each round, so that only the order of equal times is free, and
`Batches` ranges over it. `due` is the time asked for without wrapping, `held` the functions still referenced,
`cleared` and `late` what happened to an id; these four are history. `known` is the set of keys of
`liveConnections`: `Telnet.stop()` empties it (`Stop`), and the disconnect of a client that is no longer in it
returns before it sweeps (JSTelnetServer.cpp 184-185). The server is not started again in the model: a client that
connects later has a new id. The unlocked accesses of the AsyncTCP task are atomic here: what is shown wrong is
wrong even so.

**JSModuleLoader.** Activations again: `register`, `require`, `import`, `eval`, and `pass` (one run of
`processPendingEval`). `Ticking` says when `loop()` or `tick()` may run something; a `require` below the top goes
on when all above it has returned. A module is abstracted to whether its file exists, whether it is CommonJS,
whether its name is relative, whether it throws, and what it requires. For an ES module the engine's list of
definitions matters (`defs`, `first`, `freed`): the wrapper `import * as __ns` finds the first definition of the
normalized name, and an evaluation that throws frees every definition not yet evaluated. A reallocation of
`pending_eval_` during a pass depends on its capacity and is a free choice in `PassEnds`. `importModule` looks for the
source under the mutex (`ImportLoaded`) and copies it after releasing it (`CopySource`), when the reader may have put
another request in its place, whose source is still empty: an empty text is a CommonJS module, whose exports are
`Blank` (`PassBlank`). `wait()` gives up when `tick()` says that the time is over, without looking at its condition
again (`Timeout`).

**JSAnalog.** A call appends to `writes`; `LoopWrite` is one round of `JSAnalog::loop`. `bitmap`, `pinChannel` and
`driven` (what the LEDC hardware does) are three variables because three calls update them, and `Release`,
`Attach` and `Write` keep the order in which the code makes those calls. Pins from 40 on (`BigPins`) have no entry
in the table. The tick of a tune is `NextNote`, or `Finish` and, after the callback, `Completed`, with any call of
the program in between; `Play` chooses the player as `rtttlFind` and `playRTTTL` do, and where it appends one
under a callback the tick's reference may dangle (`uaf`). A touch pad's interrupt knows the slot it was given, not
the pad. Duties, frequencies and times are left out: a note's time may be up at any moment.

**JSTelnet.** A buffer is a sequence of pieces, the text of a line or a newline. `frames` are the activations of
the main loop task: where each one is in `JSTelnetServer::loop`, and what `handleClientInput` holds in its locals
(`i`, `remaining`) while the AsyncTCP task appends to the same buffer and other commands run below. `raced` marks
the two places where that task's effect is overwritten, `uaf` the use of a client, state or stream that is freed.

**JSEspNow.** `pendingSends` is a set, ordered by ids; `air` is what the driver has yet to report, per address, in
the order sent. `Match` is `completeSend` with the search of `s_send_cb`. `by` names the call whose report an
entry got, which the code cannot know: that is what `OwnOutcome` is about. `phases` are the activations of
`loop()`: its drains of the two queues, and the handlers in which JavaScript runs and may wait.

**JSWeb.** The AsyncTCP task receives a request, walks the middlewares and the routes, and queues operations
(`Middleware`, `EndOfChain`); `runPendingOps` on the JS task takes the newest first. `refs` counts the owners of a
request (connection, queued operations, running operations). `table` is `g_routeHandlers` with the ids of stash
and static routes in one map; the library's own lists are `routes` and `uses`.

**QuickJSGC.** Objects with `edges` (references in fields) and `roots` (references from C, the stack, and natives
without a mark function); `FreeZero` is a turn of `free_zero_refcount`, `Decref`, `Scan` and `Restore` are turns of the
loops of `gc_decref` and `gc_scan` (two loops). `gc_obj_list` is the allocated objects that are on no other list, and
`todo` what a loop has yet to reach. `Reachable` is the smallest set with the roots that is closed under fields;
`kept` is what it was when the collection began.

Objects are of two kinds. `Values` (objects, function bytecode) are what `gc_free_cycles` frees, in two steps:
`FreeCycle` frees the fields, `FreeCycleEnds` gives the memory back or keeps it as a zombie. `Parts` (shapes, detached
variables, async functions, contexts) it only sets aside (`SetAside`); they are freed with their last reference and
before anything else (`FreePart`), also in that phase, in which a value without references is left alone. `weak` are
the records of WeakMaps and WeakSets: a record's value is a field of the map, its key is not; `FreeFields` drops the
records of an object that is a key (`reset_weak_ref`) and of one that is a map (`js_map_finalizer`), whatever phase the
engine is in. One reference is left out, a context's to a shape, so that parts refer to values only.

## Runs

`CHECK_DEADLOCK FALSE` is given where a bound (ids, clock, requests, calls) or `end()` lets the model stop:
`worker_end`, the timer and loader runs, `analog`, `telnet`, `espnow`. `worker`, `i2c`, `web` and `gc` check
deadlock.

| Run | Question | Bounds |
|---|---|---|
| `worker` | are items, promises and memory handled once and in time, does every promise settle, and do the tasks implement `PromiseService` with its fairness, without `end` and `close`? | 3 calls, 2 modules: a batch of one with two more queued, and two queues scanned in turn |
| `worker_end` | which promises do `end` and `close` leave pending, whenever they come? | the same, one ended module and one not |
| `i2c` | one bus, stable handles | 4 calls, 2 pin sets: open, close, open again and a transfer in between |
| `timer_nested` | references, sweeps, nohup timers and intervals under nesting, disconnects, `Telnet.stop`, `end` | 2 timers, 1 client and Serial, depth 2 (a round, command or job inside another), both values of nohup, the clock at 0 and 1 |
| `timer_wrap` | never early and in order across the wrap; is each due timer called, nested rounds included? | `Wrap` 8, the clock from 5 to 9, delays 0 and 3, the JS task up to 3 ms late: now and due on either side of the wrap, together and apart; depth 2 |
| `loader` | whose exports does a module get, and is what a promise shows cached? | 2 CommonJS modules, one of which requires the other, and an ES module that requires it too, 3 requests, 2 jobs, depth 4 |
| `loader_liveness` | are reads cached and does `require` return? | 2 CommonJS modules, one throws, 2 requests, 1 job, depth 2 |
| `analog` | do allocator, table and hardware agree; interrupts, callbacks; does every tune end? | 2 pins and one from 40 on, 2 channels (so that three pins run short), 2 pads and 2 slots, 3 calls, a tune of a tone and a rest |
| `telnet` | is what runs what was typed, in order, complete; do sessions match clients; is each line taken? | one client with two lines, one with one, Serial with one, a buffer of 3 pieces (a line, its newline and one more), commands two deep, `stop` and `start` |
| `espnow` | does a promise show its own frame; is there a report for each send; do all settle? | 2 peers and broadcasts, 2 sends, 1 frame received, `loop()` two deep, `end()` once |
| `web` | is each request handled once by each handler and held until then; is the table right; does none wait for ever? | 1 server, 1 path, 2 requests, 2 handlers (routes or middlewares) and a static route, handlers two deep; each request comes once |
| `gc` | does the collector free exactly what could not be reached when it began, and leave counts and memory right? | 3 values and a part, up to 5 references among them and a WeakMap record, at most one root each, up to symmetry |

The queues have no capacity in the code, so that what matters is how many calls can be in each place (queue,
batch, scan) at once: three give one of each. Two activations show each kind started inside each other kind;
the loader needs four, for a `require` within an evaluation within a `require` (require, eval, require, eval). Two
timers are enough for a pair to collide on an id or to meet in one round. `MaxStall` stands for the 2^31 ms the
code allows the JS task to be late: `NotEarly` does not hold for a task later than half of `Wrap`. Three calls of
`analog` are a tune, one started from its callback, and a write to either's pin. Two sends tell "oldest" from
"newest"; two requests tell "first" from "last". Three values are a cycle with a WeakMap record whose map is alive and
whose key is garbage, or a cycle and what refers to it; the part is in a cycle or shared; five references are a cycle
of four and one into it. For safety the proofs remove the bounds of every run.

Some properties are in no run of `PROJECT.json`, because they follow from those checked, say less, or need a hypothesis
the run does not meet: `TypeOK` of each module; `UniqueIds` and `ClearStopsArmed` (timer); `SettledByOutcome` (worker,
and for programs without `end` and `close` part of `ServiceSpec`); `ClosedStaysClosed` (i2c); `AssertionsHold` (gc);
`NoLostRead`, `NothingReady`, `CacheIsLive`, `NamespaceIsOwn`, `NoUseAfterFree`, `EvaluatedIsCached` and
`ImportRejectedOnlyIfThrew` (loader). All of them are proved, the last four under hypotheses given below; add them to a
`.cfg` of their module, for these four one whose constants meet the hypotheses, to have TLC check them.

## Fairness

`JSWorker`: weak fairness of the JS task's steps and of the worker's. Both are FreeRTOS tasks that block only on
the semaphore; `loop()` is called for ever, and driver calls have finite timeouts. Whether a program makes calls
or ends is not assumed.

Re-entrance has one form everywhere: while a command, callback or handler waits, other activations may start on
top of it between any two of its steps. That the JS task goes on (`loop()` starts, a drain or a scan takes its
next step) is weakly fair; that JavaScript returns is strongly fair at each depth, since weak fairness would let
activations above it take every turn. JavaScript that never returns stops the device, and is excluded by that.

- `JSTimer`: the loop runs (weak), an idle loop with due timers starts a round, an activation at each depth
  returns (strong).
- `JSModuleLoader`: the two tasks run (weak), and a waiting `require()` looks at its condition and its five
  seconds after each tick (strong, per depth).
- `JSAnalog`: `LoopWrite` and `Completed` are weakly fair; the end of a note is strongly fair for each player,
  because callbacks of other players suspend the tick. No assumption on touch or on the program.
- `JSTelnet`, `JSEspNow`, `JSWeb`: the loop (weak), commands and handlers return (strong per depth); the radio
  reports each frame it was given; the AsyncTCP task finishes the chain of a request. Nothing is assumed of
  clients, which may type, leave or hang up, or not.

`QuickJSGC` has safety properties only.

## Proofs

All theorems are checked by TLAPS for every value of the constants that satisfies the assumption named in the module
(`WorkerAssumption`, `I2CAssumption`, `TimerAssumption`, `LoaderAssumption`, `AnalogAssumption`, `TelnetAssumption`,
`EspNowAssumption`, `WebAssumption`, `GCAssumption`). A few theorems have a hypothesis about the program, explained
below with what happens without it: no `end` and no `close` (`JSWorker`), `Horizon` (`JSTimer`), `TypedInOrder`
(`JSTelnet`), and those on which modules require which (`JSModuleLoader`). The constants of the runs that check the
properties satisfy them.

**JSWorker** (`JSWorkerProofs`).

- `TypeCorrect`: `Spec => []TypeOK`, by induction on the steps.
- `WakeupKept`: `Spec => []NoLostWakeup`. It is inductive with `TypeOK`: `Submit` is followed by `Give`, and
  `Swap` takes the whole queue.
- `ProcessedOnce`: `Spec => []WorkOnce`, `end` and `close` included. The inductive invariant `OnceInv` adds that
  the worker's batch is empty except while it runs it (`BatchOnlyInRun`): otherwise `Swap`, which overwrites the
  batch, could drop one. The argument follows the line `work \o workQueue`, which `Swap` leaves as it is.
- For programs that call neither `end` nor `close` (`~CanEnd`, `~CanClose`; with them the property is false, see
  below): `MemorySafe` (`[]NoUseAfterFree`), `PendingAlwaysQueued` (`[]PendingIsQueued`) and `ImplementsService`
  (`Spec => Service!Spec`, the safety half of `ServiceSpec`). Their inductive invariant `RefInv` says that each
  queue holds an entry once and no two queues share one, that what is queued has live functions and an item not
  freed, that a promise is pending exactly as long as its entry is queued, that the items of the line are undone,
  and that an item is done exactly when its outcome is written. It is needed because settling relies on facts
  about all queues at once: that the entry erased is the only place where the entry is known.
- `EndLeavesFiles`: `Spec => []EndLeavesOnlyFiles`, `end` and `close` included. `PendInv` says where a pending promise
  is: in the queue of a module, which after `end` is one that `end` does not end. It holds until the first use of
  freed memory.
- `SettledOnce`: `Spec => SettledByOutcome`, what remains of the refinement when a program may call `end` and
  `close`: a promise is settled once, with the outcome the worker had written, or rejected by `end`. `SettleInv`:
  until freed memory is used, what is queued is pending and queued once, and what was never submitted has no promise.

**JSI2C** (the last part of `JSWorkerProofs`: what `JSI2C` assumes of the worker's line is what the rest proves).
`I2CTypeCorrect`, `AtMostOneBus`, `OpenIsRight`, `HandlesKeep` and `ClosedStays` prove `I2CTypeOK`, `OneBus`,
`OpenGivesItsPins` and the action properties `HandlesKeepTheirPins` and `ClosedStaysClosed`. `I2CInv` adds that an
entry is in the worker's line at most once and only while it waits (`LineOK`: otherwise finishing one could undo
another's outcome), and that between the install and the push (`growing`) the driver already runs on the pins of the
entry at the head and no other bus of the table is installed (`GrowOK`): that is why the second half of the open
keeps `OneBus`.

**JSTimer** (`JSTimerProofs`). For any stack of activations: `FunctionsAreHeld`, `OnlyLateAreMissed`, `NohupStays`
and `IntervalsStay` prove the four properties of `timer_nested`, `IdsAreUnique` that an id names one timer,
`TimerTypeCorrect` the types. `IInv` speaks of the *places* of the batches (activation, position): `IdsOK`, an id
was given out and names one armed timer or one place; `HeldOK`, a function is referenced as long as its timer is
armed or at a place; `SweptOK`, who may belong to a client that has left: what was late, and all that belongs to a
client `Telnet.stop()` had forgotten; `Shapes`, only rounds have batches and a running callback is the first timer
of one. `IdsOK` carries the rest: a sweep, a clear or the end of a callback frees the function of one timer, which
is the function of no other. The step that starts a round is the hardest: its batch holds each due timer exactly
once because a one-to-one map between finite sets of equal size is onto (`BatchIs`), and the armed timers are
finite because their ids are unique and at most `MaxId` (`TimersFinite`). When a callback returns, the places of
its batch move by one, and the one dropped is that of the timer that ran.

`NeverEarly` and `RoundsAreInOrder` prove the two invariants of `timer_wrap` for a clock of any width, under `Horizon`:
no delay reaches half of the range of `millis()`, and the JS task is never later than that half. The code compares
times by the sign of a wrapped difference (`timeout - now` in 32 bits, QuickJS.h 301-315), which means nothing beyond
it: in `timer_wrap` a delay of 5, with a `Wrap` of 8, is called at once. `TimeInv` says that the stored time is the
unwrapped one modulo `Wrap` and lies less than half of `Wrap` ahead and at most `MaxStall` behind (`ArmedAt`), so that
what the code computes as the time left is the time left (`LeftIsExact`); and that a round keeps the timers that were
due when it started, sorted by unwrapped time (`RoundAt`). The arithmetic modulo `Wrap`, which is not a number here, is
done once in lemmas about quotients.

`ClearedIsGone` proves `ClearStopsArmed`: ids come only from `setTimeout` and `setInterval` (`HowIdsCome`), which never
give out one that was given out before, so that a cleared timer that is gone stays gone whatever is registered later.

**JSModuleLoader** (`JSModuleLoaderProofs`). For any modules, number of requests and depth of activations.
`LoaderTypeCorrect` and all the others rest on `Base`, which says what may be on top of what: only an activation that
waits or evaluates has another on it (`Links`); an evaluation is then at a `require()` it has yet to get through, and
a pass at the request whose evaluation is on top of it. Which steps begin, continue or leave alone an evaluation or a
pass is proved once for all actions (`Evals`); the later invariants are checked against that, not action by action.

- For every program: `FulfilledAreCached` (`FulfilledIsCached`), `OnlyNestedAreMixed` (`MixedOnlyIfNested`),
  `NoReadIsLost` (`NoLostRead`), `NothingIsReady` (`NothingReady`), `CacheStaysLive` (`CacheIsLive`). The first
  needs that `module` is set while a CommonJS module is evaluated (`GlobalSet`), so that a pass that fulfils a
  promise has cached something. The last two need `ReaderInv`: the requests of the reader and `cache_` and those of
  `pending_eval_` are different objects (`Apart`), what the reader has read it has taken out of `pending_` before
  (`Unread`), and what is in `cache_` has been read.
- `MixedOnlyIfNested` says which modules are given exports that are not their own. A module evaluated within a
  `require()` replaces the globals `module` and `exports`, and an outer CommonJS module then reads its exports from
  them (`loader_nested_require`). `OwnGlobal` says that this is the only way: while a CommonJS module that requires
  nothing is evaluated the globals are its own, for nothing else can run before it ends.
- `NamespacesAreOwn` (`NamespaceIsOwn`), under `LeafCommonJS`, follows: while there are several CommonJS modules, none
  requires a module.
- `CommonJSRejectedOnlyIfThrew` (`ImportRejectedOnlyIfThrew`), when all modules are CommonJS: a second import of an ES
  module is rejected although nothing threw (`loader_import_twice`).
- `FlatProgramsAreSafe` (`NoUseAfterFree`), under `Flat`: no module requires another. A `require()` in a module being
  evaluated runs `processPendingEval` within itself (`loader_pass_uaf`), and one that throws frees the definitions of
  those around it (`loader_throw_uaf`). Under `Flat` there is at most one pass, `pending_eval_` has each request once,
  and those the pass has been through, and no others, are deleted (`FlatOK`).
- `EvaluatedAreCached` (`EvaluatedIsCached`), under `Flat` and without relative names (`loader_relative`): `DefsOK` says
  that a definition the engine has is that of a module that is cached or being evaluated, so that the wrapper of a
  second evaluation finds the first.

**JSAnalog** (`JSAnalogProofs`). `PoolNeverLosesOrShares` proves `PoolIsPinned` from `PoolInv = PoolType /\ Mirror
/\ PoolIsPinned`; `Mirror`, that the table shows for each pin it covers what the hardware does, is what makes it
inductive: a release frees the channel the *table* names and detaches the *pin*. `TouchFindsItsListener` proves
`TouchIsForItsPin`; `AnalogTypeCorrect` the types, for which the player chosen by `SlotFor` must exist.
`CallbacksAreHeld` proves `CallbacksHeld`. `CbInv` relates players, tunes and references: two active players never have
the same tune, the tune of an active player is not done, and an inactive player has a callback only while that callback
runs (`completing`). The last part is what a `playRTTTL` within the callback relies on when it takes the player over.

**JSEspNow** (`JSEspNowProofs`). `PromiseShowsOwnFrame` proves `OwnOutcome`: although a report carries no id, a
promise shows its own frame, in the first session and without broadcasts. `IInv` says that ids are given out once
(`PendingIds`) and that the frames on the air to a peer are exactly the unresolved sends to it, in increasing
order of ids (`Flying`): so the next report to a peer is about its oldest send, the one `completeSend` takes.

`ReportsAreEnough` proves `EnoughReports`, broadcasts included. The property counts, and the counts are not inductive: a
report to a peer may settle a broadcast, which then was counted with another address. What is inductive is that each
waiting send can be given a frame of its own on the air, a send to a peer one to that peer (`Ticketed`). When a report
settles a send that had another frame, the send that had the report's frame takes over the one set free; the counts
follow from the injection.

**JSTelnet** (`JSTelnetProofs`). For any clients, lines, buffer sizes and nesting of commands: `OneSessionEach`,
`RunInOrder` and `NothingIsLost` prove the three invariants of `telnet`, `TelnetTypeCorrect` the types. There are four
invariants, each resting on those before it:

- `Base`: only the innermost activation does anything but wait in a command (`FramesOK`); what `handleClientInput` is
  to move down is still in the buffer (`StoreOK`), although the AsyncTCP task appends and commands below it shift.
- `SessInv`: a client is on the stack or in the maps, once, except between `top()` and `pop()`. It also counts
  (`Counted`): there is an id for every client not yet served, so that `initClient` never gives out one twice.
- `OrderInv`, for `RunInOrder`: all that ran comes before all that is in the buffer beyond its `Offset`, the place
  where the first activation at this id goes on; what lies before it is the line that activation runs. The hypothesis
  `TypedInOrder` only labels the lines of each console with increasing numbers.
- `KeptInv`, for `NothingIsLost`: what ran and what is in the buffer beyond the offset make up, piece by piece, what was
  typed (`Holds`). A second activation at an id shifts the buffer under the first, whose `i` and `remaining` are then
  stale; `SecondOK` says that when this happens the client is one of `again` or `shifted`, those of which the property
  says nothing. This is the line between what the code keeps and what it loses (`StatementsWhole`, `NoMisuse` below).

**JSWeb** (`JSWebProofs`). For any servers, routes and nesting of handlers: `GivenOnce`, `RequestLives` and
`RemoveFindsLive` prove the three invariants of `web`, `WebTypeCorrect` the types. The parts of `IInv`: `ChainOK`,
while a request is on its way along the chain it has been queued only for middlewares behind it, and `StashOK`,
ids of the stash are given out once, so that neither the next middleware nor the route at the end has it already;
`OpsOnce`, nothing is queued twice or queued again once given; `FreshOK`, a new request is in no queue and has no
connection, so its count starts right; `TableOK`, an entry stands under the id of its handler, so that the handler
`app.remove` frees is in no other entry. That it takes out just that handler is proved of the library's operator
`RemoveFirst` (`RemoveFirstIs`), which needs a least element of a set of indices (`Smallest`, from the
well-foundedness of `<` on the naturals).

**QuickJSGC** (`QuickJSGCProofs`). For any finite heap: `ReachableIsNotFreed`, `FieldsNeverDangle`,
`CollectionIsComplete` and `CountsAreRight` prove the four properties of the run, `AssertionsNeverFail` the
assertions written in the code, `GCTypeCorrect` the types (that no count drops below zero is part of it). The
inductive invariant has these parts, each needed for another reason:

- `Counts`: a count is the roots of the object plus the references from the objects that are `Counted`; which
  those are depends on the pass (all, those not yet taken away, those added again). So a count is zero exactly
  when nothing counted refers to the object (`CountIsZero`), which ties counting to reachability.
- `Phases`: what is on which list in which pass: after its own turn an object is in `tmp` if and only if its
  count is zero, also when the count drops or rises later.
- `Grounded`: everything that survives the scan can be reached; it holds because an object is only left or put
  back when a root or a survivor refers to it. `Doomed`: after the scan nothing that survives refers to what does
  not. Together they make the survivors exactly the reachable objects, hence both safety and completeness.
- `Remembered`: while cycles are freed the survivors stay those of the scan, although the program may reach fewer of
  them by then: a record goes with its key, and its value with the record. `Held`: no *part* that survives loses its
  last reference meanwhile, for then it would be freed; it holds because a record's value is never a part.
- `Heap`: no field dangles; while cycles are freed this rests on the restored counts: an object leaves memory
  before the end only when nothing refers to it any more.

**Only model-checked**: liveness and the fairness half of `ServiceSpec`, which are outside this prover's reach
(temporal reasoning about fairness and ENABLED). Every invariant and action property of the runs is proved.

## Disagreements

Where a comment or a document of the repository says otherwise than the code does, or where the code goes wrong
by its own standard, a property states what one would expect and a configuration finds the counterexample (run it
with the `MC` module of its name: `tlc -config i2c_wrong_bus.cfg MCJSI2C.tla`). TLC stops at the first of several
properties: leave one in, or use `-continue`. None is among the runs of `PROJECT.json`, all of which pass; each is
noted with its hazard there.

| Configuration | Property | What happens | What is said |
|---|---|---|---|
| `worker_end_uaf` | `NoUseAfterFree` | `end()` deletes items the worker holds (QuickJS.h:983) | "JSWorker owns the WorkItem (freed after done is set)" (201-202) |
| `worker_close_uaf` | `CloseSettles` | `close()` frees the functions `loop()` is to call; its promise does not settle (1074, 1642) | "I2C.close(busHandle) -> Promise<void>" (1050; SPI: 1618) |
| `i2c_wrong_bus` | `TransferUsesItsBus` | a transfer goes to the first installed bus, not to its handle's (881) | "I2C.write(busHandle, addr, data)" (1079) |
| `timer_statements` | `NoOrphans` | a timer in a round when its client leaves is armed again; after `Telnet.stop()` a client that leaves has no id (JSTelnetServer.cpp:78, 185), and none of its timers is dropped | "drop every timer scheduled by that client" (249-250) |
| | `JobsHaveAStream` | a job writes to the deleted stream of a client that has left | "a stale value is fine" (JSTelnetServer.cpp:296-297) |
| | `ClearedStaysCleared` | an interval cleared in its own callback, or in an earlier one of the round, goes on (335) | "clearTimeout(id)" (README.md:47) |
| | `NoLeakAtEnd` | `clearTimeout` keeps the callback referenced (269), so that `JS_FreeRuntime` asserts (quickjs.c:1979) | |
| | `CommandOwnsItsTimers` | a nested command leaves the outer one without an owner (JSTelnetServer.cpp:298) | "tag this REPL as the current telnet owner" (281-285) |
| `loader_import_settles` | `ImportSettles` | `importModule` of an unread module never settles | "Queue a read and return a Promise. Resolved in loop()." (3143) |
| `loader_nested_require` | `NamespaceIsOwn` | a CommonJS module is given the exports of one it requires | "Returns the module namespace directly ... exactly like Node.js require()" (3049-3050) |
| `loader_pass_uaf` | `NoUseAfterFree` | `processPendingEval` within itself deletes requests in use (3262) | "Called from both loop() (normal operation) and tick() (blocking waits)" (3257) |
| `loader_relative` | `EvaluatedIsCached` | an ES module named `./x.js` gets no namespace (3340) | `require("./fib.js")` "blocks until loaded, returns module" (4009) |
| `loader_import_twice` | `ImportRejectedOnlyIfThrew` | the second of two imports of an ES module is rejected (3372) | "returns a Promise per spec" (4011) |
| `loader_throw_uaf` | `NoUseAfterFree` | an ES module that throws frees the definition of the one that required it (3330, quickjs.c:2211) | |
| `analog_statements` | `NoTuneDropped` | a tune started in an `onComplete` callback may take over the player, whose notes and callback the tick then clears (2642) | "onComplete is called (no args) when the song finishes naturally" (4380) |
| | `NoChannelLost` | a second write to a pin from 40 on takes a second channel (418) | |
| `telnet_statements` | `StatementsWhole` | the first line of an open statement is shifted out unrun (JSTelnetServer.cpp:275) | "run the open-statement check on the whole buffer including the current line, and only evaluate when it closes" (242-244) |
| | `NoMisuse` | a client that leaves, or `Telnet.stop()`, frees state and iterator under the command that runs; a command within a command on one buffer makes its length wrap below zero | |
| `espnow_statements` | `AlwaysOwnOutcome` | a broadcast is reported once per peer; the reports beyond the first settle other sends | "ESPNow.send() resolves when the radio reports success/fail" (2020-2021) |
| | `OwnOutcomeAcrossSessions` | `end()` leaves its sends to the next session, whose reports settle them (2041) | the same |
| | `NoUseAfterFree` | a handler replaced within itself is freed while it runs (2107) | |
| `web_statements` | `IdsAreUnique` | static routes count their ids on their own, from 1, in the table of the other ids | "same id-space as app.get/post/etc." (WebServer.h:431-432), "a unique id" (42-45) |
| | `MiddlewareFirst` | the queue is a stack: a route's handler runs before its middlewares (JSQueue.cpp:17) | |
| | `NoLateUse` | a response kept after its handler refers to a request that may be freed (329) | |
| `web_two_servers` | `RoutesCanBeRemoved` | `remove` on another server takes the entry and leaves the route | |
| `web_starve` | `EveryRequestIsGiven` | with clients that come back, an old request stays at the bottom of the stack | |

In `JSEspNow` the comment over `completeSend` ("the most recent pending unicast", 2261-2263) says otherwise than
the code, which takes the oldest; the code is right and `OwnOutcome` fails with the comment's version
(`MatchNewestBug`).

A collection may leave an object nothing refers to: when a WeakMap's key is freed with a cycle, the value of its record
may lose its last reference, and in that phase `__JS_FreeValueRT` frees nothing (quickjs.c:5486). The object is
found by no count and freed by the next collection. No comment promises otherwise, so that `NoGarbageLeft` asks for
what could be reached when the collection *began*; with `mem = Reachable` TLC finds this.

The properties of the passing runs hold up to these: `ClearStopsArmed`, `SweepMisses`, `FunctionsHeld`,
`PoolIsPinned`, `OwnOutcome`, `Conserved` and `MixedOnlyIfNested` state what remains true.

## Not modelled

- Thin bindings without a protocol of their own: pin watches, DAC, OneWire, serial ports, DNS, mDNS, NTP, GPIO;
  formatting, logging and argument parsing throughout; what file operations, requests and responses contain (the
  HTTP method of a route is part of its path here).
- The WiFi scan (one task, one flag, one callback; overlapping scans are in no property).
- `MotorDriver` and `RotaryEncoder`: arithmetic and a table of transitions. `MotorDriver::loop()` has no caller
  and a motor made from JavaScript never gets its `JSAnalog` (`setAnalog` has no caller).
- `JSPromise`: `queueResolve` and `queueReject` have no caller.
- `JSSPI`'s device table and the ownership of its bus; `I2C.end`'s clearing of the table; `JSWorker::end` (only a
  destructor calls it) and its start.
- Static `import` and `loadStatic`; `JSModuleLoader::init` and `end`.
- A context's reference to a shape, which `QuickJSGC` would need parts of parts for.
- The ADC queue, which shares nothing, and `JSAnalog::end`, which only the program's end calls.
- The peer table of ESP-NOW, which is the driver's.
- `app.use` without a path.
- Races inside a `std::vector` or a map accessed by two tasks, which have no defined behaviour to model: such
  accesses are atomic here, which is the best case for the code.
- The rest of the engine: parser, interpreter, built-in objects, big numbers, regular expressions, Unicode tables,
  and its command line tools and test runner. This is third-party code in which `esp32/` has no part; it is most
  of the lines of the repository. `map` covers `esp32/` and the collector.

## Plan

Done: `PromiseService`, `JSWorker`, `JSI2C`, `JSTimer`, `JSModuleLoader`, `JSAnalog` with the RTTTL player,
`JSTelnet` with the Serial console, `JSEspNow`, `JSWeb` with `JSQueue` and `JSStash`, `QuickJSGC`; proofs
about all of them.

Left, most useful first:

1. A composition of `JSTelnet` with the owners and streams of `JSTimer`: today each takes from the other what it
   needs as free choices.
2. `JSSPI`'s devices sharing a bus, on top of `JSWorker`.
3. `MotorDriver` and `RotaryEncoder`: transition tables as operators against a reference decoder; the WiFi scan.
