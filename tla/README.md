# A verification project for the tsonic Node.js runtime

The repository implements the Node.js API for programs compiled by tsonic: a
Mojo package (`mojo/tsonic_node`), its C bridge (`mojo/tsonic_node.native`) and
a TypeScript description of the API for the compiler (`nodejs/src`).  This
directory holds TLA+ models of the runtime's core and of that description, the TLC
configurations that check them, and proofs that TLAPS checks.

    tlc -config CallbackQueue.cfg CallbackQueue      # and so on, see "Runs"
    tlapm CallbackQueueProofs.tla                    # and the other ...Proofs

`PROJECT.json` lists components, runs, properties, hazards and theorems, and maps
every definition to the lines of code it stands for.

## The system

One thread runs `run_event_loop`.  As long as some part has something to do it
polls every part in a fixed order, and waits for at most 10 ms if none had work.
A part delivers results to user code by calling it inside its poll, or by
committing a notification to a callback queue that the loop polls.  User code may
call any operation of any part while it is called, and it may raise, which ends
the poll and `run_event_loop` with it.  Other threads exist in three places: the
reads of streams, DNS requests, and workers, which are processes of their own.

| Component | State | Operations | Interacts through | What is hard |
|---|---|---|---|---|
| Callback queue (`internal/callback_queue.mojo`) | pending list, two counters, `polling` | reserve, commit, drop, push, poll | every part that calls back | reentrancy, a raise within a batch, the limit |
| Writable (`stream/writable.mojo`, `write_events.mojo`, `completion.mojo`) | chunks, cork level, life-cycle flags, reserved places | write, end, close, destroy, cork, uncork | the shared stream queue, the descriptor | partial failure, event order, capacity promised ahead, lost drain |
| Native read (`stream/read.c`, `native_read.mojo`) | one request per read, counters, completion generation | start, ready, result, drop, wait | worker threads, libuv, the event loop | data races, freeing, cancellation, lost wakeups |
| Timers (`timers.mojo`) | the timer list | set, clear, refresh, ref, unref, poll | the event loop | changes of the list inside a callback, raising callbacks |
| Readable and pipes (`stream/readable.mojo`, `read_events.mojo`, `pipe_sink.mojo`, ...) | buffer, flags, one native read, pipes | read, pause, resume, pipe, poll | native read, stream queue, Writable | results in flight over close and pause, backpressure |
| EventEmitter and typed listeners (`events/emitter.mojo`, `internal/typed_listeners.mojo`) | listener lists, one group per event | on, once, off, emit | all event sources | emits inside emits, listeners that change the list |
| Worker threads (`worker_threads`, `native/worker`) | ports, framed channel, child process | post, start, close, poll, terminate | a socket pair | partial frames, peer exit, what keeps the loop alive |
| Provider (`nodejs/src/provider`) | tables of declarations, types and operations | module projection; lookup by the compiler | the Mojo names it binds to | tables that drift apart, ids put together from strings |
| Watchers, readline, DNS, zlib, net, TLS, HTTP | one object list each, polled by the loop | open, poll, close | callback queues, native code | errors within a poll, late results |
| Paths, globs, URL, Buffer | none or one value | pure functions | | edge cases of the algorithms |
| Crypto, process, OS, assertions, formatting | none of interest | single calls | | |

The properties that make the parts above the last three rows correct are those of
the runs below.  For the others they are: every DNS or compression request calls
back once; a watcher, server or socket that is closed is polled no more; an answer
goes to the question that asked.

## Modules

* **NotificationQueue** – the callback queue as functions of a queue value, so that
  other modules can keep a queue in their own state.
* **CallbackQueue** – the queue as a state machine.  `q` is `_QueueState` with the
  local list of `_poll_batch`; `reservation` the `_ReservationState` objects;
  `running` the notification being called.  `accepted` and `delivered` are history.
  `Reserve`, `Drop`, `Commit` and `Push` are enabled while a notification runs:
  that is the reentrancy.  `Poll`, `Return` and `Raise` are the pieces of `poll`
  between calls of user code.
* **BoundedFifo** – the abstract specification: a FIFO with promised places.
  `CallbackQueue` implements it with `queue <- q.batch \o q.pending`.
* **WritableStream** – one Writable over the shared stream queue.  The operators of
  its first part are the methods of `WriteEvents`, those of its second part the
  private methods of `Writable`, both as functions of a stream value; an action is
  one public operation run to its end.  The variants `write_*` and `end_*` differ
  in encoding only and are the parameters of `Write` and `End`.  A method that uses
  the descriptor yields a set of results, since each chunk, the `fsync` and the
  `close` may fail.  `Foreign` is another stream that uses the same queue.
  `sink`, `accepted`, `starved`, `told` are history.  `Ids` picks the calls that wait
  for a callback by their rank among the buffered chunks, and `Bytes` counts the
  bytes of chunks, where the code loops and adds.
* **NativeRead** – the request, its worker thread or thread-pool operation, and the
  event-loop thread, in the loop from the capture of the generation to the wait, and
  outside of it: the program enters it, and it returns or is left by an error.  The
  actions are the steps between accesses to memory that threads share.  Whether a read
  is polled is up to its stream: `listed` are the reads of streams on the loop's list,
  and one of these is either looked at in a turn (`CheckReady`) or passed over, since
  `_poll_ready` returns early while a destination is blocked (`PassOver`).  A stream
  off the list (paused, and read by calls) is polled by nobody but the program.  The
  loop's other parts may have work, or not, in every turn.  libuv's pool and
  `uv_run` are external and modelled by how `read.c` uses them.  `Buffers` is the set
  of the bytes that the requests in memory have allocated, so that `live.bytes` can
  be compared with its size.
* **Timers** – the timers with the loop around them, in time relative to the present.
* **ReadableStream** – one Readable on a descriptor, its lifecycle events on the
  shared stream queue, and its pipes.  `stream` is `_ReadableState` with
  `_ReadEventState` and the queue; `sink` the destinations with their `PipeSink`;
  `loop` says where the event-loop thread is inside `poll_readables` or
  `poll_streams`.  The poll is cut where it calls listeners, so that user code acts
  on a half-finished poll.  A data event may reach a user listener before the
  pipes; that listener may read, close, pause or raise.  `read` and `upset` are
  history: what left the stream, and what listeners kept from pipes or reordered.
  Every read of the descriptor returns one unit, so all reads longer than that are
  short reads.  A native read is one step here; NativeRead shows its threads.
* **TypedListeners** – the listeners of one event as streams, sockets and readline
  keep them: `entries` with their `_Listener`s, `fired` the shared flags of once
  listeners.  `frames` is the stack of emits under way, each with the rest of its
  snapshot; user code runs when the stack is empty or its top is in a listener.
  `EmitterNext` adds what an EventEmitter can do besides.
* **EventEmitter** – the groups behind it: `made` numbers every `EventGroup` object,
  `groups` is the list that is searched, and a frame holds its group by identity, as
  `_emit` does.  It implements `TypedListeners` with the groups hidden.
  **MCEventEmitter** adds the symmetry of events and of callbacks.
* **WorkerProcess** – a Worker in the parent and the process it starts.  `link` is the
  pair of `TsonicWorkerChannel`s with the wire between them, `port` both
  `PortState`s, `process` the child from `source_module_entry` to
  `source_module_complete`, `loop` the parent's event loop.  A frame is two pieces, so
  that every way a socket can split, fill or break happens.  `seen`, `taken`,
  `posted`, `flushed` and `unread` are history.  The child may crash at any point,
  the parent may end at any point.
* **ProviderModel** – the vocabulary of the provider: source types, carriers,
  declarations, operations, event definitions.  Ids that the code puts together from
  strings are tuples of the parts.
* **NodeDns, NodeEvents, NodeHttp** (with https), **NodeNet, NodeReadline, NodeStream,
  NodeTimers, NodeTls, NodeWorkers, NodeZlib** – the tables of one module each:
  what it exports, the target types, the operations.  They are translated row by
  row, and computed where the code computes them.
* **ProviderPackage** – the tables put together, `withNodeModuleObjects` one module a
  step (`ProjectModule`), and a program: it imports a module under either name
  (`Import`), uses something declared there (`Bind`) and goes on (`Continue`).  The
  compiler is external and reduced to what the tables must offer it.  The names that
  the Mojo methods accept (`readableAccepts` and so on) come from the Mojo files.

* **CallbackQueueProofs, NativeReadProofs, TimersProofs, EventEmitterProofs,
  WritableStreamProofs, WritableStreamOrderProofs, ReadableStreamProofs,
  WorkerProcessProofs** – the proofs, each about the module it is named after; see
  "Proofs".

Operators called `...Mutant` are variants with a plausible bug, kept to show that a
property notices it; no specification uses them.

## Runs

| Run | Checks | Bounds |
|---|---|---|
| `callback_queue` | counters exact and within the limit, commit order, guard, every notification called, refinement of `BoundedFifo` | 4 notifications, 2 reservations, limit 2: all mixes of pending, batched and reserved places at the limit |
| `writable_safety` | places owned and given back, data and completions, no lost drain, nothing told twice, order | 3 calls, a queue of 7: five life-cycle places and two callbacks fill it, a third callback is refused; cork level 1; every chunk is as large as the others, and the high-water mark is between one chunk and two |
| `writable_fair` | no event without a reserved place; end callbacks and `close` are delivered | 2 calls, another stream taking one place |
| `writable_late` | violation, see Findings | 2 calls |
| `native_read` | counters and limits, freed once by the last owner, final result, no lost wakeup; completed reads reach the stream that the loop polls unless it is passed over, dropped ones are freed | 2 reads of 2 or 3 bytes, 2 live, 4 bytes, 1 worker: the byte and the worker limit bind |
| `timers` | no duplicates, no loss of earlier timers, only due and active timers called; referenced timers are called | 2 timers, delays 0 and 1, one tick within a poll |
| `timers_nested` | violation, see Findings | 2 timers |
| `readable` | data in order, exactly once; no event without a place; a flowing stream is polled | 2 units, sizes 0 and 2 and no size, data and readable listeners, a queue of 3 that another stream competes for |
| `readable_pipe` | a destination gets what is read, once; it is ended only at the true end, and at last | 2 units, 1 destination, a data listener |
| `event_emitter` | groups consistent, once listeners called once, refinement of `TypedListeners` | 3 registrations, 2 events, 2 callbacks, emits three deep: a group can be pruned, made again and pruned by the emit that held it first |
| `worker_process` | messages in order, none flushed is lost, a clean end is no error and an end within a frame is one, processes end and are reported | 1 message to the child, 2 from it, a socket of a frame and a half, a queue of two frames |
| `provider` | one operation for every use, carriers as declared, default exports alike, event names accepted | all of the tabulated modules, no bound |

The bounds suffice for the interactions the code has: an operation looks at one
queue place, one chunk or one timer and at flags, and the runs let each meet every
other before, during and after it.  Deadlock is not checked where the system may
simply be finished (queue, streams, worker process); it is for the native reads, the
timers, the emitter and the provider.

**Fairness.**  `Poll` and the end of user code are weakly fair: the loop polls as
long as the queue reports pending work, and the properties say nothing of a
program whose callback never ends; a program whose callback raised is assumed to
enter the loop again.  In `NativeRead` every thread is scheduled, but a worker that
waits for input is fair only once it is cancelled, and the timeout of the loop's
wait is not fair at all, so `ReadyConsumed` shows that wakeups alone suffice.  It
promises nothing more of a stream that is passed over in turn after turn: its completed
read stays with its request as long as its destinations are blocked (their progress is
the matter of `PipeEnds`), and nothing of a stream that is off the loop's list.  A
turn of the loop is fair, entering it is not, and it may be left by an error.  Nor is
the loop obliged to wait, since other parts may always have work: `DroppedFreed`
promises the end of a dropped thread-pool read only if the loop goes on to wait, and
that of a worker's read without condition.  A thread-pool read that is dropped when
the loop is over is freed with the process.  In `Timers` time
passes and the loop runs; the program is not obliged to enter it.  In
`ReadableStream` the loop polls and listeners end, native reads complete and full
destinations drain; nothing the program may do is fair.  In `WorkerProcess` the
parent's loop polls while it runs and the child goes on (`ChildGoesOn`: it polls, ends
its loop when nothing keeps it, flushes and exits); nobody is obliged to post, to
listen, to close or to crash.

## Proofs

The theorems hold for every value of the constants that satisfies the assumptions of
the module: natural numbers for limits, sizes and delays, finite sets of objects where
the code counts them.  In all eight modules the properties of the runs are
not inductive, and the work is in the invariant that is (`IInv`, or `Inv` for the
worker process).

**CallbackQueueProofs**: `TypeOK`, `CountersExact`, `WithinLimit`, `CommitOrder`,
`GuardMatchesPoll`, and `ImplementsFifo` (theorem `Refinement`).  `IInv` is the
conjunction of the invariants, with the limit stated for the two counters
(`CountersWithin`), because those are what `require_capacity` compares.  The parts
need each other.  A counter stays a natural number only because it equals a length or
a cardinality (`CountersExact`).  The swap at the start of a poll keeps `CommitOrder`
only if no batch is left over, which is `GuardMatchesPoll`.  For the refinement, the
queue of `BoundedFifo` is `q.batch \o q.pending` and its promises are the active
reservations; under `IInv` every step is a step of it or a stutter: a new batch, a
return and a raise leave the concatenation as it was.

**NativeReadProofs**: `TypeOK`, `FreedByLastOwner`, `NoLostWakeup` and the action
property `ResultStable`.  The reference count of a request is the number of its
owners, the handle and the completion (`Referenced`); who they are depends on how far
the worker thread or the pool has come (`Served`, `Resulted`), so the invariant ties
every program counter to the fields.  The three counters and the generation are the
cardinalities of sets of reads or bytes (`CountsExact`), which is what keeps them
natural numbers within their limits.  None of this depends on which reads the loop
looks at; all that is asked of it is that the reads it lists have a handle (`Shape`).

**TimersProofs**: `EarlierTimersKept` and the action property `CalledRightly`.  The
list has no timer twice after a poll because what a poll retains is part of what it
has passed (`Retained`, `Walk`); a new timer can be appended because the list holds
timers already made (`Listed`); none is lost at the end of a poll because one that is
active is retained or still to come (`Kept`), and the list does not get shorter
meanwhile.

**EventEmitterProofs**: `GroupsSound`, `CalledOnce` and the refinement
`ImplementsTyped`, for emits nested to any depth.
A group that was pruned may be held by an emit while its event has a new one.  A once
listener is removed from the group the emit holds only; that no other group keeps it
rests on a registration having one place in one group (`OnePlace`) and on a snapshot's
listeners being in no group but the one held (`Held`).  `Counted` says that a once
listener's calls are the mark it carries.  The refinement maps each operation to the
one of TypedListeners with the same name (`Refines`, with a lemma for each operation
and a stutter for a step that changes nothing).  A table is compared by what the
search of the list finds (`ListIn`): a change of one group is seen by its event only
while the group is listed (`ListedSee`).  The call of a once listener is where it
could fail, since the group held may no longer be that of its event: then `Held` says
that the group listed in its place has not that listener to lose (`CallTyped`).

**WritableStreamProofs**: `NeverStarved` and `PlacesOwned`.  Prepare reserves for what
the flags say can still happen; that this suffices to the end of an operation is
`Ready`, and rests on the order of the flags (`Life`).  Between operations only what
was promised keeps its place: a close that is scheduled, and the finish that the
internal event `complete` will queue, which must then be queued once (`Promised`).
`PlacesOwned` needs that a method leaves no chunk and no end callback behind which
nothing will report (`Settled`), that an end that succeeds schedules finish (`Ends`) and
that no drain is due once the stream takes no data (`Quiet`); `Rest`, the reserved
places that belong to none of the stream's events and callbacks, is then exactly
`foreign`.

**WritableStreamOrderProofs**: `ReportsTrue` and the action properties `OrderSeen`,
`CalledOnce` and `DrainNotLost`, from a second invariant (`HInv`) beside the one above.
None of the four follows from the state of the flags alone: they speak of what was
told, so the invariant takes the notifications told, the batch and the pending list as
one line, with the callbacks of chunks and ends to come behind it.  `Before` says which
notification may stand before which, `Row` that the line is so ordered.  To put a new
one behind it, one has to know that it is new and that nothing in line excludes it;
this is `Recorded`: what each notification that is queued or told says of the stream
(after `finish`, `finished` is set; a write callback's call is older than every chunk
still buffered; it failed exactly if the descriptor did not take its chunk).  `Stocked`
says that the accepted chunks are those taken and those buffered, in call order, which
makes the reports true.  A stream with an error, a `cancel` or a `close` behind it is
`Dead`: late calls still put failures in line, so that the order is weaker, and only
that `close` came at an end remains (`Over`).  A drain that is scheduled is in line
(`Due`), and a writer waits only on a corked, failed or missing descriptor (`Waits`).
A method of the stream passes through stages where `Waits` does not hold yet; those are
related by `Turns`, complete ones by `Flows`.

**ReadableStreamProofs**: `NeverStarved`, `KeptByLoop`, `ReadInOrder` and
`PipesComplete`.  An abort
inside a poll prepares again, perhaps on a full queue.  It passes because a stream
that was activated once has, for each event, the place or the mark that the event is
queued (`Primed`), until its close event; that a poll meets only such streams rests on
what activates a stream (`Placed`) and on `KeptByLoop`.  `ReadInOrder` is proved
through every method that can move data: reads of one or two turns, aborts and closes
in the middle, and the units a read takes (`Takeable`).
`PipesComplete` has an invariant of its own (`PInv`) on top of that.  A destination of
the stream has all that was read since it joined, but for what a raising listener cut
short (`Served`) and for the one chunk that a data listener of the user holds back
while it runs (`Coming`).  That chunk is the last that was read, unless the listener
read on (`Behind`), so that what it is written behind is complete: this is why the
order holds up to the first listener that reads.  That a destination is ended only for
the true end rests on what the descriptor gave (`Sourced`) and on what the queue holds
for single destinations (`Ending`).

**WorkerProcessProofs**: `MessagesInOrder`, `NothingLost` and `CleanExit`, for any
number of messages and any socket and queue that hold one frame (the code's queue
limit is four times the largest frame, `model.h:7-8`).  `CleanExit` has two halves,
an invariant (`QuietEnd`) and an action property (`TornReported`).  The proof follows a
*flow* (`Flow`): what one side's channel still queues, the wire, and what the other
end has read of the next frame.  `progress` moves pieces inside a flow (`Moves`,
`ProgressMoves`), `send` adds a frame at its end, `consume` takes the first, `close`
cuts it.  The invariant says that each flow is in order (`Ordered`: frames whole,
messages numbered on from the last that arrived, the opening frame first) and complete
(`Whole`) while both ends are open, and for the child's also once it has flushed
(`ToChild`, `ToParent`).  That is not enough alone: which end may be closed when
(`Ends`) decides what a cut can lose; that nothing is posted after `closed` and
`failure` (`LastWords`) keeps the messages consecutive; and an end fails only after
its peer has closed and all has been read (`Half`), or in the middle of a frame, of
which a flushed child leaves none, so that the parent has everything when it learns of
the end (`AllRead`, `Delivered`).  An error is then traced to a failure frame, a death
or a reset over unread data (`Faults`).  In the other direction, the pieces that a dead
child left are its flow, of which the parent takes whole frames only (`TornStays`); an
end of the stream that is no failure has left no piece (`Half`), so a turn that meets
a frame cut in two is one that fails (`PollReports`).

In the two stream modules the methods are functions of a stream value, and there is
one lemma for each: what it does to the flags, to the queue and to the places.

Only model-checked:

* every liveness property, since the prover has no fairness: `EventuallyCalled`,
  `EndReported`, `CloseReported`, `ReadyConsumed`, `DroppedFreed`, `TimersCalled`,
  `PipeEnds`, `WorkersEnd`;
* `ProviderPackage`, which compares types with a RECURSIVE operator; its tables are
  finite and closed, so that the run covers them completely.

## Findings

* **Error after close** (`writable_late`).  `stream_completion_test.mojo:160` calls
  its listener `must-not-error-after-close` and writes after `close` was delivered.
  A write made when `close` is queued and not yet delivered fails the stream, and
  `error` is delivered after `close`.
* **Timers scheduled by timers are lost** (`timers_nested`).  `poll_timers` ends by
  replacing the list by the timers it retained (`timers.mojo:107`), so a timer that a
  callback scheduled is dropped: it is never called although it is active and
  referenced, and the loop returns.  `timers_test.mojo:49` expects no reference
  after the loop.  `EarlierTimersKept` shows that this is the only way to lose one.

## What is left out

*Streams and timers.*  Byte contents, encodings and positions; listener lists (a
notification either reaches user code or not; EventEmitter shows the lists); a timer
callback that runs the event loop itself; allocation failure; `append`,
`set_encoding` and once listeners of a Readable, its limits of 1024 pipes and 16384
active streams, and data listeners nested more than once; `read_start` failing after
its checks, which undoes its increments on the same thread.

*Workers.*  Local MessageChannel pairs, which share a queue in memory; the lists
`_ports` and `_retained_ports` with their compaction (one Worker is kept by its
owner); environment data, options, names; transfer metadata; a listener of the parent
that raises; the timeouts of 30 seconds of flush, wait and terminate.

*Provider.*  The modules assert, buffer, child_process, crypto, fs, fs/promises, os,
path, process, url and util; the constants of zlib; imports lists; copy traits and
lifecycle roles of types; the native views of duplex types; surface members; binary
epilogues.  Tables are sets here, so that a row given twice with equal contents is one
row.  Documentation names and provider module ids bind nothing and are not kept.

The other components with status `not_modelled` are those of the plan, and the ones
without state or protocol (crypto, process, operating system, assertions, formatting,
the vendored parsers).

## Plan

1. *Done:* the callback queue with its proofs, Writable, native reads, timers,
   Readable with its pipes; EventEmitter over typed listeners; the worker process;
   the provider's tables of the asynchronous modules.
2. *Done:* the proofs above: every safety property and the refinement that the runs
   check, except those of the provider's tables.
3. **Pipe**, which composes ReadableStream with WritableStream in place of the
   abstract destination; local MessageChannel pairs with the retention lists.
4. **Watchers**, **Readline**, **Dns**, **Zlib**, **Net**, **Tls**, **Http**: the polled
   life cycles, each on NotificationQueue where the code uses it.
5. The remaining modules of the provider.
6. Pure functions against reference definitions: path normalisation, globstar
   matching, buffer ranges, read sizes, the recursive copy's plan.
