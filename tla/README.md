# A TLA+ model of the flutter_rust_bridge runtime

flutter_rust_bridge lets Dart code call Rust functions and the reverse. A code
generator writes glue code; the glue code runs on a runtime library with a Rust
half (`frb_rust`) and a Dart half (`frb_dart`). This project models the runtime,
where threads, isolates, panics and shared objects meet, checks the models with
TLC on small instances, and proves their main properties with TLAPS for every
instance.

## Inventory

### Components that carry state

| Component | State | Operations | Talks to |
|---|---|---|---|
| Generalized Arc (`generalized_arc/`) | pool of objects by id, counter and `Arc` per entry, id generator; or a std `Arc` | `new`, `clone`, `drop`, `try_unwrap`, `into_inner`, `into_raw`, `from_raw`, `increment_strong_count`, `decrement_strong_count` | owned by Rust handles and, as raw numbers, by Dart |
| Lockable (`lockable/`, generated decode loop) | creation order and tokio `RwLock` per object, guards per call | compute the order, check borrows, take guards, run, drop guards | objects of the Arc; called in the body of a wrapped function |
| Handler and executors (`handler/`, `thread_pool/io.rs`, `rust_async/`) | queues of a thread pool or of a lane, running tasks | `wrap_normal`, `wrap_sync`, `wrap_async`, `execute_*` | Dart's ports through `Rust2DartSender`; the user's `ErrorListener` |
| Dart handler (`main_components/handler.dart`, `utils/`) | completer, port and timer per call | `executeNormal`, `executeSync`, receive, time out | Rust's wire functions |
| Web worker pool (`third_party/wasm_bindgen/worker_pool.rs`, `web_transfer/`) | idle stack, FIFO queue, number of workers | `execute`, `dispatch`, `complete`, `push` | web workers through messages |
| StreamSink (`stream/`) | shared closer, Dart controller and port | `add`, drop of the last clone | a Dart port |
| DartFn (`dart_fn/handler.rs`) | map from call id to completer | `invoke`, `handle_output` | Dart's handler port |
| DartOpaque (`dart_opaque/`) | persistent handle in a thread-guarded box | encode, decode, clone, drop here or through the port | Dart's handler port |
| RustArc / Droppable / RustOpaque in Dart | pointer and finalizer | clone, move, dispose, finalize | the counts of the Arc |
| Entry point and shutdown callback | `__state`, number of isolates, the post function | `init`, `dispose`, shutdown | everything above |
| SSE byte buffers (`rust_vec_u8.dart`, `write_buffer.dart`) | pointer, length, capacity | write, grow, hand over, dispose | the allocator of Rust |

The code generator (`frb_codegen`, by far the largest part of the repository) is a
sequential text-to-text compiler. Two fragments of what it generates have concurrent
behaviour and are modelled: the decode loop of `lockable.rs` and the wrappers of
Dart closures.
Examples, website, tools and vendored code are left aside.

### What is hard here

* **Interleaving.** A `MoiArc` is dropped in two steps, of which only the first is
  under the pool's lock. Wrapped functions lock several shared objects while
  others do the same.
* **Failure in the middle.** User code can panic while arguments are decoded, in
  the body and in the error listener; each place has a `catch_unwind` of its own
  and exactly one reply is owed. In a browser each post and each spawn can fail.
* **Lifetime.** An isolate goes away (hot restart) while its calls run; a caller
  times out while Rust is still working.
* **Limits.** Ids wrap around at `MAX_ID`, call ids at `i32::MAX`; a pool is full.
* **Ownership across languages.** A Rust object is owned by Rust handles, raw numbers
  in messages and Dart finalizers; a Dart object is owned by Rust clones on any
  thread and may be freed only on its isolate. No common code counts the owners.
* **Waiting.** One lane runs all its async bodies on one thread; a body may await
  another call of the same lane.

`PROJECT.json` lists each hazard at its line with the properties that cover it.

### What correct means

* Arc: the count is the number of owners, an id names one object, nothing is used
  after it is freed, nothing leaks, and only a sole owner takes the value out.
* Lockable: a mutable borrow is exclusive, calls do not deadlock and do not starve.
* Handler: each call is answered at most once, with what really happened, and
  settles once; an ended call has been answered, and only a call whose arguments could not
  be encoded leaves its port open.
* Worker pool: no worker is lost or used twice, a job has one owner, the queue is
  FIFO and accepted jobs end.
* StreamSink: values arrive in the order in which the port accepted them and none is
  lost; the close comes behind all values of its sink, and the stream ends.
* DartFn: a future gets the output of its own call, and gets one while the port of
  the closure is open, if the arguments could be decoded and the output encoded.
* DartOpaque: a persistent handle is never deleted under an owner, and is freed once,
  on its isolate, unless the port of that isolate has closed.
* RustOpaque: the strong count is the number of owners on both sides, and an object
  leaks only with a message that a closed port refused or discarded, that failed to be
  encoded or decoded, or whose future is gone.
* Entry point: an isolate is counted once and has one bridge; posting is on while an
  isolate is up and off after the last one.

## Modules

| Module | Part | Source |
|---|---|---|
| `BaseArc` | abstract: a shared object and its owners | `generalized_arc/base_arc.rs` |
| `AtomicBorrows` | abstract: a function gets all its borrows at once | what `lockable/` is for |
| `RemoteCall` | abstract: one call and its future | Dart `handler.dart` |
| `JobPool` | abstract: a capped FIFO pool of jobs | the doc comments of `worker_pool.rs` |
| `EventStream` | abstract: one order of events and a listener | `stream/`, Dart `stream_sink.dart` |
| `MoiArc`, `MCMoiArc`, `MoiArcProofs` | the map-of-id reference counter; refines `BaseArc` | `generalized_arc/moi_arc.rs` |
| `Lockable`, `MCLockable`, `LockableProofs` | locking of opaque arguments; refines `AtomicBorrows` | `lockable/`, `rust_auto_opaque/inner.rs`, the generator of the decode loop |
| `Handler`, `MCHandler`, `HandlerProofs` | a call from Dart to Rust and back; refines `RemoteCall` | `handler/`, `thread_pool/io.rs`, `rust2dart/`, Dart `handler.dart` and `utils/` |
| `WorkerPool`, `MCWorkerPool`, `WorkerPoolProofs` | the web worker pool; refines `JobPool` | `worker_pool.rs`, `transfer_closure.rs` |
| `StreamSink`, `MCStreamSink`, `StreamSinkProofs` | streams from Rust to Dart; refines `EventStream` | `stream/`, Dart `stream/stream_sink.dart` |
| `DartOpaque` | Dart objects that Rust holds | `dart_opaque/`, the handler port |
| `DartFn`, `MCDartFn`, `DartFnProofs` | calls of Dart closures; extends `DartOpaque`, refines `BaseArc` | `dart_fn/handler.rs`, the generated wrappers, Dart `handler.dart` |
| `RustOpaque`, `MCRustOpaque`, `RustOpaqueProofs` | Rust objects that Dart holds; refines `BaseArc` | `rust_opaque/`, `rust_auto_opaque/`, `generalized_arc/std_arc.rs`, Dart `rust_arc/`, `droppable/`, `misc/rust_opaque.dart` |
| `Entrypoint`, `MCEntrypoint`, `EntrypointProofs` | initialisation and shutdown | Dart `entrypoint.dart`, `port_manager.dart`, the shutdown watcher, `ffi_binding/io.rs` |

A definition whose comment begins with "Faulty variant" (or "variants") is not used by any
specification: it is the mistake that shows that a property can fail.

The five abstract specifications have no locks, threads, ports or queues of messages. Each
says what its component promises to the code that uses it, and the last definitions of the
detailed module (`Abs`, `Implements...`) say which of the detailed state it is about.

### MoiArc

One type `T`, that is one pool. `value[i]` and `ref_count[i]` are the entry of id
`i`; a handle `h` is a `MoiArc` (`"arc"`), a raw id that Dart holds (`"raw"`), or
one of three states of going away. Each acquisition of the pool's lock is one
action. Two things happen outside the lock and are actions of their own:
`DropEntry`, the `drop(object)` after `drop(pool)`, and `DropValue`, the drop of
the `value` field, which Rust does after `Drop::drop` has returned. `fate[o]`
follows `std::sync::Arc`: an object is dropped in the step in which its last `Arc`
goes away. `poison` says whether a panic has poisoned the `RwLock`, and why; each
operation then does what its `unwrap()` makes of it, up to the abort of a panic
within a panic. `MaxId` is `MAX_ID`: the runs take 2 so that ids wrap.

`BaseArc` says the same without counters: a set of owners per object, and its fate.

### Lockable

A call gets a list of borrows (object, mutable), passes or fails the borrow check,
and then takes a guard for each argument in an order that
`sort_unstable_by_key(object_order)` can produce: `DecodeNext` is the set of
indices that may come next, so that equal keys come in any order. An object is
its `LockableOrder`. `tokio::sync::RwLock` is external: a FIFO queue, a request
behind a waiting one waits too, and `Grant` gives a guard to the first in the
queue. `Return` stands for the return and for a panic of the body; guards are
dropped one at a time, in reverse order of declaration. `Inputs` are the argument
lists a call may have; `MCInputs` has both orders of two objects, and an object
named twice, validly and not.

### Handler

`rust[c]` is where the Rust side of call `c` is, `ret[c]` how the user's code
ended, `port[c]`, `mail[c]` and `posted[c]` the Dart port and its messages,
`future[c]` what the caller sees. `RoutedTo[c]` is the executor that the user's
handler chose for the call: `Pool`, which is `SimpleExecutor` with its thread pool of
`Threads` threads and tokio, or one of the `SingleThreadAsyncLane`s in `Lanes`, which is
`ThreadExecutor`. Each lane has a queue and a thread of its own (`Execute`, `Start`); an async task of the
pool goes to tokio at once (`Spawn`).
`Messages(out, el1, el2)` is what the wrapper of a task sends, given
how the body ends and whether `on_error` panics in `handle_result` (`el1`) and in
`handle_non_sync_panic_error` (`el2`). Between the end of a body and its one send
nothing that other actors do matters except whether the port is open at the time of
the send, so `Finish` is one action. `Escapes` is the panic that leaves
`handle_non_sync_panic_error`: the thread pool replaces its thread, tokio catches it
in a spawned future, and the lane's thread dies with its queue and its `LocalSet`
(`LaneDies`); a later call to that lane is lost too (`ExecuteOnDeadLane`). The calls in
`Noisy` have a listener that may panic, those in `Timed` a timeout.
`Exit` closes the ports of an isolate; `Timeout` settles the caller's future only.
A call in `Unencodable` has arguments whose encoding may throw (a disposed object, say).
`executeNormal` has opened its port by then, and the exception leaves the port open with
nothing that could close it before the isolate ends (`EncodeThrows`; `rust[c]` is
`"unmade"`, `future[c]` is `"threw"`). `PendingIsUnderWay` names this port as its exception.
`Awaits` lets an async body wait for the end of another call.

### WorkerPool

The host is a single event loop, so `execute` and the reclaim callback are one
action each, split by the path they take. Workers are numbered as they are
spawned. `Run` is the worker: it posts a message when the closure returns and when
it throws. `Faults` chooses what may fail: the post (`"post"`), the creation of a
worker (`"spawn"`) and the load of the wasm module (`"init"`).

### StreamSink

One Dart `RustStreamSink`. Each call that takes it deserializes a `StreamSink` of its
own with its own closer (`CloserOf`), all on one port; clones share the closer. `add` is
two steps, as other threads run between its start and the post. `DropSink` of the
last clone leaves the closer in `"dropping"`, and `Close` posts `CloseStream`: the
destructor of the closer runs after the drop was decided. `Receive` is one turn of
the `async*` loop: a value is yielded, an error or a close ends it, and a cancelled
listener is noticed at the next message only, which is when the port is closed.

### DartOpaque and DartFn

`owners[o]` is the set of clones of the `Arc` of `o`, `handle[o]` the persistent handle
in its box. The last drop is `NonCloneDrop`: on the isolate of the object it deletes the
handle, elsewhere it leaks the box and posts the address to the handler port, whose
event loop frees it (`OnDrop`). A drop finds itself on the isolate or not by choice
(`Contexts`). `Dispose` and `Exit` close the port and discard its mail.

A call `k` of a closure takes three steps on its thread: `FetchId` (the wrapper clones
the closure; `fetch_add`), `InsertCompleter`, `PostInvoke`. Its message owns the clone
until the isolate has decoded it (`OnInvoke`); `Deliver` is the end of the closure, with a
value or an exception, and `handle_output`, which takes the completer of the id out of
the map. The generated closure encodes its output outside its `try`: when that throws,
Rust is never told, and the call's future pends for ever (`EncodeOutputThrows`, with
`"encode"` in `Faults`). `EveryCallAnswered` and `PendingIsUnderWay` name this exception
beside that of arguments that do not decode (`"decode"`). A future may be dropped at any time. `NumIds` stands for 2^32, so that ids
wrap; `reused` records that an insert has met an id that was still in the map, from
where on a displaced future can panic and an output can reach another call.

### RustOpaque

`strong[o]` is changed where the code changes it: by Rust handles, by the wire
functions and by the functions that Dart calls through its finalizers. A slot is a
Rust handle or the raw number it has become: in a message to Dart (`Encode`) or from it.

A message to Dart goes to the port of a reply, which is open until the reply comes or the
isolate ends (a timeout leaves it open), or to one of `Ports`: the port of a stream, or the
handler port, which takes the arguments of closures. These the isolate may close while it
lives (`ClosePort`: the listener cancels, an error or another sink ends the stream, the
bridge is disposed). A number that is sent to a closed port, or is in a port when it
closes, stays a number: `into_raw` has given up the owner, and `add_raw` and `send_or_warn`
only report it. `DecodeThrows` leaves numbers in a message that Dart fails to decode.

A message from Dart is a call or the output of a closure; its numbers are encoded
and decoded one by one, and each step can fail: `EncodeThrows` (the object was disposed)
leaves the earlier numbers behind, `DecodeOwned` panics for an object with other owners.
A call is decoded inside its wire function (`Send`). An output is handed to a completer
(`DeliverOutput`) and decoded by the future that awaits it (`PollOutput`), or its bytes are
dropped undecoded because the future is gone (`IgnoreOutput`). `Lost` collects these
causes, and `LeakOnlyByFailure` says there is no other.

An `Arc` of the model is a Dart `RustArc`: its pointer, its finalizer token and whether
the program reaches it; `Lose` and `Finalize` are the garbage collector. After `Exit` the VM
runs all attached finalizers.

### Entrypoint

`init` runs to its `await` (`StartInit`), then constructs the API in steps that call Rust:
`StoreDartPostCObject`, `InitShutdownWatcher` (once in an isolate; `fetch_add` of
`ISOLATES_NUM`; then the state is set) and `ExecuteRustInitializers`. The shutdown
callback is a native finalizer on another thread: `ShutdownCallback` decrements, and for
the last isolate `StoreDevnull` turns posting off. `overlapped` records isolates in which
two inits ran at a time or the state was reset, and `raced` that a callback and a
constructor met; the properties say what holds otherwise. `OpenPort`, `Dispose`,
`InitMock` and `ResetState` complete the life of the bridge.

## Runs

| Run | Bounds | What it shows |
|---|---|---|
| `moi_arc` | 4 handles, 3 objects, 2 ids, symmetric | `RefCountIsOwners`, `IdNamesItsObject`, `NoUseAfterFree`, `NoLeak`, `ImplementsBaseArc`. Three objects on two ids force a wrap onto a used id and onto a freed one; four handles give two owners of each of two objects. |
| `moi_arc_race` | 2 handles | violation of `LastOwnerUnwraps` |
| `lockable` | 3 calls, 2 objects, 8 argument lists | `OrderedWaiting`, `NoSelfBlock`, `DeadlockNeedsAliasing`, `ImplementsAtomicBorrows`, `EveryCallRuns`. Two objects are what two calls need to take them in opposite orders, the third call queues as a writer between two reads; longer circles are covered by the proof. `EveryCallRuns` holds up to a deadlock, which needs aliasing. |
| `lockable_aliasing` | 2 calls, 2 objects | violation of `NoDeadlock` |
| `worker_pool` | 1 prewarmed, cap 2, 6 jobs, all faults | `WorkersAccounted`, `JobHasOneOwner`, `WorkConserving`, `ImplementsJobPool` (with it the FIFO order and the cap), `AcceptedJobEnds`. Up to four jobs queue, and each fault can hit a fresh, an idle and a reclaimed worker. |
| `worker_pool_post_fault` | cap 1, 4 jobs | violation of `QueuedFifo` |
| `handler` | 5 calls (2 async, 2 normal, 1 sync), 2 isolates, 2 lanes, pool of 1 thread, all faults | `AtMostOneReply`, `OutcomeFaithful`, `PendingIsUnderWay`, `LaneFaultContained`, `ImplementsRemoteCall`, `EveryCallSettles`. An async and a normal call share a lane and one awaits the other; the pool's normal and sync calls have listeners that panic, its async call a timeout and a quiet listener; the lane's normal call and the sync call may fail to be encoded; the second lane shows that a death does not spread. |
| `handler_lane_dies` | a lane, panics and exits | violation of `LaneOutlivesCallers` |
| `dart_fn` | 1 isolate, 1 closure, 2 handles, 3 calls, 2 ids | `BoxFreedUnlessPortClosed`, `CloneTravelsWithCall`, `AnswerIsOwn`, `ImplementsBaseArc`, `EveryCallAnswered`, `PostedBoxFreed`. Both codec faults may happen. Three calls on two ids give an id out twice, while it is used and after. Isolates share nothing in this module but the map of ids; several are covered by the proof. |
| `stream` | 2 closers, 3 sinks (two are clones), 4 messages | `NothingLostWhileOpen`, `DoneAfterAllValues`, `ImplementsEventStream`, `DroppedSinkEndsStream`. Two closers make one sink's values race the other's close, two clones make an add race a drop. |
| `rust_opaque` | 2 objects, 2 slots, 2 arcs, 1 closing port, 1 message from Dart with up to 2 objects | `CountIsOwners`, `LeakOnlyByFailure`, `ExitReleases`, `ImplementsBaseArc`. Two objects in a message are what a failure in the middle needs; an argument is shared with the other slot or with an arc. A third slot gives more owners of the same kinds (six minutes instead of half a one); the proof covers any number. |
| `entrypoint` | 2 isolates, 3 inits, two of them in one isolate | `CounterIsWatchers`, `PostingEnabledWhileUp`, `QuietAfterShutdown`, `OneBridgePerIsolate`, `PostingEnds` |

Deadlock is not checked: in each of these systems handles, jobs, calls or isolates
simply run out.

### What the violations show

* `moi_arc_race`: `h2` clones `h1`, `h2`'s `Drop::drop` decrements the count and
  releases the lock, `h1` sees `ref_count == 1` and calls
  `Arc::into_inner(..).unwrap()`, which is `None` because `h2`'s `value` still
  exists. The panic poisons the pool of the whole type.
* `lockable_aliasing`: `f(&a, &a)` has one read guard, a writer queues, the second
  read queues behind the writer.
* `worker_pool_post_fault`: the reclaim callback fails to post a queued job, the
  worker goes to the idle stack, and the next `execute` overtakes the queue.
* `handler_lane_dies`: a normal call's isolate exits, its body panics, and
  `.send(message).unwrap()` unwinds the lane's thread; the calls of other isolates
  that wait on the lane are lost.

### Fairness

* `Lockable`: weak fairness of each call's own steps (threads of the pool and tasks
  of the runtime are scheduled, the user's function returns) and of `Grant` (tokio
  wakes the first waiter when it fits).
* `WorkerPool`: weak fairness of each worker and of the callback for each worker's
  message. New jobs are under no fairness.
* `Handler`: weak fairness of taking a job, of finishing a body whose awaited calls
  are over, and of the event loop's handling of a message. No fairness for calls,
  timeouts and exits, so `EveryCallSettles` does not rest on the timeout.
* `DartFn`: weak fairness of the steps of an `invoke` that has begun, of the event
  loop's handling of each message, and of the closure's end (`Deliver`). No fault is
  ever forced.
* `StreamSink`: weak fairness of the event loop (`Receive`) and of a destructor that has
  begun (`Close`). No sink is ever forced to be dropped.
* `RustOpaque`: only of the finalizers after the end of the isolate, which the VM
  guarantees; a collection during its life is never assumed.
* `Entrypoint`: weak fairness of the shutdown callback of an ended isolate and of its
  second step. No isolate is forced to end.

## Proofs

The eight proof modules extend the module that TLC checks, unchanged. The
assumptions are those of the modules: finitely many handles or calls where they are
counted, a positive number of ids, objects named by their orders, and the types of the
parameters. The `Inv` of a module stands with the module, so that it can be
added to a run; TLC has agreed to each invariant before its proof.

There are three kinds of results. Each safety property of a run is a theorem, from an
inductive invariant. Seven refinements say that a detailed module implements its abstract
specification: initial states map to initial states, and each step to a step or to
nothing. And conditional theorems say exactly when a promise holds that is refuted in
general, by a violation run or by the wrap of an id:

| Promise of the code | Condition | Theorem |
|---|---|---|
| wrapped functions do not deadlock | no call borrows an object twice | `AliasFree` |
| lanes outlive every caller | no listener panics, and either no isolate exits or no body panics | `LanesSurvive` |
| the worker queue is FIFO and no worker idles beside it | posting works | `FifoWhilePostsWork` |
| `MoiArc::new` never meets an id in use | at most `MAX_ID` objects are ever created | `MoiArcProofs!IdsSuffice` |
| the last owner's `try_unwrap` succeeds | no other handle is between its `Drop::drop` and the drop of its `Arc` | `UnwrapFailsInDropOnly` |
| an output goes to its own call | at most 2^32 calls of closures (`NumIds`) | `DartFnProofs!IdsSuffice`, `AnswersNeverMix` |

* **`MoiArcProofs`.** `Inv` is inductive: `TypeOK`; `HandleOK` (a handle that is not
  free has an object, and only a handle that is going away has an entry to drop);
  `LiveIffReferenced` (an object is live exactly while some `Arc` of it exists, in the
  pool, in a removed entry or in a handle); `IdNamesItsObject`; `RefCountIsOwners`.
  The count alone is not inductive: that a removal really was the last owner's
  needs that all owners of an id own the same object, and that the object survives
  needs the pool's own `Arc`. The cardinality lemmas say how the owner set of an id
  changes when a handle joins or leaves it. From `Inv`: `RefCountExact`, `IdStable`,
  `Safe`, `Leakless`, and `Refinement`: each step of `MoiArc` is a step of `BaseArc` on
  the owners and fates, or changes neither. `Drop::drop` is a `Release`, the later
  drop of the last `Arc` a `Destroy`, a panic in `try_unwrap` a `Release`. The promise
  ends where the id generator, after `MAX_ID` objects, gives out an id that is still
  in use: `new` overwrites the entry before its assertion fails, and raw ids of the
  old object no longer keep it alive. Until then, and also in a pool poisoned by
  `try_unwrap`, every owner's id leads to its object (`IdNamesItsObject`).
  `MintInv` says that the next id is one more than the objects that were ever born and
  that all ids in the pool are below it; from it `IdsSuffice`, and `RefinementWithoutReuse`,
  the whole of `BaseArc` without the end of the promise. `UnwrapFailsInDropOnly` is about
  the step that poisons the pool: with `OneEntry` (an object has one entry at most, and none
  while its removed entry waits to be dropped) an `Arc` that `try_unwrap` meets can only be
  that of a handle whose `Drop::drop` has returned.
* **`LockableProofs`.** `Inv` is `TypeOK`, `CallsOK` (each argument is still to be
  locked or has its guard; a waiting call waits for a smallest one), `GuardsOK`
  (guards are not younger than what is still to lock, and exclude one another) and
  `QueuesOK` (a queue holds the requests of waiting calls, once each). `LockHierarchy`,
  `ExclusiveBorrows` and `SelfBlockFree` follow. `DeadlockFree`: in a set of waiting
  calls take one that waits for a largest object, and of those the one first in its
  queue. A holder of that object waits for a larger one, as its borrows are distinct,
  so nobody in the set blocks it. This needs only that the calls of the set borrow
  distinct objects, whatever others do (`DeadlockNeedsAliasing`); `AliasFree` is the
  corollary for programs that never alias. `OnlyCirclesStop` is the safety half of
  `EveryCallRuns`: without a circle some call can go on or some lock can hand over a guard,
  for a waiting call that no waiting call blocks is blocked by no guard either.
  `Refinement` to `AtomicBorrows` maps a call to its borrows while it is in its body:
  the guards that it collects one by one count when it has all of them.
* **`HandlerProofs`.** `Inv` is `TypeOK`, `QueueInv` (a queued job is queued once and
  has not been run), `OutcomeFaithful`, `LaneFaultContained` and `CallInv` (before the end nothing is
  sent and nothing is known; after it the one message says how the code ended).
  `QueueInv` is what makes a job run once, and hence the reply unique, when the lane
  dies with a full queue. `OneReply`, `Faithful`, the action property `Final`,
  `Contained` (a lane dies only of a failed normal call of its own, and only the calls
  of dead lanes are lost) and `Answered` (for calls whose own error listener does not
  panic) follow. `Inv` says nothing of a call that nobody remembers. That takes a second
  invariant, `WayInv`: a queued job is in its queue, a lane runs one body at a time, what
  is under way on a lane has its lane up, and a pending call's port is open. The second
  part is needed for the third: a lane dies with the body that it runs, and another body
  that ran on it would be stranded. `UnderWay` (`PendingIsUnderWay`) follows, which is the
  safety half of `EveryCallSettles`; a port without anybody to close it is that of a call
  whose arguments could not be encoded, or whose lane is dead. `LanesSurvive` adds that a port is open as
  long as its isolate is. `Refinement` to `RemoteCall` maps the end of the body to `Run`
  and the event loop's handling of the reply to `Answer`; a reply that comes after a
  timeout or an exit changes nothing the caller sees.
* **`WorkerPoolProofs`.** `Inv` is `TypeOK`, `WorkersAccounted`, `JobHasOneOwner`,
  `WorkersInv` (a worker that is still to be spawned has no job; a message in flight
  means that the job is over) and `JobsInOrder` (jobs are submitted in their order and
  the queue keeps it). `WorkersInv` is what keeps a queued job out of every worker's
  hands: a worker has either not answered, and its job is posted, or its job is over.
  `Inv` holds whatever fails (`Accounted`, `OneOwner`). `Conserving`: until a queued job is
  lost, an `execute` that finds an idle worker or room for one finds the queue empty.
  `Fifo` follows, as the head of the queue is its smallest job, and `FifoWhilePostsWork`, as
  only a failed post in the callback loses a queued job. `Refinement` to `JobPool` maps
  workers to places: the idle stack, spawned or not, is what is left of them.
* **`StreamSinkProofs`.** `Inv` is `TypeOK`, `CloserInv` (a closer lives as long as a sink
  that shares it, posts one close, and nothing of its sinks comes after it), `PortInv` and
  the three properties. `DoneAfterAllValues` is about the message that ended the
  loop, which is at a known place in `accepted` only because nothing was lost before it,
  and `CloserInv` says what stands behind it. `DroppedIsNoticed`: the close of a closer that
  has run is in an open port, the safety half of `DroppedSinkEndsStream`. `Refinement` to
  `EventStream` maps what the port accepted to the one order of events; that a source
  is silent after its close is `CloserInv` again.
* **`DartFnProofs`.** `Inv` is `OpaqueInv` (each message is in its port once; a port holds
  exactly the boxes that are posted; a handle is boxed exactly while it has owners) and
  `FnInv` (a port holds exactly the calls that are in the mail; the clone of a call
  travels with its message; until an id is reused its completer stays in the map from the
  insert to the output). That a message is in its port once is what makes a box freed
  once. `HandleValid`, `BoxFreed`, `CloneTravels`, `OwnAnswer` follow, and `Pending`: a
  pending call's output can still come, unless its arguments did not decode, its output did
  not encode or its port is gone. `Refinement` to `BaseArc` takes the Rust clones and the calls together as the
  owners of a persistent handle, and the deletion of the handle as its `Destroy`, which a
  posted box delays. `IdsInv` (ids are given out in their order, one to a call, and the map
  leads from an id to the call that inserted it) is the invariant behind `IdsSuffice`.
* **`RustOpaqueProofs`.** `Inv` is `TypeOK`, `WireInv` (a raw number is in one message,
  once), `OwnerInv` (an object is live exactly while its count is positive; the pointer
  of a `RustArc` is its finalizer's token) and `CountIsOwners`. `WireInv` is needed
  because a decoded number becomes a Rust handle: a number in two messages would be two
  owners with one count. `CountExact`, `Live`, `NoOtherLeak` (a live object has an owner that
  will release it, or a raw number in a message that is lost for one of the causes above)
  follow, and `Refinement`:
  each step is a step of `BaseArc` on the union of the Rust and Dart owners.
* **`EntrypointProofs`.** `Inv` is `TypeOK`, `LifeInv` (callbacks belong to ended isolates
  with a watcher), `PostInv` (without a race posting is on from a constructor to the last
  callback), `BridgeInv` (without an overlap an isolate is initialised by one init) and
  `CounterIsWatchers`. `Counter`, `Posting`, `Quiet`, `OneBridge` and the action property
  `Disposed` (a disposed bridge stays disposed) follow.

### Only model-checked

The liveness properties, as the prover does not handle fairness: `EveryCallRuns`,
`AcceptedJobEnds`, `EveryCallSettles`, `EveryCallAnswered`, `PostedBoxFreed`,
`DroppedSinkEndsStream`, `ExitReleases` and `PostingEnds`. Of four of them the safety half
is proved: `OnlyCirclesStop`, `UnderWay`, `DroppedIsNoticed` and `Pending` say that what is
waited for is there, and fairness has to say only that it happens.

### Not modelled

* The branches of `ThreadExecutor` that run inline on the Web's main thread: `Handler`
  covers native targets.
* The codecs' byte formats beyond the action they carry, and the byte buffers of SSE:
  sequential code of one owner, without interleaving or failure in the middle.
* `Lifetimeable`: its behaviour is Rust's drop order of fields.
* Two concurrent `into_inner` on the last two owners of a `MoiArc` may both fail, and the
  value is dropped; the trait allows this and no property forbids it.
* `RustOpaque` is modelled over `StdArc`. That `MoiArc` keeps the same promise is
  `ImplementsBaseArc` of `MoiArc`; the two are not composed.
* What the posts of a process do between a shutdown callback and the constructor of a new
  isolate that it meets: `Entrypoint` records the race (`raced`), and the other modules
  post through the real function.
* A sync call that blocks the Dart main thread on an object whose holder awaits a Dart
  closure: this needs `Lockable`, `Handler` and `DartFn` in one state space. It is listed
  as a hazard without a property.
* The code generator, the macros, the platform abstraction and the tools, which have no
  concurrent state.

The map covers a small share of the repository's lines: most of them are generated
bindings of the examples and the code generator.

## Plan

1. A composition of `Lockable`, `Handler` and `DartFn` for the deadlock named above.
2. `RustOpaque` over `MoiArc`, with its pool's lock and its poisoning.
3. The Web branches of `ThreadExecutor`, as one more executor of `Handler`.
4. `RustVecU8` and `WriteBuffer`: growth and hand-over as operators over bounded inputs.
5. Proofs: histories without a `raced` or `overlapped` step (which programs of isolates and
   inits have them), so that the promises of `Entrypoint` get a condition on the program too.
