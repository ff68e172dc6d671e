------------------------------- MODULE Handler -------------------------------
(***************************************************************************)
(* One Dart-to-Rust call from end to end: BaseHandler.executeNormal and    *)
(* executeSync with the single-complete port and the timeout mixin on the  *)
(* Dart side, SimpleHandler.wrap_* and an executor on the Rust side: the   *)
(* SimpleExecutor (a thread pool, and tokio for async bodies), or a        *)
(* ThreadExecutor that routes the call to one of its lanes, each a         *)
(* SingleThreadAsyncLane whose one thread runs both kinds of bodies.       *)
(*                                                                         *)
(* User code can panic anywhere: in decoding the arguments (`prepare`), in *)
(* the body, and in the ErrorListener; and the Dart side can throw while   *)
(* it encodes the arguments.  A Dart isolate can go away with calls        *)
(* outstanding (hot restart); its ports are then closed.                   *)
(***************************************************************************)
EXTENDS Naturals, FiniteSets, Sequences

CONSTANTS
  Calls,
  Isolates,
  IsolateOf,   \* the isolate that makes the call
  Mode,        \* "normal", "async" or "sync"
  Awaits,      \* the calls whose end an async body awaits
  Lanes,       \* the lanes of the ThreadExecutor
  Pool,        \* SimpleExecutor's thread pool
  RoutedTo,    \* the lane of the call's TaskInfo.thread, or the pool
  Threads,     \* the size of the pool
  Timed,       \* the calls of a handler with a timeLimitForExecuteNormal
  Noisy,       \* the calls in which the ErrorListener may panic
  Unencodable, \* the calls whose arguments may fail to be encoded
  Faults       \* subset of {"prepare", "body", "exit"}

ASSUME HandlerAssumption ==
  /\ IsFiniteSet(Calls)
  /\ IsolateOf \in [Calls -> Isolates]
  /\ Mode \in [Calls -> {"normal", "async", "sync"}]
  /\ Awaits \in [Calls -> SUBSET Calls]
  /\ \A c \in Calls : Mode[c] # "async" => Awaits[c] = {}
  /\ Pool \notin Lanes
  /\ RoutedTo \in [Calls -> Lanes \cup {Pool}]
  /\ Noisy \subseteq Calls
  /\ Timed \subseteq Calls
  /\ Threads \in Nat \ {0}
  /\ Unencodable \subseteq Calls
  /\ Faults \subseteq {"prepare", "body", "exit"}

VARIABLES
  alive,    \* the isolates that run
  lane_up,  \* the lanes whose thread runs
  queue,    \* queue[e]: the jobs in the channel of a lane or of the pool
  rust,     \* rust[c]: where the Rust side of c is
  ret,      \* ret[c]: how the user's code ended
  port,     \* port[c]: the single-complete port
  mail,     \* mail[c]: posted to the port and not yet handled
  posted,   \* posted[c]: how many messages of c Dart accepted
  future    \* future[c]: what the caller sees

vars == <<alive, lane_up, queue, rust, ret, port, mail, posted, future>>

\* Rust2DartAction, without CloseStream.
Actions == {"Success", "Error", "Panic"}
Executors == Lanes \cup {Pool}
Places == {"idle", "unmade", "queued", "running", "spawned", "ended", "lost"}
Settled == {"value", "error", "panic", "garbled", "timeout", "gone", "threw"}

TypeOK ==
  /\ alive \subseteq Isolates
  /\ lane_up \subseteq Lanes
  /\ queue \in [Executors -> Seq(Calls)]
  /\ rust \in [Calls -> Places]
  /\ ret \in [Calls -> {"none", "ok", "err", "panic"}]
  /\ port \in [Calls -> {"none", "open", "closed"}]
  /\ mail \in [Calls -> Seq(Actions)]
  /\ posted \in [Calls -> Nat]
  /\ future \in [Calls -> {"none", "pending"} \cup Settled]

Init ==
  /\ alive = Isolates
  /\ lane_up = Lanes
  /\ queue = [e \in Executors |-> <<>>]
  /\ rust = [c \in Calls |-> "idle"]
  /\ ret = [c \in Calls |-> "none"]
  /\ port = [c \in Calls |-> "none"]
  /\ mail = [c \in Calls |-> <<>>]
  /\ posted = [c \in Calls |-> 0]
  /\ future = [c \in Calls |-> "none"]

-----------------------------------------------------------------------------
(* What a wrapped task makes of the way the user's code ends               *)

Returns == {"ok", "err"} \cup (IF "body" \in Faults THEN {"panic"} ELSE {})
Listener(c) == IF c \in Noisy THEN BOOLEAN ELSE {FALSE}

\* The task unwinds into its catch_unwind: the body panicked, or on_error did
\* in handle_result, before anything was sent (el1).
Unwinds(out, el1) == out = "panic" \/ (out = "err" /\ el1)

\* Faulty variant: handle_result sends the error and calls on_error after it.
MessagesSendFirst(out, el1, el2) ==
  (IF out = "ok" THEN <<"Success">> ELSE IF out = "err" THEN <<"Error">> ELSE <<>>)
    \o (IF Unwinds(out, el1) /\ ~el2 THEN <<"Panic">> ELSE <<>>)
\* Faulty variant: the panic is caught and nothing is sent for it.
MessagesSilentPanic(out, el1, el2) ==
  IF Unwinds(out, el1) THEN <<>> ELSE IF out = "ok" THEN <<"Success">> ELSE <<"Error">>
\* Faulty variant: handle_result encodes an error as a success.
MessagesMixedUp(out, el1, el2) ==
  IF Unwinds(out, el1) THEN IF el2 THEN <<>> ELSE <<"Panic">> ELSE <<"Success">>

\* handle_result sends the result; handle_non_sync_panic_error calls on_error
\* (el2) and then sends the panic.
Messages(out, el1, el2) ==
  IF Unwinds(out, el1)
    THEN IF el2 THEN <<>> ELSE <<"Panic">>
    ELSE IF out = "ok" THEN <<"Success">> ELSE <<"Error">>

\* Rust2DartSender.send: Dart_PostCObject refuses a port that is closed.
Accepts(p) == p = "open"

\* handle_non_sync_panic_error panics itself: on_error did, or the `unwrap` of
\* a failed send.
Escapes(out, el1, el2, p) == Unwinds(out, el1) /\ (el2 \/ ~Accepts(p))

Send(c, ms, p) ==
  /\ mail' = [mail EXCEPT ![c] = IF Accepts(p) THEN @ \o ms ELSE @]
  /\ posted' = [posted EXCEPT ![c] = IF Accepts(p) THEN @ + Len(ms) ELSE @]

-----------------------------------------------------------------------------
(* Dart calls Rust                                                         *)

CanCall(c) == rust[c] = "idle" /\ IsolateOf[c] \in alive

\* executeNormal creates the completer and its port ...
Expect(c) ==
  /\ port' = [port EXCEPT ![c] = "open"]
  /\ future' = [future EXCEPT ![c] = "pending"]

\* ... and task.callFfi encodes the arguments.  When that throws, the exception
\* leaves executeNormal with the port open and no reference to it left; nothing
\* reaches Rust.  executeSync has no port, and throws it or a PanicException.
EncodeThrows(c) ==
  /\ CanCall(c) /\ c \in Unencodable
  /\ rust' = [rust EXCEPT ![c] = "unmade"]
  /\ port' = [port EXCEPT ![c] = IF Mode[c] = "sync" THEN @ ELSE "open"]
  /\ future' = [future EXCEPT ![c] = "threw"]
  /\ UNCHANGED <<alive, lane_up, queue, ret, mail, posted>>

OnLane(c) == RoutedTo[c] \in Lanes

\* Otherwise wrap_normal_or_async hands the task over: SimpleExecutor spawns an
\* async task on tokio at once ...
Spawn(c) ==
  /\ CanCall(c) /\ Mode[c] = "async" /\ ~OnLane(c)
  /\ Expect(c)
  /\ rust' = [rust EXCEPT ![c] = "spawned"]
  /\ UNCHANGED <<alive, lane_up, queue, ret, mail, posted>>

\* ... everything else queues up for the thread pool or the lane ...
Execute(c) ==
  /\ CanCall(c) /\ (Mode[c] = "normal" \/ (Mode[c] = "async" /\ OnLane(c)))
  /\ OnLane(c) => RoutedTo[c] \in lane_up
  /\ Expect(c)
  /\ rust' = [rust EXCEPT ![c] = "queued"]
  /\ queue' = [queue EXCEPT ![RoutedTo[c]] = Append(@, c)]
  /\ UNCHANGED <<alive, lane_up, ret, mail, posted>>

\* ... except that SingleThreadAsyncLane.execute drops the job, and ignores the
\* error of the send, when the lane's thread is gone.
ExecuteOnDeadLane(c) ==
  /\ CanCall(c) /\ Mode[c] # "sync"
  /\ OnLane(c) /\ RoutedTo[c] \notin lane_up
  /\ Expect(c)
  /\ rust' = [rust EXCEPT ![c] = "lost"]
  /\ UNCHANGED <<alive, lane_up, queue, ret, mail, posted>>

\* `prepare` panics on the caller's thread; whatever comes after it is caught
\* by the outermost catch_unwind.
PreparePanics(c) ==
  /\ CanCall(c) /\ Mode[c] # "sync" /\ "prepare" \in Faults
  /\ Expect(c)
  /\ rust' = [rust EXCEPT ![c] = "ended"]
  /\ ret' = [ret EXCEPT ![c] = "panic"]
  /\ \E el2 \in Listener(c) : Send(c, Messages("panic", FALSE, el2), "open")
  /\ UNCHANGED <<alive, lane_up, queue>>

\* What the Dart codec makes of a message.
Decode(m) == CASE m = "Success" -> "value" [] m = "Error" -> "error" [] OTHER -> "panic"

\* wrap_sync and executeSync.  When the listener panics as well, the message is
\* `simplest()`, which the Dart codec cannot decode.
ExecuteSync(c) ==
  /\ CanCall(c) /\ Mode[c] = "sync"
  /\ rust' = [rust EXCEPT ![c] = "ended"]
  /\ \E out \in Returns, el1, el2 \in Listener(c) :
       /\ ret' = [ret EXCEPT ![c] = out]
       /\ LET ms == Messages(out, el1, el2)
          IN future' = [future EXCEPT ![c] = IF ms = <<>> THEN "garbled" ELSE Decode(Head(ms))]
  /\ UNCHANGED <<alive, lane_up, queue, port, mail, posted>>

-----------------------------------------------------------------------------
(* The executor                                                            *)

Running(e) == {c \in Calls : rust[c] = "running" /\ RoutedTo[c] = e}
FreeWorker(e) ==
  IF e \in Lanes THEN e \in lane_up /\ Running(e) = {} ELSE Cardinality(Running(e)) < Threads

\* A worker takes the next job of its executor.
Take(c) ==
  LET e == RoutedTo[c]
  IN /\ queue[e] # <<>> /\ c = Head(queue[e]) /\ FreeWorker(e)
     /\ queue' = [queue EXCEPT ![e] = Tail(@)]

\* Faulty variant: the lane's worker runs an async body to its end (block_on).
StartBlocking(c) ==
  /\ Take(c)
  /\ rust' = [rust EXCEPT ![c] = "running"]
  /\ UNCHANGED <<alive, lane_up, ret, port, mail, posted, future>>

\* On a lane the job of an async call is over as soon as spawn_local has put its
\* future into the LocalSet.
Start(c) ==
  /\ Take(c)
  /\ rust' = [rust EXCEPT ![c] = IF Mode[c] = "async" THEN "spawned" ELSE "running"]
  /\ UNCHANGED <<alive, lane_up, ret, port, mail, posted, future>>

Over(c) == rust[c] \in {"ended", "lost"}

\* A normal body ends on its worker, an async one when what it awaits is over
\* and, on a lane, the thread is free to poll it.
CanFinish(c) ==
  /\ rust[c] \in {"running", "spawned"}
  /\ \A d \in Awaits[c] : Over(d)
  /\ rust[c] = "spawned" /\ OnLane(c) => Running(RoutedTo[c]) = {}

\* Faulty variant: the panic takes down every lane of the router.
LaneDiesWithOthers(c) ==
  /\ lane_up' = {}
  /\ queue' = [e \in Executors |-> IF e \in Lanes THEN <<>> ELSE queue[e]]
  /\ rust' = [d \in Calls |->
       IF d = c THEN "ended"
       ELSE IF OnLane(d) /\ rust[d] \in {"queued", "spawned"} THEN "lost" ELSE rust[d]]

\* The thread of c's lane unwinds: the channel, the jobs in it and the futures
\* of the LocalSet are dropped.
LaneDies(c) ==
  /\ lane_up' = lane_up \ {RoutedTo[c]}
  /\ queue' = [queue EXCEPT ![RoutedTo[c]] = <<>>]
  /\ rust' = [d \in Calls |->
       IF d = c THEN "ended"
       ELSE IF RoutedTo[d] = RoutedTo[c] /\ rust[d] \in {"queued", "spawned"} THEN "lost"
       ELSE rust[d]]

\* The task's wrapper in execute_normal and execute_async: run the body, then
\* reply.  A panic that escapes the wrapper of a normal call ends the worker:
\* the thread pool replaces it, while a lane dies.  In an async call the runtime
\* catches it.
Finish(c) ==
  /\ CanFinish(c)
  /\ \E out \in Returns, el1, el2 \in Listener(c) :
       /\ ret' = [ret EXCEPT ![c] = out]
       /\ Send(c, Messages(out, el1, el2), port[c])
       /\ IF OnLane(c) /\ rust[c] = "running" /\ Escapes(out, el1, el2, port[c])
            THEN LaneDies(c)
            ELSE /\ rust' = [rust EXCEPT ![c] = "ended"]
                 /\ UNCHANGED <<lane_up, queue>>
  /\ UNCHANGED <<alive, port, future>>

-----------------------------------------------------------------------------
(* The event loop of the isolate                                           *)

\* Faulty variant: the message of a call that has timed out settles it again.
SettleAgain(c, m) == future' = [future EXCEPT ![c] = Decode(m)]
\* The future behind the timeout completes; what the caller holds stays as it is.
Settle(c, m) ==
  future' = [future EXCEPT ![c] = IF future[c] = "pending" THEN Decode(m) ELSE @]

\* The handler of the single-complete port: close the port, settle the future.
Receive(c) ==
  /\ port[c] = "open" /\ mail[c] # <<>>
  /\ port' = [port EXCEPT ![c] = "closed"]
  /\ mail' = [mail EXCEPT ![c] = <<>>]
  /\ Settle(c, Head(mail[c]))
  /\ UNCHANGED <<alive, lane_up, queue, rust, ret, posted>>

\* TimeoutHandlerMixin: the caller gives up; nobody tells Rust, the port stays.
Timeout(c) ==
  /\ c \in Timed /\ future[c] = "pending"
  /\ future' = [future EXCEPT ![c] = "timeout"]
  /\ UNCHANGED <<alive, lane_up, queue, rust, ret, port, mail, posted>>

\* The isolate shuts down; the Rust side goes on.
Exit(i) ==
  /\ "exit" \in Faults /\ i \in alive
  /\ alive' = alive \ {i}
  /\ port' = [c \in Calls |-> IF IsolateOf[c] = i /\ port[c] = "open" THEN "closed" ELSE port[c]]
  /\ mail' = [c \in Calls |-> IF IsolateOf[c] = i THEN <<>> ELSE mail[c]]
  /\ future' = [c \in Calls |->
       IF IsolateOf[c] = i /\ future[c] = "pending" THEN "gone" ELSE future[c]]
  /\ UNCHANGED <<lane_up, queue, rust, ret, posted>>

Next ==
  \/ \E c \in Calls :
       \/ EncodeThrows(c)
       \/ Spawn(c) \/ Execute(c) \/ ExecuteOnDeadLane(c) \/ PreparePanics(c) \/ ExecuteSync(c)
       \/ Start(c) \/ Finish(c)
       \/ Receive(c) \/ Timeout(c)
  \/ \E i \in Isolates : Exit(i)

\* Workers take jobs, bodies return, and the isolate's event loop turns.
Fairness == \A c \in Calls : WF_vars(Start(c)) /\ WF_vars(Finish(c)) /\ WF_vars(Receive(c))

Spec == Init /\ [][Next]_vars
FairSpec == Spec /\ Fairness

-----------------------------------------------------------------------------
(* Properties                                                              *)

\* However the body, the listener and the sends fail, Rust sends at most one
\* message for a call: the panic path never follows a result that went out.
AtMostOneReply == \A c \in Calls : posted[c] <= 1

\* The caller is told what happened: a value only for a body that returned Ok,
\* an error only for one that returned Err, and a panic message for a panic or
\* for an Err whose listener panicked.  In particular no timed-out or garbled
\* call passes for one of these, and only a sync call whose listener panicked
\* can be garbled.
OutcomeFaithful ==
  \A c \in Calls :
    /\ future[c] = "value" => ret[c] = "ok"
    /\ future[c] = "error" => ret[c] = "err"
    /\ future[c] = "panic" => ret[c] = "panic" \/ (ret[c] = "err" /\ c \in Noisy)
    /\ future[c] = "garbled" => Mode[c] = "sync" /\ ret[c] # "ok" /\ c \in Noisy

\* A call that timed out stays so, and no future is settled twice, although the
\* late reply still arrives and closes the port.
SettledOnce == [][\A c \in Calls : future[c] \in Settled => future'[c] = future[c]]_vars

\* When the Rust side of a call is over and its port is still open, the reply
\* that will close the port is on its way: no caller is left hanging and no
\* port leaks, timeouts and dead lanes included.  The one exception is a call
\* whose listener panicked while its panic was reported.  (A call whose arguments
\* could not be encoded has no Rust side, and leaks its port.)
EndedIsAnswered ==
  \A c \in Calls \ Noisy : rust[c] = "ended" /\ port[c] = "open" => mail[c] # <<>>

\* A lane dies only of a normal call of its own that failed after its isolate
\* was gone or with a panicking listener, and only the calls of a dead lane are
\* lost: no failure reaches the other lanes or the pool.
LaneFaultContained ==
  /\ \A l \in Lanes \ lane_up : \E c \in Calls :
       /\ RoutedTo[c] = l /\ Mode[c] = "normal" /\ rust[c] = "ended" /\ ret[c] # "ok"
       /\ c \in Noisy \/ IsolateOf[c] \notin alive
  /\ \A c \in Calls : rust[c] = "lost" => RoutedTo[c] \in Lanes \ lane_up

\* A call whose awaited calls have reached Rust is settled in the end, unless its
\* lane is dead or its listener panics.
EveryCallSettles ==
  \A c \in Calls \ Noisy :
    (future[c] = "pending" /\ \A d \in Awaits[c] : rust[d] \notin {"idle", "unmade"})
      ~> (future[c] \in Settled \/ (OnLane(c) /\ RoutedTo[c] \notin lane_up))

\* thread_pool/io.rs: "Process-global lanes outlive every caller".
LaneOutlivesCallers == lane_up = Lanes

\* While a caller waits or a port is open, and the listener keeps quiet, somebody
\* is yet to act: the job is in the queue of an executor that is up, or runs
\* there, or the reply is in the open port.  There are two exceptions: a dead lane
\* loses its calls, and the port of a call whose arguments could not be encoded
\* stays open with nobody to close it, although nobody waits for it either.
PendingIsUnderWay ==
  \A c \in Calls \ Noisy : future[c] = "pending" \/ port[c] = "open" =>
    \/ /\ rust[c] = "queued" /\ (OnLane(c) => RoutedTo[c] \in lane_up)
       /\ \E k \in DOMAIN queue[RoutedTo[c]] : queue[RoutedTo[c]][k] = c
    \/ rust[c] \in {"running", "spawned"} /\ (OnLane(c) => RoutedTo[c] \in lane_up)
    \/ rust[c] = "ended" /\ port[c] = "open" /\ mail[c] # <<>>
    \/ rust[c] = "lost" /\ RoutedTo[c] \in Lanes \ lane_up
    \/ rust[c] = "unmade" /\ future[c] = "threw" /\ mail[c] = <<>>

\* The caller's view: a function that runs at most once, and a future that is
\* settled at most once, with what the function did.
Abs == INSTANCE RemoteCall WITH Sync <- {c \in Calls : Mode[c] = "sync"}, result <- ret
ImplementsRemoteCall == Abs!Spec

-----------------------------------------------------------------------------
(* The inductive invariant                                                 *)

\* A job is in the queue of its executor once, and then nobody has run it.
QueueInv ==
  \A e \in Executors :
    /\ \A k \in DOMAIN queue[e] : rust[queue[e][k]] = "queued" /\ RoutedTo[queue[e][k]] = e
    /\ \A k, l \in DOMAIN queue[e] : queue[e][k] = queue[e][l] => k = l

Says(c, m, r) ==
  \/ m = "Success" /\ r = "ok"
  \/ m = "Error" /\ r = "err"
  \/ m = "Panic" /\ (r = "panic" \/ (r = "err" /\ c \in Noisy))

\* Before the task has ended, nothing has been sent and nothing is known of its
\* result; after it, the one message says how the user's code ended.
CallInv(c) ==
  /\ rust[c] = "idle" => future[c] = "none" /\ port[c] = "none"
  /\ rust[c] # "ended" => /\ ret[c] = "none"
                          /\ mail[c] = <<>>
                          /\ posted[c] = 0
                          /\ future[c] \notin {"value", "error", "panic", "garbled"}
  /\ posted[c] <= 1
  /\ mail[c] = <<>> \/ \E m \in Actions : mail[c] = <<m>> /\ Says(c, m, ret[c])
  /\ Mode[c] = "sync" => port[c] = "none"
  /\ rust[c] \in {"queued", "running", "spawned"} => port[c] # "none"
  /\ rust[c] # "ended" /\ port[c] = "closed" => IsolateOf[c] \notin alive
  /\ rust[c] = "running" => Mode[c] = "normal"
  /\ rust[c] = "unmade" <=> future[c] = "threw"

\* Nothing of a call is sent before its end, and then at most the one message
\* that tells how its code ended, whoever dies meanwhile.
Inv == TypeOK /\ QueueInv /\ OutcomeFaithful /\ LaneFaultContained /\ \A c \in Calls : CallInv(c)

\* No call is forgotten: a queued job is in its queue, the lane of a call that is
\* under way is up, and the port of a pending call is open.
Way(c) ==
  /\ future[c] = "none" => rust[c] = "idle"
  /\ future[c] = "pending" => port[c] = "open"
  /\ rust[c] = "queued" => \E k \in DOMAIN queue[RoutedTo[c]] : queue[RoutedTo[c]][k] = c
  /\ rust[c] \in {"queued", "running", "spawned"} /\ OnLane(c) => RoutedTo[c] \in lane_up

\* The one thread of a lane runs one body at a time.
LaneRunsOne ==
  \A c, d \in Calls :
    rust[c] = "running" /\ rust[d] = "running" /\ OnLane(c) /\ RoutedTo[d] = RoutedTo[c] => c = d

WayInv == LaneRunsOne /\ \A c \in Calls : Way(c)
=============================================================================
