----------------------------- MODULE Entrypoint ------------------------------
(***************************************************************************)
(* The life of the bridge in one process: BaseEntrypoint of every isolate  *)
(* (frb_dart/lib/src/main_components/entrypoint.dart), its handler port,   *)
(* the shutdown watcher (generalized_frb_rust_binding/_io.dart) and the    *)
(* isolate counter behind it (frb_rust/src/ffi_binding/io.rs), which turns *)
(* posting off when the last isolate goes.                                 *)
(*                                                                         *)
(* Within an isolate the Dart code runs up to its next `await`; isolates   *)
(* and shutdown callbacks run at the same time on several threads, so the  *)
(* calls into Rust that a constructor makes are steps of their own.        *)
(***************************************************************************)
EXTENDS Naturals, FiniteSets

NoState == "null"
Mock == "mock"

CONSTANTS Isolates,
          Inits,        \* calls of init
          IsolateOf     \* IsolateOf[n]: where n is called

ASSUME EntrypointAssumption ==
  /\ IsFiniteSet(Isolates)
  /\ IsolateOf \in [Inits -> Isolates]
  /\ NoState \notin Inits /\ Mock \notin Inits

VARIABLES
  alive,          \* the isolates that have not ended
  pc,             \* pc[n]: how far init has come
  state,          \* state[i]: BaseEntrypoint.__state, the init that set it
  port,           \* port[n]: the lazy handler port of its PortManager
  watched,        \* the isolates with a _shutdownWatcher
  callback,       \* callback[i]: frb_shutdown_callback of the isolate
  isolates_num,   \* ISOLATES_NUM
  post,           \* what store_dart_post_cobject was given last
  overlapped,     \* isolates with two inits at a time, or a reset
  raced           \* a shutdown callback met a constructor

vars == <<alive, pc, state, port, watched, callback, isolates_num, post, overlapped, raced>>

TypeOK ==
  /\ alive \subseteq Isolates
  /\ pc \in [Inits -> {"new", "loading", "constructing", "up", "done", "threw"}]
  /\ state \in [Isolates -> Inits \cup {NoState, Mock}]
  /\ port \in [Inits -> {"unused", "open", "closed"}]
  /\ watched \subseteq Isolates
  /\ callback \in [Isolates -> {"none", "last", "over"}]
  /\ isolates_num \in Nat
  /\ post \in {"none", "real", "devnull"}
  /\ overlapped \subseteq Isolates
  /\ raced \in BOOLEAN

Init ==
  /\ alive = Isolates
  /\ pc = [n \in Inits |-> "new"]
  /\ state = [i \in Isolates |-> NoState]
  /\ port = [n \in Inits |-> "unused"]
  /\ watched = {}
  /\ callback = [i \in Isolates |-> "none"]
  /\ isolates_num = 0
  /\ post = "none"
  /\ overlapped = {}
  /\ raced = FALSE

-----------------------------------------------------------------------------
(* An isolate                                                              *)

InitsOf(i) == {n \in Inits : IsolateOf[n] = i}

\* Between the calls of a constructor no other Dart code of the isolate runs.
CanRun(i) == i \in alive /\ \A n \in InitsOf(i) : pc[n] # "constructing"

InProgress(n) == pc[n] \in {"loading", "constructing"}

\* Faulty variant: the check is left out.
StartInitUnchecked(n) ==
  LET i == IsolateOf[n] IN
  /\ CanRun(i) /\ pc[n] = "new"
  /\ pc' = [pc EXCEPT ![n] = "loading"]
  /\ overlapped' = IF \E m \in InitsOf(i) : InProgress(m) THEN overlapped \cup {i} ELSE overlapped
  /\ UNCHANGED <<alive, state, port, watched, callback, isolates_num, post, raced>>

\* initImpl up to the await of the library.
StartInit(n) ==
  LET i == IsolateOf[n] IN
  /\ CanRun(i) /\ pc[n] = "new"
  /\ pc' = [pc EXCEPT ![n] = IF state[i] = NoState THEN "loading" ELSE "threw"]
  /\ overlapped' = IF \E m \in InitsOf(i) : InProgress(m) THEN overlapped \cup {i} ELSE overlapped
  /\ UNCHANGED <<alive, state, port, watched, callback, isolates_num, post, raced>>

\* The library is not found, its content hash is wrong or it has no symbols.
InitThrows(n) ==
  /\ CanRun(IsolateOf[n]) /\ pc[n] = "loading"
  /\ pc' = [pc EXCEPT ![n] = "threw"]
  /\ UNCHANGED <<alive, state, port, watched, callback, isolates_num, post, overlapped, raced>>

\* The constructor of _EntrypointState: storeDartPostCObject ...
StoreDartPostCObject(n) ==
  /\ CanRun(IsolateOf[n]) /\ pc[n] = "loading"
  /\ pc' = [pc EXCEPT ![n] = "constructing"]
  /\ post' = "real"
  /\ raced' = (raced \/ \E i \in Isolates : callback[i] = "last")
  /\ UNCHANGED <<alive, state, port, watched, callback, isolates_num, overlapped>>

\* Faulty variant: a new watcher for each init.
InitShutdownWatcherAgain(n) ==
  LET i == IsolateOf[n] IN
  /\ i \in alive /\ pc[n] = "constructing"
  /\ pc' = [pc EXCEPT ![n] = "up"]
  /\ watched' = watched \cup {i}
  /\ isolates_num' = isolates_num + 1
  /\ state' = [state EXCEPT ![i] = n]
  /\ UNCHANGED <<alive, port, callback, post, overlapped, raced>>

\* ... and initShutdownWatcher with frb_create_shutdown_callback, once in an
\* isolate; then __state is set.
InitShutdownWatcher(n) ==
  LET i == IsolateOf[n] IN
  /\ i \in alive /\ pc[n] = "constructing"
  /\ pc' = [pc EXCEPT ![n] = "up"]
  /\ watched' = watched \cup {i}
  /\ isolates_num' = IF i \in watched THEN isolates_num ELSE isolates_num + 1
  /\ state' = [state EXCEPT ![i] = n]
  /\ UNCHANGED <<alive, port, callback, post, overlapped, raced>>

\* executeRustInitializers; when they throw the state stays.
ExecuteRustInitializers(n) ==
  /\ CanRun(IsolateOf[n]) /\ pc[n] = "up"
  /\ \E end \in {"done", "threw"} : pc' = [pc EXCEPT ![n] = end]
  /\ UNCHANGED <<alive, state, port, watched, callback, isolates_num, post, overlapped, raced>>

\* initMockImpl
InitMock(i) ==
  /\ CanRun(i) /\ state[i] = NoState
  /\ state' = [state EXCEPT ![i] = Mock]
  /\ overlapped' = IF \E m \in InitsOf(i) : InProgress(m) THEN overlapped \cup {i} ELSE overlapped
  /\ UNCHANGED <<alive, pc, port, watched, callback, isolates_num, post, raced>>

\* The api reads dartHandlerPort for the first time.
OpenPort(n) ==
  /\ CanRun(IsolateOf[n]) /\ state[IsolateOf[n]] = n /\ port[n] = "unused"
  /\ port' = [port EXCEPT ![n] = "open"]
  /\ UNCHANGED <<alive, pc, state, watched, callback, isolates_num, post, overlapped, raced>>

\* disposeImpl: reading the lazy port makes it, and it is closed; the state
\* stays.
Dispose(i) ==
  /\ CanRun(i) /\ state[i] \in Inits
  /\ port' = [port EXCEPT ![state[i]] = "closed"]
  /\ UNCHANGED <<alive, pc, state, watched, callback, isolates_num, post, overlapped, raced>>

\* resetState, for tests.
ResetState(i) ==
  /\ CanRun(i)
  /\ state' = [state EXCEPT ![i] = NoState]
  /\ overlapped' = overlapped \cup {i}
  /\ UNCHANGED <<alive, pc, port, watched, callback, isolates_num, post, raced>>

\* The isolate ends; its ports close.
Exit(i) ==
  /\ i \in alive
  /\ alive' = alive \ {i}
  /\ pc' = [n \in Inits |-> IF IsolateOf[n] = i /\ InProgress(n) THEN "threw" ELSE pc[n]]
  /\ port' = [n \in Inits |-> IF IsolateOf[n] = i THEN "closed" ELSE port[n]]
  /\ raced' = (raced \/ ~CanRun(i))
  /\ UNCHANGED <<state, watched, callback, isolates_num, post, overlapped>>

-----------------------------------------------------------------------------
(* The shutdown callback, a native finalizer                               *)

\* Faulty variant: the test is off by one.
ShutdownCallbackEarly(i) ==
  /\ i \in watched \ alive /\ callback[i] = "none"
  /\ isolates_num' = isolates_num - 1
  /\ callback' = [callback EXCEPT ![i] = IF isolates_num <= 2 THEN "last" ELSE "over"]
  /\ raced' = (raced \/ \E n \in Inits : pc[n] = "constructing")
  /\ UNCHANGED <<alive, pc, state, port, watched, post, overlapped>>

\* Faulty variant: never the last one.
ShutdownCallbackNever(i) ==
  /\ i \in watched \ alive /\ callback[i] = "none"
  /\ isolates_num' = isolates_num - 1
  /\ callback' = [callback EXCEPT ![i] = IF isolates_num = 0 THEN "last" ELSE "over"]
  /\ raced' = (raced \/ \E n \in Inits : pc[n] = "constructing")
  /\ UNCHANGED <<alive, pc, state, port, watched, post, overlapped>>

\* fetch_sub, and the test whether this was the last callback ...
ShutdownCallback(i) ==
  /\ i \in watched \ alive /\ callback[i] = "none"
  /\ isolates_num' = isolates_num - 1
  /\ callback' = [callback EXCEPT ![i] = IF isolates_num = 1 THEN "last" ELSE "over"]
  /\ raced' = (raced \/ \E n \in Inits : pc[n] = "constructing")
  /\ UNCHANGED <<alive, pc, state, port, watched, post, overlapped>>

\* ... which turns posting off.
StoreDevnull(i) ==
  /\ callback[i] = "last"
  /\ callback' = [callback EXCEPT ![i] = "over"]
  /\ post' = "devnull"
  /\ UNCHANGED <<alive, pc, state, port, watched, isolates_num, overlapped, raced>>

Next ==
  \/ \E n \in Inits :
       \/ StartInit(n) \/ InitThrows(n) \/ StoreDartPostCObject(n) \/ InitShutdownWatcher(n)
       \/ ExecuteRustInitializers(n) \/ OpenPort(n)
  \/ \E i \in Isolates :
       \/ InitMock(i) \/ Dispose(i) \/ ResetState(i) \/ Exit(i)
       \/ ShutdownCallback(i) \/ StoreDevnull(i)

\* The VM runs the native finalizers of an isolate that has ended.
Fairness == \A i \in Isolates : WF_vars(ShutdownCallback(i)) /\ WF_vars(StoreDevnull(i))

Spec == Init /\ [][Next]_vars
FairSpec == Spec /\ Fairness

-----------------------------------------------------------------------------
(* Properties                                                              *)

Up(i) == i \in alive /\ state[i] \in Inits

\* The isolates that are counted: their callback has not run.
Counted == {i \in watched : callback[i] = "none"}

\* ISOLATES_NUM is the number of callbacks still to come: an isolate is counted
\* once, however often it is initialised, and the counter never wraps.
CounterIsWatchers == isolates_num = Cardinality(Counted)

\* While some isolate has the bridge, Rust can post to it, unless a shutdown
\* callback met a constructor: then the callback may turn posting off for the
\* isolate that comes up.
PostingEnabledWhileUp == ~raced => ((\E i \in Isolates : Up(i)) => post = "real")

\* When every isolate that ever came up has ended and its callback has run,
\* nothing is posted into the VM any more.
QuietAfterShutdown ==
  ~raced /\ (\A n \in Inits : pc[n] # "constructing") /\ (\A i \in watched : callback[i] = "over")
    => post # "real"

\* Unless two inits overlap in their `await`, an isolate has one bridge: the
\* others throw, and its open handler port is the one that dispose closes.
OneBridgePerIsolate ==
  \A n, m \in Inits : IsolateOf[n] = IsolateOf[m] /\ IsolateOf[n] \notin overlapped =>
    /\ pc[n] \in {"up", "done"} /\ pc[m] \in {"up", "done"} => n = m
    /\ port[n] = "open" => state[IsolateOf[n]] = n

\* A bridge that was disposed stays disposed: init does not bring it back and no
\* handler port is opened behind it.
DisposedForGood ==
  [][\A i \in Isolates \ overlapped' :
       state[i] \in Inits /\ port[state[i]] = "closed"
         => state'[i] = state[i] /\ port'[state[i]] = "closed"]_vars

\* After the end of all isolates posting is turned off in the end.
PostingEnds == alive = {} ~> post # "real" \/ raced

-----------------------------------------------------------------------------
(* The inductive invariant                                                 *)

Constructing == \E n \in Inits : pc[n] = "constructing"

\* Who is where in its life.
LifeInv ==
  /\ \A i \in Isolates : callback[i] # "none" => i \in watched \ alive
  /\ \A i \in Isolates : state[i] \in Inits => IsolateOf[state[i]] = i /\ i \in watched
  /\ \A n \in Inits : InProgress(n) => IsolateOf[n] \in alive

\* Without a race, posting is on from a constructor to the last callback.
PostInv ==
  ~raced =>
    /\ (\E i \in Isolates : callback[i] = "last") => Counted = {} /\ ~Constructing
    /\ Constructing \/ Counted # {} => post = "real"
    /\ post = "real" => Constructing \/ Counted # {} \/ \E i \in Isolates : callback[i] = "last"

\* Without an overlap an isolate is initialised by one init, or not yet.
BridgeInv ==
  \A n \in Inits : LET i == IsolateOf[n] IN i \notin overlapped =>
    /\ InProgress(n) => state[i] = NoState /\ \A m \in InitsOf(i) : InProgress(m) => m = n
    /\ pc[n] \in {"up", "done"} \/ port[n] = "open" => state[i] = n

Inv == TypeOK /\ LifeInv /\ PostInv /\ BridgeInv /\ CounterIsWatchers
=============================================================================
