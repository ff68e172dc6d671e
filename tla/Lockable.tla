------------------------------ MODULE Lockable -------------------------------
(***************************************************************************)
(* How a wrapped Rust function locks its RustAutoOpaque arguments          *)
(* (frb_rust/src/lockable, and the decode loop that frb_codegen generates  *)
(* around it): compute one order for all arguments from the creation order *)
(* of the objects, refuse an object that is borrowed mutably and once more,*)
(* then take one guard after the other, run the function, drop the guards. *)
(*                                                                         *)
(* The lock is tokio's RwLock: one FIFO queue, and a request that arrives  *)
(* while others wait goes behind them even if it is compatible with the    *)
(* guards that are out.                                                    *)
(***************************************************************************)
EXTENDS Naturals, Sequences

CONSTANTS Calls,     \* wrapped functions that run at the same time
          MaxOrder,  \* the largest LockableOrder (u64::MAX in the code)
          Objects,   \* the objects, each one named by its LockableOrder
          MaxArgs,   \* borrowed arguments of one function
          Inputs     \* the argument lists that functions are called with

ASSUME ObjectsAreOrders == MaxOrder \in Nat /\ Objects \subseteq 0 .. MaxOrder
ASSUME MaxArgsPositive == MaxArgs \in Nat \ {0}

VARIABLES
  phase,    \* phase[c]: where call c is
  args,     \* args[c]: its LockableOrderInfos, by argument index
  todo,     \* todo[c]: the argument indices that have no guard yet
  want,     \* want[c]: the argument index c waits for, or 0
  guards,   \* the guards that are out, as <<call, index>>
  queue     \* queue[o]: tokio's wait queue of object o, of <<call, index>>

vars == <<phase, args, todo, want, guards, queue>>

Index == 1 .. MaxArgs
Info == [object_order : Objects, mutable : BOOLEAN]
ArgLists == UNION {[1 .. n -> Info] : n \in Index}

ASSUME InputsAreArgLists == Inputs \subseteq ArgLists

\* The arguments name distinct objects.
Distinct(a) == \A i, j \in DOMAIN a : i # j => a[i].object_order # a[j].object_order

Phases == {"idle", "decode", "wait", "body", "drop"}

TypeOK ==
  /\ phase \in [Calls -> Phases]
  /\ args \in [Calls -> ArgLists \cup {<<>>}]
  /\ todo \in [Calls -> SUBSET Index]
  /\ want \in [Calls -> Index \cup {0}]
  /\ guards \subseteq Calls \X Index
  /\ queue \in [Objects -> Seq(Calls \X Index)]

Init ==
  /\ phase = [c \in Calls |-> "idle"]
  /\ args = [c \in Calls |-> <<>>]
  /\ todo = [c \in Calls |-> {}]
  /\ want = [c \in Calls |-> 0]
  /\ guards = {}
  /\ queue = [o \in Objects |-> <<>>]

Object(c, i) == args[c][i].object_order

\* Faulty variant: a guard for reading is taken for every argument.
MutableForgotten(c, i) == FALSE

Mutable(c, i) == args[c][i].mutable

-----------------------------------------------------------------------------
(* lockable_compute_decode_order                                           *)

\* Faulty variant: only two mutable borrows of one object are refused.
NoTwoMutableBorrows(a) ==
  \A i, j \in DOMAIN a :
    i # j /\ a[i].object_order = a[j].object_order => ~(a[i].mutable /\ a[j].mutable)

\* check_no_immediate_invalid_borrow: of the arguments that name one object
\* none is mutable, or there is only one.
NoImmediateInvalidBorrow(a) ==
  \A i, j \in DOMAIN a :
    i # j /\ a[i].object_order = a[j].object_order => ~a[i].mutable /\ ~a[j].mutable

\* Faulty variant: the arguments are decoded in the order they are written.
DecodeNextUnsorted(c) ==
  {i \in todo[c] : \A j \in todo[c] : i <= j}

\* The indices sort_unstable_by_key(object_order) may put next: equal keys come
\* in any order.
DecodeNext(c) ==
  {i \in todo[c] : \A j \in todo[c] : Object(c, i) <= Object(c, j)}

-----------------------------------------------------------------------------
(* tokio::sync::RwLock                                                     *)

\* The guards of object o that are out.
GuardsOf(o) == {g \in guards : Object(g[1], g[2]) = o}

\* A write guard excludes all others.
Compatible(o, mutable) == \A g \in GuardsOf(o) : ~mutable /\ ~Mutable(g[1], g[2])

\* The head of the queue can have its guard.
Grantable(o) ==
  queue[o] # <<>> /\ Compatible(o, Mutable(Head(queue[o])[1], Head(queue[o])[2]))

-----------------------------------------------------------------------------

\* The call arrives and computes its decode order; an invalid borrow is the
\* panic "Cannot borrow an object mutably, and at the same time borrow again
\* in another argument", before any lock is taken.
Call(c, a) ==
  /\ phase[c] = "idle"
  /\ NoImmediateInvalidBorrow(a)
  /\ phase' = [phase EXCEPT ![c] = "decode"]
  /\ args' = [args EXCEPT ![c] = a]
  /\ todo' = [todo EXCEPT ![c] = DOMAIN a]
  /\ UNCHANGED <<want, guards, queue>>

\* Faulty variant: a lock that lets a reader in past the queue.
AcquireBarges(c) ==
  /\ phase[c] = "decode"
  /\ \E i \in DecodeNext(c) :
       /\ Compatible(Object(c, i), Mutable(c, i))
       /\ guards' = guards \cup {<<c, i>>}
       /\ todo' = [todo EXCEPT ![c] = @ \ {i}]
  /\ UNCHANGED <<phase, args, want, queue>>

\* api_x_guard = Some(api_x.lockable_decode_*_ref[_mut]()), which gets the
\* guard at once ...
Acquire(c) ==
  /\ phase[c] = "decode"
  /\ \E i \in DecodeNext(c) :
       /\ queue[Object(c, i)] = <<>> /\ Compatible(Object(c, i), Mutable(c, i))
       /\ guards' = guards \cup {<<c, i>>}
       /\ todo' = [todo EXCEPT ![c] = @ \ {i}]
  /\ UNCHANGED <<phase, args, want, queue>>

\* ... or waits, blocking its thread (sync) or its task (async).
Enqueue(c) ==
  /\ phase[c] = "decode"
  /\ \E i \in DecodeNext(c) :
       /\ ~(queue[Object(c, i)] = <<>> /\ Compatible(Object(c, i), Mutable(c, i)))
       /\ queue' = [queue EXCEPT ![Object(c, i)] = Append(@, <<c, i>>)]
       /\ want' = [want EXCEPT ![c] = i]
  /\ phase' = [phase EXCEPT ![c] = "wait"]
  /\ UNCHANGED <<args, todo, guards>>

\* The lock hands a guard to the first in its queue.
Grant(o) ==
  /\ Grantable(o)
  /\ LET c == Head(queue[o])[1]
         i == Head(queue[o])[2]
     IN /\ guards' = guards \cup {<<c, i>>}
        /\ todo' = [todo EXCEPT ![c] = @ \ {i}]
        /\ want' = [want EXCEPT ![c] = 0]
        /\ phase' = [phase EXCEPT ![c] = "decode"]
  /\ queue' = [queue EXCEPT ![o] = Tail(@)]
  /\ UNCHANGED args

\* Every guard is there (the `unwrap`s): the user's function runs.
Body(c) ==
  /\ phase[c] = "decode" /\ todo[c] = {}
  /\ phase' = [phase EXCEPT ![c] = "body"]
  /\ UNCHANGED <<args, todo, want, guards, queue>>

\* It returns or panics; either way the guards are dropped.
Return(c) ==
  /\ phase[c] = "body"
  /\ phase' = [phase EXCEPT ![c] = "drop"]
  /\ UNCHANGED <<args, todo, want, guards, queue>>

\* Locals are dropped in the reverse order of their declaration.
LastGuard(c) == {i \in Index : <<c, i>> \in guards /\ \A j \in Index : <<c, j>> \in guards => j <= i}

DropGuard(c) ==
  /\ phase[c] = "drop"
  /\ \E i \in LastGuard(c) : guards' = guards \ {<<c, i>>}
  /\ UNCHANGED <<phase, args, todo, want, queue>>

Done(c) ==
  /\ phase[c] = "drop" /\ LastGuard(c) = {}
  /\ phase' = [phase EXCEPT ![c] = "idle"]
  /\ args' = [args EXCEPT ![c] = <<>>]
  /\ UNCHANGED <<todo, want, guards, queue>>

Step(c) == Acquire(c) \/ Enqueue(c) \/ Body(c) \/ Return(c) \/ DropGuard(c) \/ Done(c)

Next ==
  \/ \E c \in Calls : (\E a \in Inputs : Call(c, a)) \/ Step(c)
  \/ \E o \in Objects : Grant(o)

\* A thread of the pool or a task of the runtime keeps running, the user's
\* function returns, and tokio wakes the first waiter.
Fairness ==
  /\ \A c \in Calls : WF_vars(Step(c))
  /\ \A o \in Objects : WF_vars(Grant(o))

Spec == Init /\ [][Next]_vars
FairSpec == Spec /\ Fairness

-----------------------------------------------------------------------------
(* Properties                                                              *)

\* The lock hierarchy behind "deadlock-free auto locking": a call asks only
\* for objects that are not older than the ones it holds.
OrderedWaiting ==
  \A c \in Calls : phase[c] = "wait" =>
    \A i \in Index : <<c, i>> \in guards => Object(c, i) <= Object(c, want[c])

\* The function runs with a guard for every argument, and a mutable borrow is
\* exclusive while it runs, also among the arguments of the one call.
BodyHasExclusiveBorrows ==
  \A c \in Calls : phase[c] = "body" =>
    \A i \in DOMAIN args[c] :
      /\ <<c, i>> \in guards
      /\ Mutable(c, i) => GuardsOf(Object(c, i)) = {<<c, i>>}

\* c cannot go on before d does: d has a guard that conflicts with c's request
\* or stands before c in the queue.
BlockedBy(c, d) ==
  LET o == Object(c, want[c])
  IN \/ \E g \in GuardsOf(o) : g[1] = d /\ (Mutable(c, want[c]) \/ Mutable(g[1], g[2]))
     \/ \E j, k \in DOMAIN queue[o] :
          j < k /\ queue[o][j] = <<d, want[d]>> /\ queue[o][k] = <<c, want[c]>>

\* The inductive invariant of the proofs: what a call has locked and has still
\* to lock, ...
CallsOK ==
  \A c \in Calls :
    /\ phase[c] # "idle" => /\ args[c] \in Inputs
                            /\ NoImmediateInvalidBorrow(args[c])
    /\ todo[c] \subseteq DOMAIN args[c]
    /\ phase[c] \notin {"decode", "wait"} => todo[c] = {}
    /\ phase[c] = "wait" => want[c] \in DecodeNext(c)
    /\ phase[c] \in {"decode", "wait", "body"} =>
         \A i \in DOMAIN args[c] : i \in todo[c] \/ <<c, i>> \in guards

\* ... that guards respect the order and exclude one another, ...
GuardsOK ==
  /\ \A g \in guards :
       /\ phase[g[1]] \notin {"idle"} /\ g[2] \in DOMAIN args[g[1]] \ todo[g[1]]
       /\ \A j \in todo[g[1]] : Object(g[1], g[2]) <= Object(g[1], j)
  /\ \A g, h \in guards :
       g # h /\ Object(g[1], g[2]) = Object(h[1], h[2]) =>
         ~Mutable(g[1], g[2]) /\ ~Mutable(h[1], h[2])

\* ... and that the queues hold the requests of the waiting calls, once each.
EntriesOK ==
  \A o \in Objects : \A k \in DOMAIN queue[o] :
    LET e == queue[o][k]
    IN phase[e[1]] = "wait" /\ want[e[1]] = e[2] /\ Object(e[1], e[2]) = o

EntriesOnce ==
  \A o \in Objects : \A j, k \in DOMAIN queue[o] : queue[o][j] = queue[o][k] => j = k

Queued(c, i) == \E k \in DOMAIN queue[Object(c, i)] : queue[Object(c, i)][k] = <<c, i>>
WaitersQueued == \A c \in Calls : phase[c] = "wait" => Queued(c, want[c])

QueuesOK == EntriesOK /\ EntriesOnce /\ WaitersQueued

Inv == TypeOK /\ CallsOK /\ GuardsOK /\ QueuesOK

\* The borrow check does its work: no call waits for a guard of its own.
NoSelfBlock == \A c \in Calls : phase[c] = "wait" => ~BlockedBy(c, c)

Waiting == {c \in Calls : phase[c] = "wait"}
NoCircle(W) == \A S \in SUBSET W : S # {} => \E c \in S : \A d \in S : ~BlockedBy(c, d)

\* README.md: "deadlock-free auto locking".  No set of waiting calls blocks
\* itself, whatever the other calls do.
NoDeadlock == NoCircle(Waiting)

\* What does hold of it: every circle of waiting calls has one in it that
\* borrows an object, immutably, twice.
DeadlockNeedsAliasing == NoCircle({c \in Waiting : Distinct(args[c])})

\* Every call that passes the borrow check runs its function: nobody starves,
\* whatever the others borrow, unless some calls are in a circle.
EveryCallRuns == \A c \in Calls : phase[c] = "decode" ~> phase[c] = "body" \/ ~NoDeadlock

\* A call that has a step of its own to do, and does not wait for the locks.
CanGo(c) ==
  \/ phase[c] = "decode" /\ (todo[c] = {} \/ DecodeNext(c) # {})
  \/ phase[c] \in {"body", "drop"}

\* A circle of waiting calls is the only way to come to a stop: without one some
\* call goes on or some lock hands over its guard, as long as a call is busy.
NotStuck ==
  NoDeadlock /\ (\E c \in Calls : phase[c] # "idle") =>
    (\E c \in Calls : CanGo(c)) \/ (\E o \in Objects : Grantable(o))

-----------------------------------------------------------------------------
(* The abstract specification                                              *)

Borrowed == [c \in Calls |-> IF phase[c] = "body" THEN args[c] ELSE <<>>]
Abs == INSTANCE AtomicBorrows WITH inside <- Borrowed

\* The function bodies run as if each had taken all its borrows in one step,
\* none of them in conflict with another, although its guards come and go one
\* by one in between those of the other calls.
ImplementsAtomicBorrows == Abs!Spec
=============================================================================
