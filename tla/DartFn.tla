------------------------------- MODULE DartFn --------------------------------
(***************************************************************************)
(* Calls from Rust to Dart closures: DartFnHandler (frb_rust/src/dart_fn/  *)
(* handler.rs) with its map of completers and its 32-bit call ids, the     *)
(* handler port, the closure that the Dart side runs, and the generated    *)
(* wrappers on both sides.  The closure itself is a DartOpaque.            *)
(*                                                                         *)
(* The three effects of `invoke` (fetch the id, insert the completer, post *)
(* the message) are steps of their own: other threads run between them.    *)
(***************************************************************************)
EXTENDS DartOpaque

None == "none"

CONSTANTS NumIds,     \* call ids wrap after this many (2^32 in the code)
          Fallible,   \* the closures whose Rust type returns a Result
          Faults      \* subset of {"decode", "encode"}: arguments that Dart cannot
                      \* decode, outputs that it cannot encode

ASSUME DartFnAssumption ==
  /\ NumIds \in Nat \ {0}
  /\ Fallible \subseteq Objects
  /\ Faults \subseteq {"decode", "encode"}
  /\ None \notin Calls \cup Objects

VARIABLES
  next_call_id,  \* DartFnHandler.next_call_id
  completers,    \* DartFnHandler.completers: the call whose sender it is
  stage,         \* stage[k]: how far invoke has come for call k
  closure,       \* closure[k]: what k calls
  call_id,       \* call_id[k]
  dart,          \* dart[k]: where the message or the closure's run is
  future,        \* future[k]: the DartFnFuture
  answer,        \* answer[k]: the call whose output completed k
  reused         \* an insert has met an id that was in the map

fnVars == <<next_call_id, completers, stage, closure, call_id, dart, future, answer, reused>>
vars == <<opaqueVars, fnVars>>

Ids == 0 .. NumIds - 1
Stages == {"new", "id", "inserted", "sent"}
DartStates == {"none", "mail", "running", "failed", "unsent", "over", "undelivered", "lost"}
Ready == {"value", "error", "panic"}

FnTypeOK ==
  /\ next_call_id \in Ids
  /\ completers \in [Ids -> Calls \cup {None}]
  /\ stage \in [Calls -> Stages]
  /\ closure \in [Calls -> Objects \cup {None}]
  /\ call_id \in [Calls -> Ids]
  /\ dart \in [Calls -> DartStates]
  /\ future \in [Calls -> {"none", "pending", "dropped"} \cup Ready]
  /\ answer \in [Calls -> Calls \cup {None}]
  /\ reused \in BOOLEAN

Init ==
  /\ OpaqueInit
  /\ next_call_id = 1 % NumIds
  /\ completers = [n \in Ids |-> None]
  /\ stage = [k \in Calls |-> "new"]
  /\ closure = [k \in Calls |-> None]
  /\ call_id = [k \in Calls |-> 0]
  /\ dart = [k \in Calls |-> "none"]
  /\ future = [k \in Calls |-> "none"]
  /\ answer = [k \in Calls |-> None]
  /\ reused = FALSE

-----------------------------------------------------------------------------
(* Rust calls the closure                                                  *)

\* fetch_add wraps.
NextId(n) == (n + 1) % NumIds

\* The generated wrapper clones the closure for this call; fetch_add.
FetchId(k, o) ==
  /\ stage[k] = "new" /\ \E h \in Handles : Holds(o, h)
  /\ owners' = [owners EXCEPT ![o] = @ \cup {k}]
  /\ closure' = [closure EXCEPT ![k] = o]
  /\ call_id' = [call_id EXCEPT ![k] = next_call_id]
  /\ next_call_id' = NextId(next_call_id)
  /\ stage' = [stage EXCEPT ![k] = "id"]
  /\ UNCHANGED <<alive, open, mail, raw, handle, completers, dart, future, answer, reused>>

\* The sender that an insert displaces is dropped: its receiver panics.
Displace(q) ==
  IF q # None /\ future[q] = "pending" THEN [future EXCEPT ![q] = "panic"] ELSE future

InsertCompleter(k) ==
  LET n == call_id[k] IN
  /\ stage[k] = "id"
  /\ completers' = [completers EXCEPT ![n] = k]
  /\ future' = [Displace(completers[n]) EXCEPT ![k] = "pending"]
  /\ reused' = (reused \/ completers[n] # None)
  /\ stage' = [stage EXCEPT ![k] = "inserted"]
  /\ UNCHANGED <<opaqueVars, next_call_id, closure, call_id, dart, answer>>

\* send_or_warn: when the port is closed there is only a warning; the clone is a
\* raw pointer by then, and nobody frees it.
PostInvoke(k) ==
  LET i == Home[closure[k]] IN
  /\ stage[k] = "inserted"
  /\ Post(i, InvokeMessage(k))
  /\ dart' = [dart EXCEPT ![k] = IF i \in open THEN "mail" ELSE "undelivered"]
  /\ stage' = [stage EXCEPT ![k] = "sent"]
  /\ UNCHANGED <<alive, open, owners, raw, handle, next_call_id, completers, closure,
                 call_id, future, answer, reused>>

\* Rust code drops the future, for example because a timeout was faster.
DropFuture(k) ==
  /\ stage[k] = "sent" /\ future[k] = "pending"
  /\ future' = [future EXCEPT ![k] = "dropped"]
  /\ UNCHANGED <<opaqueVars, next_call_id, completers, stage, closure, call_id, dart, answer, reused>>

-----------------------------------------------------------------------------
(* The isolate of the closure                                              *)

\* The generated Dart closure decodes its arguments outside its `try`.
ArgumentsDecode == {TRUE} \cup (IF "decode" \in Faults THEN {FALSE} ELSE {})

\* Faulty variant: dartFnInvoke does not take over the Arc.
OnInvokeKeepsArc(k) ==
  LET i == Home[closure[k]] IN
  /\ closure[k] # None /\ i \in alive /\ mail[i] # <<>> /\ Head(mail[i]) = InvokeMessage(k)
  /\ mail' = [mail EXCEPT ![i] = Tail(@)]
  /\ \E ok \in ArgumentsDecode : dart' = [dart EXCEPT ![k] = IF ok THEN "running" ELSE "failed"]
  /\ UNCHANGED <<alive, open, owners, raw, handle, next_call_id, completers, stage, closure,
                 call_id, future, answer, reused>>

\* onData, dartFnInvoke: decodeDartOpaque drops the clone on its isolate, then
\* the closure starts.
OnInvoke(k) ==
  LET o == closure[k]
      i == Home[o] IN
  /\ o # None /\ i \in alive /\ mail[i] # <<>> /\ Head(mail[i]) = InvokeMessage(k)
  /\ mail' = [mail EXCEPT ![i] = Tail(@)]
  /\ owners' = [owners EXCEPT ![o] = @ \ {k}]
  /\ handle' = [handle EXCEPT ![o] = IF owners[o] = {k} THEN "deleted" ELSE @]
  /\ \E ok \in ArgumentsDecode : dart' = [dart EXCEPT ![k] = IF ok THEN "running" ELSE "failed"]
  /\ UNCHANGED <<alive, open, raw, next_call_id, completers, stage, closure, call_id, future,
                 answer, reused>>

\* The wrapper decodes the output; a closure that throws although its Rust type
\* has no Result makes it panic.
Outcome(q, threw) ==
  IF ~threw THEN "value" ELSE IF closure[q] \in Fallible THEN "error" ELSE "panic"

\* Faulty variants: an output that reports an exception is not passed on; the
\* most recent completer gets the output.
HandleOutputIgnoresThrow(k, threw) ==
  LET n == call_id[k]
      q == completers[n]
      waits == ~threw /\ q # None /\ future[q] = "pending"
  IN /\ completers' = [completers EXCEPT ![n] = None]
     /\ future' = IF waits THEN [future EXCEPT ![q] = Outcome(q, threw)] ELSE future
     /\ answer' = IF waits THEN [answer EXCEPT ![q] = k] ELSE answer
HandleOutputLatest(k, threw) ==
  LET n == (next_call_id + NumIds - 1) % NumIds
      q == completers[n]
  IN IF q = None \/ future[q] # "pending"
       THEN UNCHANGED <<completers, future, answer>>
       ELSE /\ completers' = [completers EXCEPT ![n] = None]
            /\ future' = [future EXCEPT ![q] = Outcome(q, threw)]
            /\ answer' = [answer EXCEPT ![q] = k]

\* DartFnHandler::handle_output: an id that is not in the map is ignored, and so
\* is a receiver that is gone.
HandleOutput(k, threw) ==
  LET n == call_id[k]
      q == completers[n]
      waits == q # None /\ future[q] = "pending"
  IN /\ completers' = [completers EXCEPT ![n] = None]
     /\ future' = IF waits THEN [future EXCEPT ![q] = Outcome(q, threw)] ELSE future
     /\ answer' = IF waits THEN [answer EXCEPT ![q] = k] ELSE answer

\* The closure returns or throws, its output is encoded, and dartFnDeliverOutput
\* calls Rust directly: it works after dispose as well.
Deliver(k) ==
  /\ dart[k] = "running" /\ Home[closure[k]] \in alive
  /\ dart' = [dart EXCEPT ![k] = "over"]
  /\ \E threw \in BOOLEAN : HandleOutput(k, threw)
  /\ UNCHANGED <<opaqueVars, next_call_id, stage, closure, call_id, reused>>

\* The closure returns a value whose encoding throws, a disposed opaque object for
\* example: that is outside the `try`, Rust is not told, and the completer stays.
EncodeOutputThrows(k) ==
  /\ "encode" \in Faults
  /\ dart[k] = "running" /\ Home[closure[k]] \in alive
  /\ dart' = [dart EXCEPT ![k] = "unsent"]
  /\ UNCHANGED <<opaqueVars, next_call_id, completers, stage, closure, call_id, future, answer, reused>>

OfIsolate(k, i) == closure[k] # None /\ Home[closure[k]] = i

DisposeBridge(i) ==
  /\ Dispose(i)
  /\ dart' = [k \in Calls |->
       IF OfIsolate(k, i) /\ dart[k] = "mail" THEN "undelivered" ELSE dart[k]]
  /\ UNCHANGED <<next_call_id, completers, stage, closure, call_id, future, answer, reused>>

ExitIsolate(i) ==
  /\ Exit(i)
  /\ dart' = [k \in Calls |->
       IF OfIsolate(k, i) /\ dart[k] = "mail" THEN "undelivered"
       ELSE IF OfIsolate(k, i) /\ dart[k] = "running" THEN "lost" ELSE dart[k]]
  /\ UNCHANGED <<next_call_id, completers, stage, closure, call_id, future, answer, reused>>

-----------------------------------------------------------------------------

Next ==
  \/ OpaqueStep /\ UNCHANGED fnVars
  \/ \E k \in Calls :
       \/ \E o \in Objects : FetchId(k, o)
       \/ InsertCompleter(k) \/ PostInvoke(k) \/ DropFuture(k)
       \/ OnInvoke(k) \/ Deliver(k) \/ EncodeOutputThrows(k)
  \/ \E i \in Isolates : DisposeBridge(i) \/ ExitIsolate(i)

\* Rust threads run, the event loop of an isolate turns and closures return.
Fairness ==
  /\ \A k \in Calls : /\ WF_vars(InsertCompleter(k)) /\ WF_vars(PostInvoke(k))
                      /\ WF_vars(OnInvoke(k)) /\ WF_vars(Deliver(k))
  /\ \A o \in Objects : WF_vars(OnDrop(o) /\ UNCHANGED fnVars)

Spec == Init /\ [][Next]_vars
FairSpec == Spec /\ Fairness

-----------------------------------------------------------------------------
(* Properties                                                              *)

\* The clone that a call carries keeps the closure alive until the isolate of
\* the closure has it in its hands, and not longer; it leaks only with a message
\* that the port refused or discarded.
CloneTravelsWithCall ==
  /\ \A k \in Calls, o \in Objects :
       k \in owners[o] <=>
         closure[k] = o /\ (stage[k] \in {"id", "inserted"} \/ dart[k] \in {"mail", "undelivered"})
  /\ \A k \in Calls : dart[k] = "undelivered" => Home[closure[k]] \notin open

\* A future gets the output of its own call, whatever else is in flight, is
\* dropped or was refused, until an id in use is given out again.
AnswerIsOwn == ~reused => \A k \in Calls : answer[k] \in {None, k}

UnderWay(k) == stage[k] \in {"id", "inserted"} \/ dart[k] \in {"mail", "running"}

\* The completer of a pending call is in the map, and its output can still come;
\* a future pends for ever only when Dart could not decode the arguments or
\* encode the output, both of which happen outside the `try` of the generated
\* closure, or when the port or the isolate of the closure is gone.
PendingIsUnderWay ==
  ~reused => \A k \in Calls :
    future[k] = "pending" =>
      /\ completers[call_id[k]] = k
      /\ UnderWay(k) \/ dart[k] \in {"failed", "unsent"} \/ Home[closure[k]] \notin open

\* Every call is answered in the end, also when the closure throws, unless its
\* future is dropped, its arguments do not decode, its output does not encode, or
\* its port or isolate goes away.
EveryCallAnswered ==
  \A k \in Calls :
    future[k] = "pending" ~>
      \/ future[k] # "pending"
      \/ dart[k] \in {"failed", "unsent"}
      \/ Home[closure[k]] \notin open

\* A box that was dropped on a foreign thread is freed by its isolate, unless
\* the port closes first.
PostedBoxFreed == \A o \in Objects : handle[o] = "posted" ~> handle[o] \in {"deleted", "leaked"}

-----------------------------------------------------------------------------
(* The inductive invariant                                                 *)

\* The set of messages in each port.
Elements(s) == {s[n] : n \in DOMAIN s}
Mail == [i \in Isolates |-> Elements(mail[i])]

\* A message is in its port once; a closed port is empty; an open one holds the
\* boxes and the calls of its isolate that are said to be in the mail.
Once == \A i \in Isolates : \A n, m \in DOMAIN mail[i] : mail[i][n] = mail[i][m] => n = m

Closed == \A i \in Isolates : i \notin open => Mail[i] = {}

Drops ==
  \A o \in Objects, i \in Isolates :
    DropMessage(o) \in Mail[i] <=> Home[o] = i /\ handle[o] = "posted"

Invokes ==
  \A k \in Calls, i \in Isolates :
    InvokeMessage(k) \in Mail[i] <=> OfIsolate(k, i) /\ dart[k] = "mail"

Boxes ==
  \A o \in Objects :
    /\ handle[o] = "boxed" <=> owners[o] # {}
    /\ handle[o] = "leaked" => Home[o] \notin open

\* A handle is a clone of one object.
HandleInv ==
  /\ \A o, p \in Objects : \A h \in owners[o] \cap owners[p] : o = p
  /\ open \subseteq alive

CallInv ==
  \A k \in Calls :
    /\ closure[k] = None <=> stage[k] = "new"
    /\ dart[k] = "none" <=> stage[k] # "sent"
    /\ future[k] = "none" <=> stage[k] \in {"new", "id"}
    /\ dart[k] = "lost" => Home[closure[k]] \notin alive

\* Until an id in use is given out again, the completer of a call is in the map
\* from its insert to its output.
CompleterInv ==
  ~reused => \A k \in Calls :
    /\ stage[k] = "inserted" \/ dart[k] \notin {"none", "over"} => completers[call_id[k]] = k
    /\ dart[k] = "over" => future[k] # "pending"

OpaqueInv == OpaqueTypeOK /\ Once /\ Closed /\ Drops /\ Boxes /\ HandleInv
FnInv == FnTypeOK /\ Invokes /\ CallInv /\ CompleterInv /\ CloneTravelsWithCall /\ AnswerIsOwn

Inv == OpaqueInv /\ FnInv

-----------------------------------------------------------------------------
(* The abstract specification                                              *)

\* The object that is shared is the persistent handle: it lives until the Dart VM
\* is told to delete it, wherever its box has gone meanwhile.
Fate == [o \in Objects |->
  CASE handle[o] = "none" -> "unborn" [] handle[o] = "deleted" -> "dropped" [] OTHER -> "live"]
Abs == INSTANCE BaseArc WITH Handles <- Handles \cup Calls, fate <- Fate

\* Rust clones, the calls that carry a clone, replies and the boxes in the mail
\* together keep the promise of the trait BaseArc for a Dart object.
ImplementsBaseArc == Abs!Spec
=============================================================================
