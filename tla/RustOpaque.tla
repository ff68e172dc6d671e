----------------------------- MODULE RustOpaque ------------------------------
(***************************************************************************)
(* Rust objects that Dart holds: RustOpaque and RustAutoOpaque over StdArc *)
(* (frb_rust/src/rust_opaque, rust_auto_opaque, generalized_arc/           *)
(* std_arc.rs) and, on the Dart side, RustOpaque, RustArc and Droppable    *)
(* with their finalizer (frb_dart/lib/src/misc/rust_opaque.dart, rust_arc, *)
(* droppable).  An owner of an object is a Rust handle, a raw number in a  *)
(* message or the finalizer of a Dart RustArc; no common code counts them. *)
(*                                                                         *)
(* Dart encodes the arguments of a call, or the output of a Dart closure,  *)
(* one after the other, and Rust decodes them one after the other: both    *)
(* can fail in the middle.  What Rust sends goes to the port of one reply, *)
(* or to a port that the isolate may close while it lives: that of a       *)
(* stream, or the handler port, which takes the arguments of closures.     *)
(***************************************************************************)
EXTENDS Naturals, Sequences, FiniteSets

NoObj == "none"

CONSTANTS Objects,
          Slots,     \* Rust handles, and the raw numbers that they become
          Arcs,      \* the RustArc objects of a Dart isolate
          Calls,     \* the messages from Dart: calls, and outputs of Dart closures
          Ports,     \* the ports that may close before the isolate ends
          MaxArgs    \* bound: opaque objects in a message from Dart

Places == {"free", "rust", "reply", "undecoded", "wire"}

ASSUME OpaqueAssumption ==
  /\ NoObj \notin Objects
  /\ Slots \cap Arcs = {}
  /\ IsFiniteSet(Slots) /\ IsFiniteSet(Arcs)
  /\ Ports \cap Places = {}
  /\ MaxArgs \in Nat

VARIABLES
  strong,    \* strong[o]: the strong count of the Arc of o
  fate,      \* fate[o]: what has become of its value
  obj,       \* obj[h]: the object of a Rust handle or a raw number
  place,     \* place[h]: where it is, or to which port it was sent
  ptr,       \* ptr[a]: Droppable._ptr
  fin,       \* fin[a]: the token of the attached finalizer
  reach,     \* the RustArcs that the Dart program can reach
  wire,      \* wire[c]: the raw numbers in the message of a call
  phase,     \* phase[c]: how far the call has come
  open,      \* the Ports that are open
  alive      \* the isolate runs

vars == <<strong, fate, obj, place, ptr, fin, reach, wire, phase, open, alive>>
arcVars == <<ptr, fin, reach>>
callVars == <<wire, phase>>
isolateVars == <<open, alive>>

Fates == {"unborn", "live", "dropped", "moved"}
Phases == {"none", "encoding", "sent", "output", "polled", "threw", "panicked", "ignored"}

TypeOK ==
  /\ strong \in [Objects -> Nat]
  /\ fate \in [Objects -> Fates]
  /\ obj \in [Slots -> Objects \cup {NoObj}]
  /\ place \in [Slots -> Places \cup Ports]
  /\ ptr \in [Arcs -> Objects \cup {NoObj}]
  /\ fin \in [Arcs -> Objects \cup {NoObj}]
  /\ reach \subseteq Arcs
  /\ wire \in [Calls -> Seq(Slots)]
  /\ phase \in [Calls -> Phases]
  /\ open \subseteq Ports
  /\ alive \in BOOLEAN

Init ==
  /\ strong = [o \in Objects |-> 0]
  /\ fate = [o \in Objects |-> "unborn"]
  /\ obj = [h \in Slots |-> NoObj]
  /\ place = [h \in Slots |-> "free"]
  /\ ptr = [a \in Arcs |-> NoObj]
  /\ fin = [a \in Arcs |-> NoObj]
  /\ reach = {}
  /\ wire = [c \in Calls |-> <<>>]
  /\ phase = [c \in Calls |-> "none"]
  /\ open = Ports
  /\ alive = TRUE

-----------------------------------------------------------------------------
(* std::sync::Arc                                                          *)

\* increment_strong_count, Clone
Increment(o) == strong' = [strong EXCEPT ![o] = @ + 1] /\ UNCHANGED fate

\* decrement_strong_count, Drop: the value goes with the last one.
Decrement(o) ==
  /\ strong' = [strong EXCEPT ![o] = @ - 1]
  /\ fate' = [fate EXCEPT ![o] = IF strong[o] = 1 THEN "dropped" ELSE @]

\* Arc::into_inner: the last owner gets the value, any other is dropped.
IntoInner(o) ==
  /\ strong' = [strong EXCEPT ![o] = @ - 1]
  /\ fate' = [fate EXCEPT ![o] = IF strong[o] = 1 THEN "moved" ELSE @]

-----------------------------------------------------------------------------
(* Rust code                                                               *)

Fill(h, o, where) ==
  /\ obj' = [obj EXCEPT ![h] = o]
  /\ place' = [place EXCEPT ![h] = where]
Empty(h) == Fill(h, NoObj, "free")

\* RustOpaqueBase::new, rust_auto_opaque_encode
New(o, h) ==
  /\ fate[o] = "unborn" /\ place[h] = "free"
  /\ strong' = [strong EXCEPT ![o] = 1]
  /\ fate' = [fate EXCEPT ![o] = "live"]
  /\ Fill(h, o, "rust")
  /\ UNCHANGED <<arcVars, callVars, isolateVars>>

\* Clone for RustOpaqueBase
Clone(g, h) ==
  /\ place[g] = "rust" /\ place[h] = "free"
  /\ Increment(obj[g])
  /\ Fill(h, obj[g], "rust")
  /\ UNCHANGED <<arcVars, callVars, isolateVars>>

\* The end of a Rust handle, unwinding included.
Drop(h) ==
  /\ place[h] = "rust"
  /\ Decrement(obj[h])
  /\ Empty(h)
  /\ UNCHANGED <<arcVars, callVars, isolateVars>>

\* RustOpaqueBase::into_inner by user code.
UnwrapHandle(h) ==
  /\ place[h] = "rust"
  /\ IntoInner(obj[h])
  /\ Empty(h)
  /\ UNCHANGED <<arcVars, callVars, isolateVars>>

\* RustOpaqueBase::encode in a reply, a stream value or the arguments of a Dart
\* closure.  When the port is closed the send is refused (add_raw reports that,
\* send_or_warn warns), and the raw number is nobody's.
Encode(h, p) ==
  /\ place[h] = "rust"
  /\ Fill(h, obj[h], p)
  /\ UNCHANGED <<strong, fate, arcVars, callVars, isolateVars>>

-----------------------------------------------------------------------------
(* The Dart isolate                                                        *)

\* The port of a reply stays open until the reply comes, or the isolate ends.
Receives(p) == alive /\ (p = "reply" \/ p \in open)

\* A call is inside its wire function, which decodes on the thread of the isolate.
InRust(c) == phase[c] = "sent" /\ wire[c] # <<>>

\* The Dart code of an isolate is one thread: it encodes one call at a time.
Idle == alive /\ \A c \in Calls : phase[c] # "encoding" /\ ~InRust(c)

\* Faulty variant: no finalizer is attached.
DecodeReplyUnattached(h, a) ==
  /\ Idle /\ Receives(place[h])
  /\ a \notin reach /\ fin[a] = NoObj
  /\ ptr' = [ptr EXCEPT ![a] = obj[h]]
  /\ reach' = reach \cup {a}
  /\ Empty(h)
  /\ UNCHANGED <<strong, fate, fin, callVars, isolateVars>>

\* frbInternalSseDecode, RustArc.fromRaw: the finalizer is attached.
DecodeReply(h, a) ==
  /\ Idle /\ Receives(place[h])
  /\ a \notin reach /\ fin[a] = NoObj
  /\ ptr' = [ptr EXCEPT ![a] = obj[h]]
  /\ fin' = [fin EXCEPT ![a] = obj[h]]
  /\ reach' = reach \cup {a}
  /\ Empty(h)
  /\ UNCHANGED <<strong, fate, callVars, isolateVars>>

\* Decoding a message throws before it comes to this number, in the user's own
\* deserializer for example.
DecodeThrows(h) ==
  /\ Idle /\ Receives(place[h])
  /\ Fill(h, obj[h], "undecoded")
  /\ UNCHANGED <<strong, fate, arcVars, callVars, isolateVars>>

\* The generator of a RustStreamSink ends and closes its port, since the listener
\* cancels, an error comes or another sink closes the stream; or the bridge is
\* disposed.  What is in the port is discarded.
ClosePort(p) ==
  /\ Idle /\ p \in open
  /\ open' = open \ {p}
  /\ UNCHANGED <<strong, fate, obj, place, arcVars, callVars, alive>>

\* Faulty variant: the finalizer stays attached.
ForgetKeepsFinalizer(a) == ptr' = [ptr EXCEPT ![a] = NoObj] /\ UNCHANGED fin

\* Droppable.forget
Forget(a) ==
  /\ ptr' = [ptr EXCEPT ![a] = NoObj]
  /\ fin' = [fin EXCEPT ![a] = NoObj]

\* Faulty variant: dispose forgets and does not release.
DisposeForgets(a) ==
  /\ Idle /\ a \in reach /\ ptr[a] # NoObj
  /\ Forget(a)
  /\ UNCHANGED <<strong, fate, obj, place, reach, callVars, isolateVars>>

\* Droppable.dispose; nothing happens to one that is disposed.
Dispose(a) ==
  /\ Idle /\ a \in reach /\ ptr[a] # NoObj
  /\ Forget(a)
  /\ Decrement(ptr[a])
  /\ UNCHANGED <<obj, place, reach, callVars, isolateVars>>

\* The program lets go of its last reference.
Lose(a) ==
  /\ a \in reach
  /\ reach' = reach \ {a}
  /\ UNCHANGED <<strong, fate, obj, place, ptr, fin, callVars, isolateVars>>

\* The garbage collector runs the finalizer of a RustArc that nobody reaches;
\* the end of the isolate runs those that are left.
Finalize(a) ==
  /\ a \notin reach /\ fin[a] # NoObj
  /\ Decrement(fin[a])
  /\ Forget(a)
  /\ UNCHANGED <<obj, place, reach, callVars, isolateVars>>

\* The generated Dart function starts to encode its arguments.
BeginCall(c) ==
  /\ Idle /\ phase[c] = "none"
  /\ phase' = [phase EXCEPT ![c] = "encoding"]
  /\ UNCHANGED <<strong, fate, obj, place, arcVars, wire, isolateVars>>

PutOnWire(c, h, o) ==
  /\ place[h] = "free"
  /\ Fill(h, o, "wire")
  /\ wire' = [wire EXCEPT ![c] = Append(@, h)]

\* frbInternalCstEncode with move: RustArc.intoRaw.
EncodeMove(c, a, h) ==
  /\ phase[c] = "encoding" /\ Len(wire[c]) < MaxArgs
  /\ a \in reach /\ ptr[a] # NoObj
  /\ PutOnWire(c, h, ptr[a])
  /\ Forget(a)
  /\ UNCHANGED <<strong, fate, reach, phase, isolateVars>>

\* Faulty variant: without the clone.
EncodeCloneUncounted(c, a, h) ==
  /\ phase[c] = "encoding" /\ Len(wire[c]) < MaxArgs
  /\ a \in reach /\ ptr[a] # NoObj
  /\ PutOnWire(c, h, ptr[a])
  /\ UNCHANGED <<strong, fate, arcVars, phase, isolateVars>>

\* Without move: RustArc.clone, and intoRaw of the clone.
EncodeClone(c, a, h) ==
  /\ phase[c] = "encoding" /\ Len(wire[c]) < MaxArgs
  /\ a \in reach /\ ptr[a] # NoObj
  /\ Increment(ptr[a])
  /\ PutOnWire(c, h, ptr[a])
  /\ UNCHANGED <<arcVars, phase, isolateVars>>

\* DroppableDisposedException: the arguments before this one are raw numbers
\* already, in a message that is never sent.
EncodeThrows(c, a) ==
  /\ phase[c] = "encoding" /\ a \in reach /\ ptr[a] = NoObj
  /\ phase' = [phase EXCEPT ![c] = "threw"]
  /\ UNCHANGED <<strong, fate, obj, place, arcVars, wire, isolateVars>>

\* The wire function is called.
Send(c) ==
  /\ phase[c] = "encoding"
  /\ phase' = [phase EXCEPT ![c] = "sent"]
  /\ UNCHANGED <<strong, fate, obj, place, arcVars, wire, isolateVars>>

\* dartFnDeliverOutput hands the message over to the completer of the call ...
DeliverOutput(c) ==
  /\ phase[c] = "encoding"
  /\ phase' = [phase EXCEPT ![c] = "output"]
  /\ UNCHANGED <<strong, fate, obj, place, arcVars, wire, isolateVars>>

\* ... whose future takes and decodes it on its own thread ...
PollOutput(c) ==
  /\ phase[c] = "output"
  /\ phase' = [phase EXCEPT ![c] = "polled"]
  /\ UNCHANGED <<strong, fate, obj, place, arcVars, wire, isolateVars>>

\* ... unless the future is gone, or no completer has the id: the bytes of the
\* message are dropped undecoded.
IgnoreOutput(c) ==
  /\ phase[c] = "output"
  /\ phase' = [phase EXCEPT ![c] = "ignored"]
  /\ UNCHANGED <<strong, fate, obj, place, arcVars, wire, isolateVars>>

\* The isolate ends, perhaps killed between two arguments.
Exit ==
  /\ alive /\ \A c \in Calls : ~InRust(c)
  /\ alive' = FALSE
  /\ reach' = {}
  /\ open' = {}
  /\ phase' = [c \in Calls |-> IF phase[c] = "encoding" THEN "threw" ELSE phase[c]]
  /\ UNCHANGED <<strong, fate, obj, place, ptr, fin, wire>>

-----------------------------------------------------------------------------
(* The wire function decodes the arguments, a DartFnFuture the output      *)

Decoding(c) == phase[c] \in {"sent", "polled"} /\ wire[c] # <<>>

\* decode_rust_opaque_nom: from_raw.
Decode(c) ==
  LET h == Head(wire[c]) IN
  /\ Decoding(c)
  /\ wire' = [wire EXCEPT ![c] = Tail(@)]
  /\ Fill(h, obj[h], "rust")
  /\ UNCHANGED <<strong, fate, arcVars, phase, isolateVars>>

\* rust_auto_opaque_decode_owned: the value, or a panic of the decoder when the
\* Arc is shared; what follows in the message is not decoded any more.
DecodeOwned(c) ==
  LET h == Head(wire[c]) IN
  /\ Decoding(c)
  /\ wire' = [wire EXCEPT ![c] = Tail(@)]
  /\ phase' = [phase EXCEPT ![c] = IF strong[obj[h]] = 1 THEN @ ELSE "panicked"]
  /\ IntoInner(obj[h])
  /\ Empty(h)
  /\ UNCHANGED <<arcVars, isolateVars>>

Next ==
  \/ \E h \in Slots :
       \/ Drop(h) \/ UnwrapHandle(h) \/ DecodeThrows(h)
       \/ \E p \in Ports \cup {"reply"} : Encode(h, p)
       \/ \E o \in Objects : New(o, h)
       \/ \E g \in Slots : Clone(g, h)
       \/ \E a \in Arcs : \/ DecodeReply(h, a)
                          \/ \E c \in Calls : EncodeMove(c, a, h) \/ EncodeClone(c, a, h)
  \/ \E a \in Arcs : Dispose(a) \/ Lose(a) \/ Finalize(a) \/ \E c \in Calls : EncodeThrows(c, a)
  \/ \E c \in Calls :
       \/ BeginCall(c) \/ Send(c) \/ DeliverOutput(c) \/ PollOutput(c) \/ IgnoreOutput(c)
       \/ Decode(c) \/ DecodeOwned(c)
  \/ \E p \in Ports : ClosePort(p)
  \/ Exit

\* The end of an isolate runs the finalizers that are left; while it runs the
\* garbage collector promises nothing.
Fairness == \A a \in Arcs : WF_vars(~alive /\ Finalize(a))

Spec == Init /\ [][Next]_vars
FairSpec == Spec /\ Fairness

-----------------------------------------------------------------------------
(* Properties                                                              *)

SlotsOf(o) == {h \in Slots : obj[h] = o}
ArcsOf(o) == {a \in Arcs : fin[a] = o}
OwnersOf(o) == SlotsOf(o) \cup ArcsOf(o)

\* The strong count is the number of Rust handles, raw numbers and attached
\* finalizers of the object, although each is counted by different code.
CountIsOwners == \A o \in Objects : strong[o] = Cardinality(OwnersOf(o))

\* Whoever can get at an object, a RustArc that is not disposed included, finds
\* it live.
OwnedIsLive ==
  /\ \A h \in Slots : obj[h] # NoObj => fate[obj[h]] = "live"
  /\ \A a \in Arcs : ptr[a] # NoObj => fate[ptr[a]] = "live" /\ fin[a] = ptr[a]

\* The messages whose raw numbers Rust is yet to decode; a live isolate has to
\* finish its own first.
Pending == {"sent", "output", "polled"} \cup (IF alive THEN {"encoding"} ELSE {})

OnWire(h, phases) == \E c \in Calls : phase[c] \in phases /\ \E n \in DOMAIN wire[c] : wire[c][n] = h

\* A raw number that nobody will ever decode: it was sent to a port that is closed
\* by now, on a live isolate or with it; or it is in a message that Dart failed to
\* decode, in the arguments of a call that failed, or in the output of a closure
\* that failed or that nobody awaits.
Lost(h) ==
  \/ place[h] \in Ports \cup {"reply"} /\ ~Receives(place[h])
  \/ place[h] = "undecoded"
  \/ OnWire(h, {"threw", "panicked", "ignored"})

\* An object leaks only with a message that failed or that a closed port refused
\* or discarded: as long as it is live and none of its owners is lost, somebody
\* is left who will release it.
LeakOnlyByFailure ==
  \A o \in Objects : fate[o] = "live" =>
    \/ \E h \in SlotsOf(o) : Lost(h)
    \/ \E h \in SlotsOf(o) : place[h] = "rust" \/ Receives(place[h]) \/ OnWire(h, Pending)
    \/ ArcsOf(o) # {}

\* After the end of the isolate an object that only its Dart side owned is
\* destroyed.
ExitReleases ==
  \A o \in Objects : ~alive /\ fate[o] = "live" /\ SlotsOf(o) = {} ~> fate[o] = "dropped"

-----------------------------------------------------------------------------
(* The inductive invariant, and the abstract specification                 *)

\* A raw number of an argument is in one message, once.
WireInv ==
  /\ \A c \in Calls : \A n \in DOMAIN wire[c] :
       /\ place[wire[c][n]] = "wire" /\ phase[c] # "none"
       /\ \A d \in Calls : \A m \in DOMAIN wire[d] : wire[c][n] = wire[d][m] => c = d /\ n = m
  /\ \A h \in Slots : place[h] = "wire" => \E c \in Calls : \E n \in DOMAIN wire[c] : wire[c][n] = h

OwnerInv ==
  /\ \A h \in Slots : place[h] = "free" <=> obj[h] = NoObj
  /\ \A o \in Objects : fate[o] = "live" <=> strong[o] > 0
  /\ ptr = fin
  /\ ~alive => /\ reach = {}
               /\ open = {}
               /\ \A c \in Calls : phase[c] # "encoding"

Inv == TypeOK /\ WireInv /\ OwnerInv /\ CountIsOwners

AbstractOwners == [o \in Objects |-> OwnersOf(o)]
Abs == INSTANCE BaseArc WITH Handles <- Slots \cup Arcs, owners <- AbstractOwners

\* The Dart and Rust sides together keep the promise of the trait BaseArc.
ImplementsBaseArc == Abs!Spec
=============================================================================
