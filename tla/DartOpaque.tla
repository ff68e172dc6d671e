----------------------------- MODULE DartOpaque ------------------------------
(***************************************************************************)
(* Dart objects that Rust holds (frb_rust/src/dart_opaque).  A DartOpaque  *)
(* is an Arc of a box around a persistent handle of the Dart VM.  The box  *)
(* may be opened and dropped only on the isolate that created it; a drop   *)
(* anywhere else leaks the box on purpose and posts its address to the     *)
(* handler port of that isolate, whose event loop drops it there.          *)
(*                                                                         *)
(* An isolate can dispose the bridge, which closes its handler port, or    *)
(* exit.  The module is the base of DartFn: a call of a Dart closure       *)
(* carries a clone of the closure's DartOpaque through the same port.      *)
(***************************************************************************)
EXTENDS Naturals, Sequences

CONSTANTS Isolates,
          Objects,   \* the Dart objects and closures that are passed to Rust
          Home,      \* the isolate of an object
          Handles,   \* the DartOpaque values that Rust code can hold
          Calls      \* calls of closures, each of which owns one clone

ASSUME OpaqueAssumption ==
  /\ Home \in [Objects -> Isolates]
  /\ Handles \cap Calls = {}

VARIABLES
  alive,    \* the isolates that run
  open,     \* the isolates whose handler port is open
  mail,     \* mail[i]: messages in the handler port of i
  owners,   \* owners[o]: who has a clone of the Arc of o
  raw,      \* the handles that are raw pointers in a reply to Dart
  handle    \* handle[o]: the persistent handle in its box

opaqueVars == <<alive, open, mail, owners, raw, handle>>

\* "posted": the box is leaked and its address is in the mail; "moved":
\* into_inner gave it to Rust code; "leaked": nobody will ever free it.
HandleStates == {"none", "boxed", "posted", "moved", "deleted", "leaked"}

\* DartHandlerPortAction
DropMessage(o) == <<"DartOpaqueDrop", o>>
InvokeMessage(k) == <<"DartFnInvoke", k>>
Messages == {DropMessage(o) : o \in Objects} \cup {InvokeMessage(k) : k \in Calls}

OpaqueTypeOK ==
  /\ alive \subseteq Isolates
  /\ open \subseteq Isolates
  /\ mail \in [Isolates -> Seq(Messages)]
  /\ owners \in [Objects -> SUBSET (Handles \cup Calls)]
  /\ raw \subseteq Handles
  /\ handle \in [Objects -> HandleStates]

OpaqueInit ==
  /\ alive = Isolates
  /\ open = Isolates
  /\ mail = [i \in Isolates |-> <<>>]
  /\ owners = [o \in Objects |-> {}]
  /\ raw = {}
  /\ handle = [o \in Objects |-> "none"]

-----------------------------------------------------------------------------

Unused(x) == \A o \in Objects : x \notin owners[o]

\* Rust code holds h: it is not on its way to Dart.
Holds(o, h) == h \in owners[o] /\ h \notin raw

\* GuardedBox::check_context can be true only on a running isolate.
Contexts(o) == IF Home[o] \in alive THEN BOOLEAN ELSE {FALSE}

\* Channel::post: a closed port refuses.
Post(i, m) == mail' = [mail EXCEPT ![i] = IF i \in open THEN Append(@, m) ELSE @]

\* Faulty variant: the address is posted and the box is dropped as well.
NonCloneDropTwice(o, here) ==
  /\ Post(Home[o], DropMessage(o))
  /\ handle' = [handle EXCEPT ![o] = "deleted"]

\* Faulty variant: the box is leaked and its address is not posted.
NonCloneDropUnposted(o, here) ==
  /\ handle' = [handle EXCEPT ![o] = IF here THEN "deleted" ELSE "posted"]
  /\ UNCHANGED mail

\* DartOpaqueNonClone::drop, with drop_thread_box_persistent_handle_via_port.
NonCloneDrop(o, here) ==
  IF here
    THEN /\ handle' = [handle EXCEPT ![o] = "deleted"]
         /\ UNCHANGED mail
    ELSE /\ Post(Home[o], DropMessage(o))
         /\ handle' = [handle EXCEPT ![o] = IF Home[o] \in open THEN "posted" ELSE "leaked"]

\* Faulty variant: a release that is not the last one drops the inner value.
ReleaseEarly(o, x, here) ==
  /\ owners' = [owners EXCEPT ![o] = @ \ {x}]
  /\ NonCloneDrop(o, here)

\* The drop of an Arc: the last owner drops the inner value.
Release(o, x, here) ==
  /\ owners' = [owners EXCEPT ![o] = @ \ {x}]
  /\ IF owners[o] = {x} THEN NonCloneDrop(o, here) ELSE UNCHANGED <<mail, handle>>

-----------------------------------------------------------------------------

\* An argument of a call: frb_dart_opaque_dart2rust_encode on the isolate of the
\* object, from_raw in the decoder.
Encode(o, h) ==
  /\ Home[o] \in alive /\ handle[o] = "none" /\ Unused(h)
  /\ owners' = [owners EXCEPT ![o] = {h}]
  /\ handle' = [handle EXCEPT ![o] = "boxed"]
  /\ UNCHANGED <<alive, open, mail, raw>>

\* Clone::clone
Clone(o, g, h) ==
  /\ Holds(o, g) /\ Unused(h)
  /\ owners' = [owners EXCEPT ![o] = @ \cup {h}]
  /\ UNCHANGED <<alive, open, mail, raw, handle>>

\* Rust code drops a DartOpaque, on its isolate or on any other thread.
Drop(o, h) ==
  /\ Holds(o, h)
  /\ \E here \in Contexts(o) : Release(o, h, here)
  /\ UNCHANGED <<alive, open, raw>>

\* DartOpaque::into_inner by the sole owner.  On the wrong thread it panics, and
\* unwinding drops the DartOpaqueNonClone.
IntoInner(o, h) ==
  /\ Holds(o, h) /\ owners[o] = {h}
  /\ \E here \in Contexts(o) :
       IF here
         THEN /\ owners' = [owners EXCEPT ![o] = {}]
              /\ handle' = [handle EXCEPT ![o] = "moved"]
              /\ UNCHANGED mail
         ELSE Release(o, h, here)
  /\ UNCHANGED <<alive, open, raw>>

\* The drop of the handle that into_inner returned, which is not Send.
DropInner(o) ==
  /\ handle[o] = "moved" /\ Home[o] \in alive
  /\ handle' = [handle EXCEPT ![o] = "deleted"]
  /\ UNCHANGED <<alive, open, mail, owners, raw>>

\* DartOpaque::encode: back to Dart in a reply to a call of the same isolate.
EncodeToDart(o, h) ==
  /\ Holds(o, h)
  /\ raw' = raw \cup {h}
  /\ UNCHANGED <<alive, open, mail, owners, handle>>

\* frb_dart_opaque_rust2dart_decode: a local handle, then the Arc is dropped.
DecodeInDart(o, h) ==
  /\ h \in owners[o] /\ h \in raw /\ Home[o] \in alive
  /\ raw' = raw \ {h}
  /\ Release(o, h, TRUE)
  /\ UNCHANGED <<alive, open>>

\* DartHandlerPortManager.onData, dartOpaqueDrop: the event loop of the isolate
\* drops the box.
OnDrop(o) ==
  LET i == Home[o] IN
  /\ i \in alive /\ mail[i] # <<>> /\ Head(mail[i]) = DropMessage(o)
  /\ mail' = [mail EXCEPT ![i] = Tail(@)]
  /\ handle' = [handle EXCEPT ![o] = "deleted"]
  /\ UNCHANGED <<alive, open, owners, raw>>

\* A port that closes takes the messages in it along.
ClosePort(i) ==
  /\ open' = open \ {i}
  /\ mail' = [mail EXCEPT ![i] = <<>>]
  /\ handle' = [o \in Objects |-> IF Home[o] = i /\ handle[o] = "posted" THEN "leaked" ELSE handle[o]]

\* PortManager.dispose
Dispose(i) ==
  /\ i \in alive /\ i \in open
  /\ ClosePort(i)
  /\ UNCHANGED <<alive, owners, raw>>

Exit(i) ==
  /\ i \in alive
  /\ alive' = alive \ {i}
  /\ ClosePort(i)
  /\ UNCHANGED <<owners, raw>>

\* The steps that have nothing to do with calls of closures.
OpaqueStep ==
  \E o \in Objects :
    \/ DropInner(o) \/ OnDrop(o)
    \/ \E h \in Handles :
         \/ Encode(o, h) \/ Drop(o, h) \/ IntoInner(o, h)
         \/ EncodeToDart(o, h) \/ DecodeInDart(o, h)
         \/ \E g \in Handles : Clone(o, g, h)

-----------------------------------------------------------------------------
(* Properties                                                              *)

InMail(i, m) == \E n \in DOMAIN mail[i] : mail[i][n] = m

\* Whoever owns a clone finds the persistent handle in its box, also through a
\* raw pointer in a reply or in the mail: it is never deleted under an owner.
NoHandleUnderOwnerDeleted == \A o \in Objects : owners[o] # {} => handle[o] = "boxed"

\* A persistent handle without owners is freed, except when it was moved out or
\* its port closed: until then the address of a leaked box is in the mail, once.
BoxFreedUnlessPortClosed ==
  \A o \in Objects :
    /\ handle[o] = "boxed" => owners[o] # {}
    /\ handle[o] = "leaked" => Home[o] \notin open
    /\ handle[o] = "posted" <=> InMail(Home[o], DropMessage(o))
    /\ \A n, m \in DOMAIN mail[Home[o]] :
         mail[Home[o]][n] = DropMessage(o) /\ mail[Home[o]][m] = DropMessage(o) => n = m
=============================================================================
