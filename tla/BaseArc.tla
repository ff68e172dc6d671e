------------------------------- MODULE BaseArc -------------------------------
(***************************************************************************)
(* What the BaseArc trait (frb_rust/src/generalized_arc/base_arc.rs, with  *)
(* the test-suite base_arc_generate_tests) promises of a shared object:    *)
(* it lives as long as somebody owns it, it is destroyed at most once, and *)
(* its value is handed out only to a sole owner.  An owner is a Rust       *)
(* handle or the raw number that into_raw gave to Dart.  How owners are    *)
(* counted is left to the implementations.                                 *)
(***************************************************************************)
CONSTANTS Handles,    \* the places an owner can live in
          Objects     \* the values that are ever wrapped

VARIABLES owners,     \* owners[o]: the handles that own object o
          fate        \* fate[o]: what has become of o

arcVars == <<owners, fate>>

Fates == {"unborn", "live", "dropped", "moved"}

Init ==
  /\ owners = [o \in Objects |-> {}]
  /\ fate = [o \in Objects |-> "unborn"]

\* A handle owns at most one object.
Unused(h) == \A o \in Objects : h \notin owners[o]

\* BaseArc::new
New(o, h) ==
  /\ fate[o] = "unborn" /\ Unused(h)
  /\ fate' = [fate EXCEPT ![o] = "live"]
  /\ owners' = [owners EXCEPT ![o] = {h}]

\* Clone::clone, increment_strong_count: an owner makes another one.
Share(o, g, h) ==
  /\ g \in owners[o] /\ Unused(h)
  /\ owners' = [owners EXCEPT ![o] = @ \cup {h}]
  /\ UNCHANGED fate

\* into_raw and from_raw on the other side: the object changes hands.
Transfer(o, g, h) ==
  /\ g \in owners[o] /\ Unused(h)
  /\ owners' = [owners EXCEPT ![o] = (@ \ {g}) \cup {h}]
  /\ UNCHANGED fate

\* Drop::drop, decrement_strong_count: the object may outlive its last owner
\* for a moment, or be destroyed with it.
Release(o, h) ==
  /\ h \in owners[o]
  /\ owners' = [owners EXCEPT ![o] = @ \ {h}]
  /\ \/ UNCHANGED fate
     \/ owners[o] = {h} /\ fate[o] = "live" /\ fate' = [fate EXCEPT ![o] = "dropped"]

Destroy(o) ==
  /\ owners[o] = {} /\ fate[o] = "live"
  /\ fate' = [fate EXCEPT ![o] = "dropped"]
  /\ UNCHANGED owners

\* try_unwrap, into_inner: only the sole owner gets the value.
Take(o, h) ==
  /\ owners[o] = {h} /\ fate[o] = "live"
  /\ fate' = [fate EXCEPT ![o] = "moved"]
  /\ owners' = [owners EXCEPT ![o] = {}]

Next ==
  \E o \in Objects :
    \/ Destroy(o)
    \/ \E h \in Handles :
         \/ New(o, h)
         \/ Release(o, h)
         \/ Take(o, h)
         \/ \E g \in Handles : Share(o, g, h) \/ Transfer(o, g, h)

Spec == Init /\ [][Next]_arcVars
=============================================================================
