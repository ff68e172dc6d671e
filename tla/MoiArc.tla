------------------------------- MODULE MoiArc --------------------------------
(***************************************************************************)
(* The "map of id" reference counter of frb_rust/src/generalized_arc/      *)
(* moi_arc.rs, for one type T.  A pool behind one RwLock maps an object id *)
(* to a counter and a std::sync::Arc; a MoiArc holds an id and an Arc of   *)
(* its own; into_raw turns a MoiArc into the bare id that Dart keeps.      *)
(*                                                                         *)
(* Everything under one acquisition of the pool lock is one step.  What    *)
(* happens after the lock is released, or without it, is a step of its     *)
(* own: dropping the pool entry that a decrement removed, and dropping the *)
(* `value` field of a MoiArc, which Rust does only after Drop::drop.       *)
(***************************************************************************)
EXTENDS Naturals, FiniteSets

CONSTANTS Handles,    \* the places a MoiArc or a raw id can live in
          Objects,    \* the values of T that are ever wrapped
          NoObj,      \* "no entry in the pool" / "no object"
          MaxId       \* IdGenerator::MAX_ID (2147483600 in the code)

ASSUME HandlesFinite == IsFiniteSet(Handles)
ASSUME MaxIdPositive == MaxId \in Nat \ {0}
ASSUME NoObjFresh == NoObj \notin Objects

MinId == 1
Ids == MinId .. MaxId

VARIABLES
  next_id,      \* IdGenerator.next_id
  ref_count,    \* ref_count[i]: MoiArcPoolValue.ref_count of entry i
  value,        \* value[i]: the object whose Arc entry i holds, or NoObj
  poison,       \* why the pool's RwLock is poisoned, or "no"
  pc,           \* pc[h]: what handle h is, see HandleStates
  object_id,    \* object_id[h]: the id of handle h
  object,       \* object[h]: the object of h's Arc (of its id, for a raw)
  removed,      \* removed[h]: h took the entry out and has yet to drop it
  fate          \* fate[o]: what has become of object o

poolVars == <<next_id, ref_count, value, poison>>
handleVars == <<pc, object_id, object, removed>>
vars == <<next_id, ref_count, value, poison, pc, object_id, object, removed, fate>>

\* "doomed": the Err(self) that MoiArc::into_inner is about to drop;
\* "dropping": Drop::drop has returned, the `value` field is still there;
\* "freeing": decrement_strong_count of a raw has released the lock.
HandleStates == {"free", "arc", "doomed", "raw", "dropping", "freeing"}
Fates == {"unborn", "live", "dropped", "moved"}
Poisons == {"no", "id_reused", "unwrap_race", "aborted"}

TypeOK ==
  /\ next_id \in Ids
  /\ ref_count \in [Ids -> Nat]
  /\ value \in [Ids -> Objects \cup {NoObj}]
  /\ poison \in Poisons
  /\ pc \in [Handles -> HandleStates]
  /\ object_id \in [Handles -> Ids]
  /\ object \in [Handles -> Objects \cup {NoObj}]
  /\ removed \in [Handles -> BOOLEAN]
  /\ fate \in [Objects -> Fates]

Init ==
  /\ next_id = MinId
  /\ ref_count = [i \in Ids |-> 0]
  /\ value = [i \in Ids |-> NoObj]
  /\ poison = "no"
  /\ pc = [h \in Handles |-> "free"]
  /\ object_id = [h \in Handles |-> MinId]
  /\ object = [h \in Handles |-> NoObj]
  /\ removed = [h \in Handles |-> FALSE]
  /\ fate = [o \in Objects |-> "unborn"]

-----------------------------------------------------------------------------
(* std::sync::Arc: the object is destroyed when its last Arc goes away.    *)

HoldsArc(h) == pc[h] \in {"arc", "doomed", "dropping"}

\* After the step some Arc of o is left: in the pool, in an entry on its way
\* out, or in a handle.
ReferencedNext(o) ==
  \/ \E i \in Ids : value'[i] = o
  \/ \E g \in Handles : object'[g] = o /\ (removed'[g] \/ HoldsArc(g)')

\* The fates after a step: f, and objects that lost their last Arc are dropped.
Settle(f) ==
  fate' = [o \in Objects |->
             IF f[o] = "live" /\ ~ReferencedNext(o) THEN "dropped" ELSE f[o]]

-----------------------------------------------------------------------------
(* The pool, under its lock.                                               *)

Usable == poison = "no"
InPool(i) == value[i] # NoObj

NextId(i) == IF i >= MaxId THEN MinId ELSE i + 1

\* The handle is gone: moved out of, lost in a panic, or completely dropped.
Vanish(h) ==
  /\ pc' = [pc EXCEPT ![h] = "free"]
  /\ object_id' = [object_id EXCEPT ![h] = MinId]
  /\ object' = [object EXCEPT ![h] = NoObj]

\* Faulty variant: off by one, the last owner but one removes the entry.
TookTooEarly(i) == ref_count[i] <= 2

\* decrement_strong_count_raw takes the entry out of the map: its count gets 0.
Took(i) == ref_count[i] = 1

\* Faulty variant: the entry stays in the map when its count reaches zero.
DecrementRawKeepsEntry(i) ==
  /\ ref_count' = [ref_count EXCEPT ![i] = @ - 1]
  /\ UNCHANGED value

DecrementRaw(i) ==
  /\ ref_count' = [ref_count EXCEPT ![i] = @ - 1]
  /\ value' = [value EXCEPT ![i] = IF Took(i) THEN NoObj ELSE @]

-----------------------------------------------------------------------------

\* Faulty variant: no assertion, a used id is given out again.
NewUnasserted(h, o) ==
  /\ Usable /\ pc[h] = "free" /\ fate[o] = "unborn"
  /\ next_id' = NextId(next_id)
  /\ ref_count' = [ref_count EXCEPT ![next_id] = 1]
  /\ value' = [value EXCEPT ![next_id] = o]
  /\ pc' = [pc EXCEPT ![h] = "arc"]
  /\ object_id' = [object_id EXCEPT ![h] = next_id]
  /\ object' = [object EXCEPT ![h] = o]
  /\ UNCHANGED <<poison, removed>>
  /\ Settle([fate EXCEPT ![o] = "live"])

\* MoiArc::new (on a poisoned lock it panics, and so do clone and
\* increment_strong_count, before they change anything).  The insertion comes
\* before `assert!(old_value.is_none())`: when the id is still in use the entry
\* is overwritten, then the assertion panics with the lock held, and no handle
\* is made.
New(h, o) ==
  /\ Usable /\ pc[h] = "free" /\ fate[o] = "unborn"
  /\ next_id' = NextId(next_id)
  /\ ref_count' = [ref_count EXCEPT ![next_id] = 1]
  /\ value' = [value EXCEPT ![next_id] = o]
  /\ IF InPool(next_id)
     THEN /\ poison' = "id_reused"
          /\ UNCHANGED handleVars
     ELSE /\ pc' = [pc EXCEPT ![h] = "arc"]
          /\ object_id' = [object_id EXCEPT ![h] = next_id]
          /\ object' = [object EXCEPT ![h] = o]
          /\ UNCHANGED <<poison, removed>>
  /\ Settle([fate EXCEPT ![o] = "live"])

\* Faulty variant: the copy is not counted.
ShareUncounted(g, h) ==
  /\ Usable /\ pc[h] = "free" /\ InPool(object_id[g])
  /\ pc' = [pc EXCEPT ![h] = pc[g]]
  /\ object_id' = [object_id EXCEPT ![h] = object_id[g]]
  /\ object' = [object EXCEPT ![h] = object[g]]
  /\ UNCHANGED <<next_id, ref_count, value, poison, removed, fate>>

\* h becomes a new owner of the id and object of g, in the form of g.
ShareWith(g, h) ==
  /\ Usable /\ pc[h] = "free" /\ InPool(object_id[g])
  /\ ref_count' = [ref_count EXCEPT ![object_id[g]] = @ + 1]
  /\ pc' = [pc EXCEPT ![h] = pc[g]]
  /\ object_id' = [object_id EXCEPT ![h] = object_id[g]]
  /\ object' = [object EXCEPT ![h] = object[g]]
  /\ UNCHANGED <<next_id, value, poison, removed, fate>>

\* Clone::clone, then increment_strong_count on a raw id (RustArc.clone).
Clone(g, h) == pc[g] = "arc" /\ ShareWith(g, h)
IncrementStrongCount(g, h) == pc[g] = "raw" /\ ShareWith(g, h)

\* Faulty variant: object_id is not taken out, so Drop::drop decrements.
IntoRawStillDrops(h) ==
  /\ Usable /\ pc[h] = "arc"
  /\ DecrementRaw(object_id[h])
  /\ pc' = [pc EXCEPT ![h] = "raw"]
  /\ UNCHANGED <<next_id, poison, object_id, object, removed>>
  /\ Settle(fate)

\* into_raw: the id survives, the Arc of the handle does not.
IntoRaw(h) ==
  /\ poison # "aborted" /\ pc[h] = "arc"
  /\ pc' = [pc EXCEPT ![h] = "raw"]
  /\ UNCHANGED <<poolVars, object_id, object, removed>>
  /\ Settle(fate)

\* from_raw: on a poisoned lock it panics and the id is lost.
FromRaw(h) ==
  /\ poison # "aborted" /\ pc[h] = "raw"
  /\ IF Usable
     THEN /\ InPool(object_id[h])
          /\ pc' = [pc EXCEPT ![h] = "arc"]
          /\ object' = [object EXCEPT ![h] = value[object_id[h]]]
          /\ UNCHANGED object_id
     ELSE Vanish(h)
  /\ UNCHANGED <<poolVars, removed, fate>>

\* try_unwrap with ref_count = 1, also the first half of into_inner: the entry
\* and its Arc go away, then Arc::into_inner(..).unwrap() panics, with the lock
\* held, if yet another Arc of the object exists.
TryUnwrapOk(h) ==
  /\ Usable /\ pc[h] = "arc" /\ Took(object_id[h])
  /\ DecrementRaw(object_id[h])
  /\ Vanish(h)
  /\ UNCHANGED <<next_id, removed>>
  /\ IF ReferencedNext(object[h])
     THEN poison' = "unwrap_race" /\ UNCHANGED fate
     ELSE UNCHANGED poison /\ fate' = [fate EXCEPT ![object[h]] = "moved"]

\* into_inner with ref_count # 1: Err(self), which `.ok()` drops outside the
\* lock.  try_unwrap itself returns the handle as it was.
IntoInnerFails(h) ==
  /\ Usable /\ pc[h] = "arc" /\ InPool(object_id[h]) /\ ~Took(object_id[h])
  /\ pc' = [pc EXCEPT ![h] = "doomed"]
  /\ UNCHANGED <<poolVars, object_id, object, removed, fate>>

\* try_unwrap on a poisoned lock: the panic unwinds into Drop::drop of self,
\* which panics again, and Rust aborts the process.
UnwrapPoisoned(h) ==
  /\ poison \notin {"no", "aborted"} /\ pc[h] = "arc"
  /\ poison' = "aborted"
  /\ UNCHANGED <<next_id, ref_count, value, handleVars, fate>>

\* decrement_strong_count: on a poisoned lock it panics before the decrement.
\* What is left of h, when the lock is released, is `next`.
Decrement(h, next) ==
  /\ poison # "aborted"
  /\ IF Usable
     THEN /\ InPool(object_id[h])
          /\ DecrementRaw(object_id[h])
          /\ removed' = [removed EXCEPT ![h] = Took(object_id[h])]
     ELSE UNCHANGED <<ref_count, value, removed>>
  /\ pc' = [pc EXCEPT ![h] = next]
  /\ UNCHANGED <<next_id, poison, object_id, object, fate>>

\* Drop::drop of a MoiArc, and decrement_strong_count of a raw id (the Dart
\* finalizer, RustArc.dispose).
Drop(h) == pc[h] \in {"arc", "doomed"} /\ Decrement(h, "dropping")
DecrementStrongCount(h) == pc[h] = "raw" /\ Decrement(h, "freeing")

\* `drop(object)` of decrement_strong_count, after `drop(pool)`.
DropEntry(h) ==
  /\ poison # "aborted" /\ removed[h]
  /\ removed' = [removed EXCEPT ![h] = FALSE]
  /\ UNCHANGED <<poolVars, pc, object_id, object>>
  /\ Settle(fate)

\* The end of a drop: the `value` field of a MoiArc goes away.
DropValue(h) ==
  /\ poison # "aborted" /\ pc[h] \in {"dropping", "freeing"} /\ ~removed[h]
  /\ Vanish(h)
  /\ UNCHANGED <<poolVars, removed>>
  /\ Settle(fate)

Next ==
  \E h \in Handles :
    \/ \E o \in Objects : New(h, o)
    \/ \E g \in Handles : Clone(g, h) \/ IncrementStrongCount(g, h)
    \/ IntoRaw(h)
    \/ FromRaw(h)
    \/ TryUnwrapOk(h)
    \/ IntoInnerFails(h)
    \/ UnwrapPoisoned(h)
    \/ Drop(h)
    \/ DecrementStrongCount(h)
    \/ DropEntry(h)
    \/ DropValue(h)

Spec == Init /\ [][Next]_vars

-----------------------------------------------------------------------------
(* Properties                                                              *)

Owns(h) == pc[h] \in {"arc", "doomed", "raw"}
OwnersOf(i) == {h \in Handles : Owns(h) /\ object_id[h] = i}

\* The counter of every entry is the number of its owners, Rust handles and
\* raw ids in Dart alike, and an id without an entry has no owner.  Each
\* operation of moi_arc.rs moves a count and a handle in different statements.
RefCountIsOwners ==
  Usable => \A i \in Ids :
              /\ ref_count[i] = Cardinality(OwnersOf(i))
              /\ InPool(i) <=> OwnersOf(i) # {}

\* An id keeps naming the object it was made for, although ids are reused
\* after MAX_ID: every `map.get(&raw).unwrap()` of a live owner finds an entry
\* and the Arc in it is the owner's own object, also after a panic in
\* try_unwrap has poisoned the pool.
IdNamesItsObject ==
  Usable \/ poison = "unwrap_race" =>
    \A h \in Handles : Owns(h) => value[object_id[h]] = object[h]

\* No access after destruction: whoever can call as_ref, get an Arc through
\* from_raw, or has an Arc still to drop, has an object that is neither dropped
\* nor moved out by another owner's try_unwrap.
NoUseAfterFree ==
  /\ \A h \in Handles : HoldsArc(h) \/ removed[h] => fate[object[h]] = "live"
  /\ Usable => \A h \in Handles : Owns(h) => fate[object[h]] = "live"

\* A handle that is not free has an object, and only a drop in progress has an
\* entry left to drop.
HandleOK ==
  \A h \in Handles :
    /\ pc[h] # "free" => object[h] \in Objects
    /\ removed[h] => pc[h] \in {"dropping", "freeing"}

\* std::sync::Arc seen from here: an object is live exactly while it has an Arc.
Referenced(o) ==
  \/ \E i \in Ids : value[i] = o
  \/ \E h \in Handles : object[h] = o /\ (removed[h] \/ HoldsArc(h))
LiveIffReferenced == \A o \in Objects : fate[o] = "live" <=> Referenced(o)

\* The inductive invariant of the proofs.
Inv ==
  /\ TypeOK
  /\ HandleOK
  /\ LiveIffReferenced
  /\ IdNamesItsObject
  /\ RefCountIsOwners

\* No leak: once every owner is gone and every drop has finished, the object
\* is dropped or moved out (a poisoned pool does leak).
NoLeak ==
  Usable => \A o \in Objects :
    fate[o] = "live" => \E h \in Handles : pc[h] # "free" /\ object[h] = o

\* What moi_arc.rs says in try_unwrap, "Ensure lock is held during all
\* operations to avoid racing conditions", and the test
\* into_inner_when_1_ref_should_succeed: the last owner gets the value.  It
\* does not hold, because another handle's Arc outlives its decrement.
LastOwnerUnwraps == poison # "unwrap_race"

\* Ids are used once, up to MAX_ID objects: `assert!(old_value.is_none())` in
\* MoiArc::new has not failed.
NextIdIsFree == poison # "id_reused"

AbstractOwners == [o \in Objects |-> {h \in Handles : Owns(h) /\ object[h] = o}]

Abs == INSTANCE BaseArc WITH owners <- AbstractOwners

\* The reference counter implements the trait's promise: counts, pool, poisoning
\* and the unlocked ends of a drop are hidden, each step is one of BaseArc's or
\* none, until the generator meets an id that is in use.
ImplementsBaseArc == Abs!Init /\ [][NextIdIsFree' => Abs!Next]_(Abs!arcVars)
=============================================================================
