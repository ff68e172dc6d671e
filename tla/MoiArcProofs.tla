---------------------------- MODULE MoiArcProofs -----------------------------
(***************************************************************************)
(* MoiArc keeps its reference counts exact, for every number of handles,   *)
(* objects and ids, and implements BaseArc: until an id in use is given    *)
(* out again, or for ever where there are no more objects than ids.        *)
(***************************************************************************)
EXTENDS MoiArc, FiniteSetTheorems, TLAPS

(* The owners of an id are a finite set: counting them is meaningful. *)
LEMMA OwnersFinite ==
  ASSUME NEW i
  PROVE  IsFiniteSet(OwnersOf(i))
  BY HandlesFinite, FS_Subset DEF OwnersOf

LEMMA MinIdIsId == MinId \in Ids
  BY MaxIdPositive DEF MinId, Ids

(* A counter of 1 that belongs to an owner says that it is the only owner. *)
LEMMA SoleOwner ==
  ASSUME Inv, Usable, NEW h \in Handles, Owns(h)
  PROVE  /\ InPool(object_id[h])
         /\ ref_count[object_id[h]] \in Nat \ {0}
         /\ Took(object_id[h]) => OwnersOf(object_id[h]) = {h}
  <1> DEFINE i == object_id[h]
  <1>1. i \in Ids /\ h \in OwnersOf(i)
    BY DEF Inv, TypeOK, OwnersOf
  <1>2. InPool(i) /\ ref_count[i] = Cardinality(OwnersOf(i))
    BY <1>1 DEF Inv, RefCountIsOwners
  <1>3. ref_count[i] \in Nat
    BY <1>1 DEF Inv, TypeOK
  <1>4. ref_count[i] # 0
    BY <1>1, <1>2, OwnersFinite, FS_EmptySet
  <1>5. ASSUME Took(i) PROVE OwnersOf(i) = {h}
    <2>1. PICK g : OwnersOf(i) = {g}
      BY <1>2, <1>5, OwnersFinite, FS_Singleton DEF Took
    <2> QED BY <2>1, <1>1
  <1> QED BY <1>2, <1>3, <1>4, <1>5

LEMMA InitInv == Init => Inv
  <1> SUFFICES ASSUME Init PROVE Inv
    OBVIOUS
  <1>1. TypeOK /\ HandleOK
    BY MaxIdPositive DEF Init, TypeOK, HandleOK, Ids, MinId, Poisons, HandleStates, Fates
  <1>2. LiveIffReferenced
    BY NoObjFresh DEF Init, LiveIffReferenced, Referenced, HoldsArc
  <1>3. IdNamesItsObject
    BY DEF Init, IdNamesItsObject, Owns
  <1>4. RefCountIsOwners
    <2>1. \A i : OwnersOf(i) = {}
      BY DEF Init, OwnersOf, Owns
    <2> QED BY <2>1, FS_EmptySet DEF Init, RefCountIsOwners, InPool
  <1> QED BY <1>1, <1>2, <1>3, <1>4 DEF Inv

(* Adding an owner, and taking one away, moves the number of owners by one. *)
LEMMA OwnerAdded ==
  ASSUME NEW i, NEW h, h \notin OwnersOf(i), OwnersOf(i)' = OwnersOf(i) \cup {h}
  PROVE  Cardinality(OwnersOf(i)') = Cardinality(OwnersOf(i)) + 1
  BY OwnersFinite, FS_AddElement

LEMMA OwnerRemoved ==
  ASSUME NEW i, NEW h, h \in OwnersOf(i), OwnersOf(i)' = OwnersOf(i) \ {h}
  PROVE  Cardinality(OwnersOf(i)') = Cardinality(OwnersOf(i)) - 1
  BY OwnersFinite, FS_RemoveElement

(* A step that leaves the owners of an id, its counter and its entry alone
   keeps the counter exact. *)
LEMMA CountKept ==
  ASSUME Inv, Usable, NEW i \in Ids,
         OwnersOf(i)' = OwnersOf(i), ref_count'[i] = ref_count[i], InPool(i)' = InPool(i)
  PROVE  /\ ref_count'[i] = Cardinality(OwnersOf(i)')
         /\ InPool(i)' <=> OwnersOf(i)' # {}
  BY DEF Inv, RefCountIsOwners

-----------------------------------------------------------------------------
(* Each action preserves the invariant. *)

LEMMA NewInv ==
  ASSUME Inv, NEW h \in Handles, NEW o \in Objects, New(h, o)
  PROVE  Inv'
  <1> USE DEF New, Usable, InPool, handleVars
  <1>0. next_id \in Ids /\ next_id' \in Ids
    BY MaxIdPositive DEF Inv, TypeOK, NextId, Ids, MinId
  <1>1. TypeOK'
    BY <1>0 DEF Inv, TypeOK, Settle, HandleStates, Fates, Poisons
  <1>2. HandleOK'
    BY DEF Inv, TypeOK, HandleOK
  <1>3. LiveIffReferenced'
    <2> SUFFICES ASSUME NEW p \in Objects
                 PROVE  (fate'[p] = "live") <=> Referenced(p)'
      BY DEF LiveIffReferenced
    <2>1. Referenced(p)' <=> ReferencedNext(p)
      BY DEF Referenced, ReferencedNext
    <2>2. p # o => (ReferencedNext(p) => Referenced(p))
      BY <1>0 DEF Inv, TypeOK, ReferencedNext, Referenced, HoldsArc
    <2>3. ReferencedNext(o)
      BY <1>0 DEF Inv, TypeOK, ReferencedNext
    <2> QED BY <2>1, <2>2, <2>3 DEF Inv, TypeOK, LiveIffReferenced, Settle
  <1>4. CASE InPool(next_id)
    BY <1>1, <1>2, <1>3, <1>4 DEF Inv, IdNamesItsObject, RefCountIsOwners
  <1>5. CASE ~InPool(next_id)
    <2>0. PICK n \in Ids : n = next_id
      BY <1>0
    <2>1. OwnersOf(n) = {} /\ ref_count[n] = 0
      BY <2>0, <1>5, FS_EmptySet DEF Inv, RefCountIsOwners
    <2>2. IdNamesItsObject'
      BY <1>0, <1>5, <2>0, <2>1 DEF Inv, TypeOK, IdNamesItsObject, Owns, OwnersOf
    <2>3. OwnersOf(n)' = OwnersOf(n) \cup {h}
      BY <1>5, <2>0, <2>1 DEF Inv, TypeOK, Owns, OwnersOf
    <2>4. \A i \in Ids : i # n => OwnersOf(i)' = OwnersOf(i)
      BY <1>5, <2>0 DEF Inv, TypeOK, Owns, OwnersOf
    <2>5. RefCountIsOwners'
      <3> SUFFICES ASSUME NEW i \in Ids
                   PROVE  /\ ref_count'[i] = Cardinality(OwnersOf(i)')
                          /\ InPool(i)' <=> OwnersOf(i)' # {}
        BY DEF RefCountIsOwners
      <3>1. CASE i = n
        <4>1. Cardinality(OwnersOf(n)') = Cardinality({}) + 1
          BY <2>1, <2>3, OwnerAdded
        <4>2. ref_count'[n] = 1 /\ InPool(n)'
          BY <2>0, NoObjFresh DEF Inv, TypeOK
        <4> QED BY <3>1, <4>1, <4>2, <2>3, FS_EmptySet
      <3>2. CASE i # n
        BY <3>2, <2>0, <2>4, CountKept DEF Inv, TypeOK
      <3> QED BY <3>1, <3>2
    <2> QED BY <1>1, <1>2, <1>3, <2>2, <2>5 DEF Inv
  <1> QED BY <1>4, <1>5

LEMMA ShareInv ==
  ASSUME Inv, NEW g \in Handles, NEW h \in Handles,
         pc[g] \in {"arc", "raw"}, ShareWith(g, h)
  PROVE  Inv'
  <1> USE DEF ShareWith
  <1>0. object_id[g] \in Ids /\ h \notin OwnersOf(object_id[g]) /\ Usable'
    BY DEF Inv, TypeOK, OwnersOf, Owns, Usable
  <1>1. TypeOK'
    BY <1>0 DEF Inv, TypeOK
  <1>2. HandleOK'
    BY DEF Inv, TypeOK, HandleOK
  <1>3. LiveIffReferenced'
    BY DEF Inv, TypeOK, HandleOK, LiveIffReferenced, Referenced, HoldsArc
  <1>4. IdNamesItsObject'
    BY DEF Inv, TypeOK, IdNamesItsObject, Owns, Usable
  <1>5. RefCountIsOwners'
    <2> SUFFICES ASSUME NEW i \in Ids
                 PROVE  /\ ref_count'[i] = Cardinality(OwnersOf(i)')
                        /\ InPool(i)' <=> OwnersOf(i)' # {}
      BY DEF RefCountIsOwners
    <2>1. CASE i = object_id[g]
      <3>1. OwnersOf(i)' = OwnersOf(i) \cup {h}
        BY <2>1 DEF Inv, TypeOK, OwnersOf, Owns
      <3>2. Cardinality(OwnersOf(i)') = Cardinality(OwnersOf(i)) + 1
        BY <2>1, <1>0, <3>1, OwnerAdded
      <3> QED BY <2>1, <3>1, <3>2 DEF Inv, TypeOK, RefCountIsOwners, InPool
    <2>2. CASE i # object_id[g]
      <3>1. OwnersOf(i)' = OwnersOf(i)
        BY <2>2 DEF Inv, TypeOK, OwnersOf, Owns
      <3> QED BY <2>2, <3>1, CountKept DEF Inv, TypeOK, InPool
    <2> QED BY <2>1, <2>2
  <1> QED BY <1>1, <1>2, <1>3, <1>4, <1>5 DEF Inv

LEMMA IntoRawInv ==
  ASSUME Inv, NEW h \in Handles, IntoRaw(h)
  PROVE  Inv'
  <1> USE DEF IntoRaw, poolVars
  <1>1. TypeOK'
    BY DEF Inv, TypeOK, Settle, HandleStates, Fates
  <1>2. HandleOK'
    BY DEF Inv, TypeOK, HandleOK
  <1>3. LiveIffReferenced'
    BY DEF Inv, TypeOK, HandleOK, LiveIffReferenced, Referenced, ReferencedNext, HoldsArc, Settle
  <1>4. IdNamesItsObject'
    BY DEF Inv, TypeOK, IdNamesItsObject, Owns, Usable
  <1>5. \A i \in Ids : OwnersOf(i)' = OwnersOf(i)
    BY DEF Inv, TypeOK, OwnersOf, Owns
  <1>6. RefCountIsOwners'
    BY <1>5 DEF Inv, RefCountIsOwners, InPool, Usable
  <1> QED BY <1>1, <1>2, <1>3, <1>4, <1>6 DEF Inv

LEMMA FromRawInv ==
  ASSUME Inv, NEW h \in Handles, FromRaw(h)
  PROVE  Inv'
  <1> USE DEF FromRaw, poolVars, Vanish
  <1>0. Usable => value[object_id[h]] = object[h]
    BY DEF Inv, IdNamesItsObject, Owns
  <1>1. TypeOK'
    BY MinIdIsId DEF Inv, TypeOK, HandleStates
  <1>2. HandleOK'
    BY <1>0 DEF Inv, TypeOK, HandleOK
  <1>3. LiveIffReferenced'
    BY <1>0, NoObjFresh DEF Inv, TypeOK, HandleOK, LiveIffReferenced, Referenced, HoldsArc
  <1>4. CASE ~Usable
    <2>1. IdNamesItsObject'
      BY <1>4 DEF Inv, TypeOK, IdNamesItsObject, Owns, Usable
    <2> QED BY <1>1, <1>2, <1>3, <1>4, <2>1 DEF Inv, RefCountIsOwners, Usable
  <1>5. CASE Usable
    <2>1. IdNamesItsObject'
      BY <1>0, <1>5 DEF Inv, TypeOK, IdNamesItsObject, Owns, Usable
    <2>2. \A i \in Ids : OwnersOf(i)' = OwnersOf(i)
      BY <1>5 DEF Inv, TypeOK, OwnersOf, Owns
    <2>3. RefCountIsOwners'
      BY <1>5, <2>2 DEF Inv, RefCountIsOwners, InPool, Usable
    <2> QED BY <1>1, <1>2, <1>3, <2>1, <2>3 DEF Inv
  <1> QED BY <1>4, <1>5

LEMMA IntoInnerFailsInv ==
  ASSUME Inv, NEW h \in Handles, IntoInnerFails(h)
  PROVE  Inv'
  <1> USE DEF IntoInnerFails, poolVars
  <1>1. TypeOK' /\ HandleOK'
    BY DEF Inv, TypeOK, HandleOK, HandleStates
  <1>2. LiveIffReferenced'
    BY DEF Inv, TypeOK, LiveIffReferenced, Referenced, HoldsArc
  <1>3. IdNamesItsObject'
    BY DEF Inv, TypeOK, IdNamesItsObject, Owns, Usable
  <1>4. \A i \in Ids : OwnersOf(i)' = OwnersOf(i)
    BY DEF Inv, TypeOK, OwnersOf, Owns
  <1>5. RefCountIsOwners'
    BY <1>4 DEF Inv, RefCountIsOwners, InPool, Usable
  <1> QED BY <1>1, <1>2, <1>3, <1>5 DEF Inv

LEMMA UnwrapPoisonedInv ==
  ASSUME Inv, NEW h \in Handles, UnwrapPoisoned(h)
  PROVE  Inv'
  BY DEF Inv, UnwrapPoisoned, handleVars, TypeOK, HandleOK, LiveIffReferenced, Referenced, HoldsArc,
         IdNamesItsObject, RefCountIsOwners, Usable, Poisons

(* Once an owner has left, under the lock, and its count was taken down, the
   counts are exact again and the ids of the others still resolve. *)
LEMMA OwnerLeaves ==
  ASSUME Inv, Usable, NEW h \in Handles, Owns(h), DecrementRaw(object_id[h]),
         \A i \in Ids : OwnersOf(i)' = OwnersOf(i) \ {h},
         \A g \in Handles : Owns(g)' => /\ g # h /\ Owns(g)
                                       /\ object_id'[g] = object_id[g]
                                       /\ object'[g] = object[g]
  PROVE  /\ RefCountIsOwners'
         /\ IdNamesItsObject'
         /\ ref_count' \in [Ids -> Nat]
         /\ value' \in [Ids -> Objects \cup {NoObj}]
  <1> DEFINE j == object_id[h]
  <1> USE DEF DecrementRaw
  <1>1. /\ j \in Ids
        /\ h \in OwnersOf(j)
        /\ InPool(j)
        /\ ref_count[j] \in Nat \ {0}
        /\ Took(j) => OwnersOf(j) = {h}
    BY SoleOwner DEF Inv, TypeOK, OwnersOf
  <1>2. ref_count' \in [Ids -> Nat] /\ value' \in [Ids -> Objects \cup {NoObj}]
    BY <1>1 DEF Inv, TypeOK
  <1>3. RefCountIsOwners'
    <2> SUFFICES ASSUME NEW i \in Ids
                 PROVE  /\ ref_count'[i] = Cardinality(OwnersOf(i)')
                        /\ InPool(i)' <=> OwnersOf(i)' # {}
      BY DEF RefCountIsOwners
    <2>1. CASE i = j
      <3>1. Cardinality(OwnersOf(i)') = Cardinality(OwnersOf(i)) - 1
        BY <2>1, <1>1, OwnerRemoved
      <3>2. ref_count[i] = Cardinality(OwnersOf(i))
        BY DEF Inv, RefCountIsOwners
      <3>3. ref_count'[i] = ref_count[i] - 1
        BY <2>1, <1>1 DEF Inv, TypeOK
      <3>4. CASE Took(j)
        <4>1. OwnersOf(i)' = {}
          BY <3>4, <2>1, <1>1
        <4>2. ~InPool(i)'
          BY <3>4, <2>1, <1>1 DEF Inv, TypeOK, InPool
        <4> QED BY <4>1, <4>2, <3>1, <3>2, <3>3
      <3>5. CASE ~Took(j)
        <4>1. InPool(i)'
          BY <3>5, <2>1, <1>1 DEF Inv, TypeOK, InPool
        <4>2. OwnersOf(i)' # {}
          <5>1. ref_count[i] \in Nat /\ ref_count[i] # 1
            BY <3>5, <2>1, <1>1 DEF Took
          <5>2. Cardinality(OwnersOf(i)') # 0
            BY <5>1, <3>1, <3>2
          <5> QED BY <5>2, FS_EmptySet
        <4> QED BY <4>1, <4>2, <3>1, <3>2, <3>3
      <3> QED BY <3>4, <3>5
    <2>2. CASE i # j
      <3>1. OwnersOf(i)' = OwnersOf(i)
        BY <2>2 DEF OwnersOf
      <3> QED BY <2>2, <3>1, <1>1, CountKept DEF Inv, TypeOK, InPool
    <2> QED BY <2>1, <2>2
  <1>4. IdNamesItsObject'
    <2> SUFFICES ASSUME NEW g \in Handles, Owns(g)'
                 PROVE  value'[object_id'[g]] = object'[g]
      BY DEF IdNamesItsObject
    <2>1. g # h /\ Owns(g) /\ value[object_id[g]] = object[g] /\ object_id[g] \in Ids
      BY DEF Inv, IdNamesItsObject, TypeOK
    <2>2. Took(j) => object_id[g] # j
      BY <2>1, <1>1 DEF OwnersOf
    <2> QED BY <2>1, <2>2, <1>1 DEF Inv, TypeOK
  <1> QED BY <1>2, <1>3, <1>4

LEMMA TryUnwrapOkInv ==
  ASSUME Inv, NEW h \in Handles, TryUnwrapOk(h)
  PROVE  Inv'
  <1> USE DEF TryUnwrapOk, Vanish
  <1>0. Usable /\ Owns(h) /\ object_id[h] \in Ids /\ value[object_id[h]] = object[h]
        /\ object[h] \in Objects
    BY DEF Inv, TypeOK, Owns, IdNamesItsObject, HandleOK
  <1>1. /\ \A i \in Ids : OwnersOf(i)' = OwnersOf(i) \ {h}
        /\ \A g \in Handles : Owns(g)' => /\ g # h /\ Owns(g)
                                          /\ object_id'[g] = object_id[g]
                                          /\ object'[g] = object[g]
    BY DEF Inv, TypeOK, OwnersOf, Owns
  <1>2. /\ RefCountIsOwners'
        /\ IdNamesItsObject'
        /\ ref_count' \in [Ids -> Nat]
        /\ value' \in [Ids -> Objects \cup {NoObj}]
    BY <1>0, <1>1, OwnerLeaves
  <1>3. TypeOK'
    BY <1>2, <1>0, MinIdIsId DEF Inv, TypeOK, HandleStates, Fates, Poisons
  <1>4. HandleOK'
    BY DEF Inv, TypeOK, HandleOK
  <1>5. LiveIffReferenced'
    <2> SUFFICES ASSUME NEW p \in Objects
                 PROVE  (fate'[p] = "live") <=> Referenced(p)'
      BY DEF LiveIffReferenced
    <2>1. Referenced(p)' <=> ReferencedNext(p)
      BY DEF Referenced, ReferencedNext
    <2>2. p # object[h] => (ReferencedNext(p) <=> Referenced(p))
      BY <1>0, NoObjFresh DEF Inv, TypeOK, ReferencedNext, Referenced, HoldsArc, DecrementRaw
    <2>3. Referenced(object[h])
      BY <1>0 DEF Referenced
    <2> QED BY <1>0, <2>1, <2>2, <2>3 DEF Inv, TypeOK, LiveIffReferenced
  <1> QED BY <1>2, <1>3, <1>4, <1>5 DEF Inv

LEMMA DecrementInv ==
  ASSUME Inv, NEW h \in Handles, NEW next,
         \/ pc[h] \in {"arc", "doomed"} /\ next = "dropping"
         \/ pc[h] = "raw" /\ next = "freeing",
         Decrement(h, next)
  PROVE  Inv'
  <1> USE DEF Decrement
  <1>0. object_id[h] \in Ids /\ Owns(h) /\ object[h] \in Objects
    BY DEF Inv, TypeOK, Owns, HandleOK
  <1>1. HandleOK'
    BY DEF Inv, TypeOK, HandleOK
  <1>2. CASE Usable
    <2>0. value[object_id[h]] = object[h]
      BY <1>0, <1>2 DEF Inv, IdNamesItsObject
    <2>1. /\ \A i \in Ids : OwnersOf(i)' = OwnersOf(i) \ {h}
          /\ \A g \in Handles : Owns(g)' => /\ g # h /\ Owns(g)
                                            /\ object_id'[g] = object_id[g]
                                            /\ object'[g] = object[g]
      BY DEF Inv, TypeOK, OwnersOf, Owns
    <2>2. /\ RefCountIsOwners'
          /\ IdNamesItsObject'
          /\ ref_count' \in [Ids -> Nat]
          /\ value' \in [Ids -> Objects \cup {NoObj}]
      BY <1>0, <1>2, <2>1, OwnerLeaves
    <2>3. TypeOK'
      BY <1>2, <2>2 DEF Inv, TypeOK, HandleStates, Took
    <2>4. \A p \in Objects : Referenced(p)' <=> Referenced(p)
      <3> SUFFICES ASSUME NEW p \in Objects PROVE Referenced(p)' <=> Referenced(p)
        OBVIOUS
      <3>1. /\ \A i \in Ids : i # object_id[h] => value'[i] = value[i]
            /\ value'[object_id[h]] = IF Took(object_id[h]) THEN NoObj ELSE object[h]
        BY <1>0, <1>2, <2>0 DEF Inv, TypeOK, DecrementRaw
      <3>2. /\ \A g \in Handles : g # h => removed'[g] = removed[g] /\ (HoldsArc(g)' <=> HoldsArc(g))
            /\ removed'[h] <=> Took(object_id[h])
            /\ ~removed[h]
            /\ HoldsArc(h)' <=> HoldsArc(h)
        BY <1>2 DEF Inv, TypeOK, HandleOK, HoldsArc
      <3>3. CASE p = object[h]
        BY <3>1, <3>2, <3>3, <1>0, <2>0 DEF Referenced
      <3>4. CASE p # object[h]
        BY <3>1, <3>2, <3>4, <1>0, <2>0, NoObjFresh DEF Referenced
      <3> QED BY <3>3, <3>4
    <2>5. LiveIffReferenced'
      BY <2>4 DEF Inv, LiveIffReferenced
    <2> QED BY <1>1, <2>2, <2>3, <2>5 DEF Inv
  <1>3. CASE ~Usable
    <2>1. TypeOK'
      BY <1>3 DEF Inv, TypeOK, HandleStates
    <2>2. \A p \in Objects : (fate[p] = "live" => Referenced(p)') /\ (Referenced(p)' => Referenced(p))
      BY <1>0, <1>3 DEF Inv, TypeOK, HandleOK, LiveIffReferenced, Referenced, HoldsArc
    <2>3. LiveIffReferenced'
      BY <2>2 DEF Inv, LiveIffReferenced
    <2>4. IdNamesItsObject'
      BY <1>3 DEF Inv, TypeOK, IdNamesItsObject, Owns, Usable
    <2> QED BY <1>1, <1>3, <2>1, <2>3, <2>4 DEF Inv, RefCountIsOwners, Usable
  <1> QED BY <1>2, <1>3

LEMMA DropEntryInv ==
  ASSUME Inv, NEW h \in Handles, DropEntry(h)
  PROVE  Inv'
  <1> USE DEF DropEntry, poolVars
  <1>1. TypeOK' /\ HandleOK'
    BY DEF Inv, TypeOK, HandleOK, Settle, Fates
  <1>2. LiveIffReferenced'
    BY DEF Inv, TypeOK, HandleOK, LiveIffReferenced, Referenced, ReferencedNext, HoldsArc, Settle
  <1>3. IdNamesItsObject'
    BY DEF Inv, IdNamesItsObject, Owns, Usable
  <1>4. \A i \in Ids : OwnersOf(i)' = OwnersOf(i)
    BY DEF OwnersOf, Owns
  <1>5. RefCountIsOwners'
    BY <1>4 DEF Inv, RefCountIsOwners, InPool, Usable
  <1> QED BY <1>1, <1>2, <1>3, <1>5 DEF Inv

LEMMA DropValueInv ==
  ASSUME Inv, NEW h \in Handles, DropValue(h)
  PROVE  Inv'
  <1> USE DEF DropValue, poolVars, Vanish
  <1>1. TypeOK' /\ HandleOK'
    BY MaxIdPositive DEF Inv, TypeOK, HandleOK, Settle, Fates, HandleStates, Ids, MinId
  <1>2. LiveIffReferenced'
    BY NoObjFresh DEF Inv, TypeOK, HandleOK, LiveIffReferenced, Referenced, ReferencedNext, HoldsArc, Settle
  <1>3. IdNamesItsObject'
    BY DEF Inv, TypeOK, IdNamesItsObject, Owns, Usable
  <1>4. \A i \in Ids : OwnersOf(i)' = OwnersOf(i)
    BY DEF Inv, TypeOK, OwnersOf, Owns
  <1>5. RefCountIsOwners'
    BY <1>4 DEF Inv, RefCountIsOwners, InPool, Usable
  <1> QED BY <1>1, <1>2, <1>3, <1>5 DEF Inv

LEMMA NextInv == Inv /\ [Next]_vars => Inv'
  <1> SUFFICES ASSUME Inv, [Next]_vars PROVE Inv'
    OBVIOUS
  <1>1. CASE UNCHANGED vars
    <2>1. TypeOK' /\ HandleOK' /\ LiveIffReferenced'
      BY <1>1 DEF vars, Inv, TypeOK, HandleOK, LiveIffReferenced, Referenced, HoldsArc
    <2>2. IdNamesItsObject'
      BY <1>1 DEF vars, Inv, IdNamesItsObject, Owns, Usable
    <2>3. RefCountIsOwners'
      BY <1>1 DEF vars, Inv, RefCountIsOwners, OwnersOf, Owns, InPool, Usable
    <2> QED BY <2>1, <2>2, <2>3 DEF Inv
  <1>2. ASSUME Next PROVE Inv'
    <2>1. PICK h \in Handles :
            \/ \E o \in Objects : New(h, o)
            \/ \E g \in Handles : Clone(g, h) \/ IncrementStrongCount(g, h)
            \/ IntoRaw(h) \/ FromRaw(h) \/ TryUnwrapOk(h) \/ IntoInnerFails(h)
            \/ UnwrapPoisoned(h) \/ Drop(h) \/ DecrementStrongCount(h)
            \/ DropEntry(h) \/ DropValue(h)
      BY <1>2 DEF Next
    <2>2. CASE \E o \in Objects : New(h, o)
      BY <2>2, NewInv
    <2>3. CASE \E g \in Handles : Clone(g, h) \/ IncrementStrongCount(g, h)
      BY <2>3, ShareInv DEF Clone, IncrementStrongCount
    <2>4. CASE Drop(h) \/ DecrementStrongCount(h)
      BY <2>4, DecrementInv DEF Drop, DecrementStrongCount
    <2> QED BY <2>1, <2>2, <2>3, <2>4, IntoRawInv, FromRawInv, TryUnwrapOkInv, IntoInnerFailsInv,
               UnwrapPoisonedInv, DropEntryInv, DropValueInv
  <1> QED BY <1>1, <1>2

-----------------------------------------------------------------------------

(* Every reachable state of the pool satisfies the invariant: types, handles,
   live objects, ids and counts. *)
THEOREM Invariance == Spec => []Inv
  BY InitInv, NextInv, PTL DEF Spec

(* moi_arc.rs keeps ref_count equal to the number of owners. *)
THEOREM RefCountExact == Spec => []RefCountIsOwners
  <1>1. Inv => RefCountIsOwners
    BY DEF Inv
  <1> QED BY <1>1, Invariance, PTL

(* The id of an owner is never taken over by another object. *)
THEOREM IdStable == Spec => []IdNamesItsObject
  <1>1. Inv => IdNamesItsObject
    BY DEF Inv
  <1> QED BY <1>1, Invariance, PTL

(* No owner and no half-finished drop sees a destroyed object. *)
THEOREM Safe == Spec => []NoUseAfterFree
  <1>1. Inv => NoUseAfterFree
    <2> SUFFICES ASSUME Inv, NEW h \in Handles
                 PROVE  /\ HoldsArc(h) \/ removed[h] => fate[object[h]] = "live"
                        /\ Usable /\ Owns(h) => fate[object[h]] = "live"
      BY DEF NoUseAfterFree
    <2>1. HoldsArc(h) \/ removed[h] => fate[object[h]] = "live"
      BY DEF Inv, HandleOK, HoldsArc, LiveIffReferenced, Referenced
    <2>2. Usable /\ Owns(h) => fate[object[h]] = "live"
      BY DEF Inv, TypeOK, HandleOK, Owns, IdNamesItsObject, LiveIffReferenced, Referenced
    <2> QED BY <2>1, <2>2
  <1> QED BY <1>1, Invariance, PTL

(* An object without owners and without a drop in progress is gone. *)
THEOREM Leakless == Spec => []NoLeak
  <1>1. Inv => NoLeak
    <2> SUFFICES ASSUME Inv, Usable, NEW o \in Objects, fate[o] = "live"
                 PROVE  \E h \in Handles : pc[h] # "free" /\ object[h] = o
      BY DEF NoLeak
    <2>1. Referenced(o)
      BY DEF Inv, LiveIffReferenced
    <2>2. CASE \E i \in Ids : value[i] = o
      <3>1. PICK i \in Ids : value[i] = o
        BY <2>2
      <3>2. PICK h \in Handles : Owns(h) /\ object_id[h] = i
        BY <3>1, NoObjFresh DEF Inv, RefCountIsOwners, InPool, OwnersOf
      <3> QED BY <3>1, <3>2 DEF Inv, IdNamesItsObject, Owns
    <2>3. CASE \E h \in Handles : object[h] = o /\ (removed[h] \/ HoldsArc(h))
      BY <2>3 DEF Inv, HandleOK, HoldsArc
    <2> QED BY <2>1, <2>2, <2>3 DEF Referenced
  <1> QED BY <1>1, Invariance, PTL

-----------------------------------------------------------------------------
(* MoiArc implements BaseArc. *)

(* What a step does to the owners as BaseArc sees them: nothing, one goes, or
   one comes. *)
LEMMA OwnersSame ==
  ASSUME \A g \in Handles : (Owns(g)' <=> Owns(g)) /\ (Owns(g) => object'[g] = object[g])
  PROVE  AbstractOwners' = AbstractOwners
  BY DEF AbstractOwners

LEMMA OwnerGoes ==
  ASSUME NEW h \in Handles, Owns(h), ~Owns(h)', object[h] \in Objects,
         \A g \in Handles \ {h} : (Owns(g)' <=> Owns(g)) /\ object'[g] = object[g]
  PROVE  /\ h \in AbstractOwners[object[h]]
         /\ AbstractOwners' = [AbstractOwners EXCEPT ![object[h]] = @ \ {h}]
  BY DEF AbstractOwners

LEMMA OwnerComes ==
  ASSUME NEW h \in Handles, NEW o \in Objects, ~Owns(h), Owns(h)', object'[h] = o,
         \A g \in Handles \ {h} : (Owns(g)' <=> Owns(g)) /\ object'[g] = object[g]
  PROVE  /\ Abs!Unused(h)
         /\ AbstractOwners' = [AbstractOwners EXCEPT ![o] = @ \cup {h}]
  BY DEF AbstractOwners, Abs!Unused

(* A handle leaves its owner's state while the fates stay: a Release. *)
LEMMA Releases ==
  ASSUME Inv, NEW h \in Handles, Owns(h), ~Owns(h)', UNCHANGED fate,
         \A g \in Handles \ {h} : (Owns(g)' <=> Owns(g)) /\ object'[g] = object[g]
  PROVE  Abs!Next
  <1>1. object[h] \in Objects
    BY DEF Inv, HandleOK, Owns
  <1>2. Abs!Release(object[h], h)
    BY <1>1, OwnerGoes DEF Abs!Release
  <1> QED BY <1>1, <1>2 DEF Abs!Next

(* A handle that owns nothing lets go of its last Arc: the object is destroyed
   if nobody is left, and then it has no owner either. *)
LEMMA Destroys ==
  ASSUME Inv, NEW o \in Objects, Usable \/ poison = "unwrap_race", UNCHANGED value, Settle(fate),
         \A p \in Objects \ {o} : Referenced(p) => ReferencedNext(p),
         \A g \in Handles : (Owns(g)' <=> Owns(g)) /\ (Owns(g) => object'[g] = object[g])
  PROVE  Abs!Next \/ UNCHANGED (Abs!arcVars)
  <1>1. AbstractOwners' = AbstractOwners
    BY OwnersSame
  <1>2. \A p \in Objects \ {o} : fate'[p] = fate[p]
    BY DEF Inv, LiveIffReferenced, Settle
  <1>3. fate \in [Objects -> Fates] /\ fate' = [p \in Objects |-> fate'[p]]
    BY DEF Inv, TypeOK, Settle
  <1>4. CASE fate'[o] = fate[o]
    <2>1. fate' = fate
      BY <1>2, <1>3, <1>4
    <2> QED BY <1>1, <2>1 DEF Abs!arcVars
  <1>5. CASE fate'[o] # fate[o]
    <2>1. fate[o] = "live" /\ ~ReferencedNext(o) /\ fate'[o] = "dropped"
      BY <1>5 DEF Settle
    <2>2. fate' = [fate EXCEPT ![o] = "dropped"]
      BY <1>2, <1>3, <2>1
    <2>3. \A g \in Handles : ~(Owns(g) /\ object[g] = o)
      BY <2>1 DEF Inv, TypeOK, IdNamesItsObject, ReferencedNext
    <2>4. AbstractOwners[o] = {}
      BY <2>3 DEF AbstractOwners
    <2>5. Abs!Destroy(o)
      BY <1>1, <2>1, <2>2, <2>4 DEF Abs!Destroy
    <2> QED BY <2>5 DEF Abs!Next
  <1> QED BY <1>4, <1>5

LEMMA NewRefines ==
  ASSUME Inv, NEW h \in Handles, NEW o \in Objects, New(h, o), NextIdIsFree'
  PROVE  Abs!Next
  <1> USE DEF New, Usable
  <1>0. ~InPool(next_id) /\ next_id \in Ids
    BY DEF NextIdIsFree, Inv, TypeOK
  <1>1. \A g \in Handles : ~(Owns(g) /\ object[g] = o)
    BY DEF Inv, TypeOK, IdNamesItsObject, LiveIffReferenced, Referenced
  <1>2. AbstractOwners[o] = {}
    BY <1>1 DEF AbstractOwners
  <1>3. ~Owns(h) /\ Owns(h)' /\ object'[h] = o
    BY <1>0 DEF Inv, TypeOK, Owns
  <1>4. \A g \in Handles \ {h} : (Owns(g)' <=> Owns(g)) /\ object'[g] = object[g]
    BY <1>0 DEF Inv, TypeOK, Owns
  <1>5. Abs!Unused(h) /\ AbstractOwners' = [AbstractOwners EXCEPT ![o] = {h}]
    <2>1. Abs!Unused(h) /\ AbstractOwners' = [AbstractOwners EXCEPT ![o] = @ \cup {h}]
      BY <1>3, <1>4, OwnerComes
    <2> QED BY <1>2, <2>1
  <1>6. fate' = [fate EXCEPT ![o] = "live"]
    <2>1. ReferencedNext(o)
      BY <1>0 DEF Inv, TypeOK, ReferencedNext
    <2>2. \A p \in Objects \ {o} : Referenced(p) => ReferencedNext(p)
      BY <1>0, NoObjFresh DEF Inv, TypeOK, HandleOK, InPool, Referenced, ReferencedNext, HoldsArc
    <2> QED BY <2>1, <2>2 DEF Inv, TypeOK, LiveIffReferenced, Settle
  <1>7. Abs!New(o, h)
    BY <1>5, <1>6 DEF Abs!New
  <1> QED BY <1>7 DEF Abs!Next

LEMMA ShareRefines ==
  ASSUME Inv, NEW g \in Handles, NEW h \in Handles, pc[g] \in {"arc", "raw"}, ShareWith(g, h)
  PROVE  Abs!Next
  <1> USE DEF ShareWith
  <1>1. object[g] \in Objects /\ g \in AbstractOwners[object[g]]
    BY DEF Inv, HandleOK, Owns, AbstractOwners
  <1>2. Abs!Unused(h) /\ AbstractOwners' = [AbstractOwners EXCEPT ![object[g]] = @ \cup {h}]
    <2>1. ~Owns(h) /\ Owns(h)' /\ object'[h] = object[g]
      BY DEF Inv, TypeOK, Owns
    <2>2. \A k \in Handles \ {h} : (Owns(k)' <=> Owns(k)) /\ object'[k] = object[k]
      BY DEF Inv, TypeOK, Owns
    <2> QED BY <1>1, <2>1, <2>2, OwnerComes
  <1>3. Abs!Share(object[g], g, h)
    BY <1>1, <1>2 DEF Abs!Share
  <1> QED BY <1>1, <1>3 DEF Abs!Next

LEMMA IntoRawRefines ==
  ASSUME Inv, NEW h \in Handles, IntoRaw(h), NextIdIsFree'
  PROVE  Abs!Next \/ UNCHANGED (Abs!arcVars)
  <1> USE DEF IntoRaw, poolVars
  <1>1. object[h] \in Objects /\ (Usable \/ poison = "unwrap_race")
    BY DEF Inv, TypeOK, HandleOK, NextIdIsFree, Usable, Poisons
  <1>2. \A p \in Objects \ {object[h]} : Referenced(p) => ReferencedNext(p)
    BY DEF Inv, TypeOK, Referenced, ReferencedNext, HoldsArc
  <1>3. \A g \in Handles : (Owns(g)' <=> Owns(g)) /\ (Owns(g) => object'[g] = object[g])
    BY DEF Inv, TypeOK, Owns
  <1> QED BY <1>1, <1>2, <1>3, Destroys

LEMMA FromRawRefines ==
  ASSUME Inv, NEW h \in Handles, FromRaw(h)
  PROVE  Abs!Next \/ UNCHANGED (Abs!arcVars)
  <1> USE DEF FromRaw
  <1>1. CASE Usable
    <2>1. \A g \in Handles : (Owns(g)' <=> Owns(g)) /\ (Owns(g) => object'[g] = object[g])
      BY <1>1 DEF Inv, TypeOK, Owns, IdNamesItsObject
    <2> QED BY <2>1, OwnersSame DEF Abs!arcVars
  <1>2. CASE ~Usable
    <2>1. Owns(h) /\ ~Owns(h)'
      BY <1>2 DEF Inv, TypeOK, Owns, Vanish
    <2>2. \A g \in Handles \ {h} : (Owns(g)' <=> Owns(g)) /\ object'[g] = object[g]
      BY <1>2 DEF Inv, TypeOK, Owns, Vanish
    <2> QED BY <2>1, <2>2, Releases
  <1> QED BY <1>1, <1>2

LEMMA TryUnwrapOkRefines ==
  ASSUME Inv, NEW h \in Handles, TryUnwrapOk(h)
  PROVE  Abs!Next
  <1> USE DEF TryUnwrapOk
  <1> DEFINE o == object[h]
  <1>1. /\ Usable /\ Owns(h) /\ ~Owns(h)' /\ o \in Objects
        /\ object_id[h] \in Ids /\ value[object_id[h]] = o
    BY DEF Inv, TypeOK, HandleOK, IdNamesItsObject, Owns, Vanish
  <1>2. \A g \in Handles \ {h} : (Owns(g)' <=> Owns(g)) /\ object'[g] = object[g]
    BY DEF Inv, TypeOK, Owns, Vanish
  <1>3. CASE ReferencedNext(o)
    BY <1>1, <1>2, <1>3, Releases
  <1>4. CASE ~ReferencedNext(o)
    <2>1. AbstractOwners' = [AbstractOwners EXCEPT ![o] = @ \ {h}] /\ h \in AbstractOwners[o]
      BY <1>1, <1>2, OwnerGoes
    <2>2. ASSUME NEW g \in Handles, Owns(g), object[g] = o PROVE g = h
      <3>1. object_id[g] \in Ids /\ value[object_id[g]] = o
        BY <2>2, <1>1 DEF Inv, TypeOK, IdNamesItsObject
      <3>2. object_id[g] # object_id[h] => value'[object_id[g]] = o
        BY <3>1, <1>1 DEF DecrementRaw, Inv, TypeOK
      <3>3. object_id[g] = object_id[h]
        BY <3>1, <3>2, <1>4 DEF ReferencedNext
      <3> QED BY <3>3, <2>2, <1>1, SoleOwner DEF OwnersOf
    <2>3. AbstractOwners[o] = {h}
      BY <1>1, <2>1, <2>2 DEF AbstractOwners
    <2>4. fate[o] = "live" /\ fate' = [fate EXCEPT ![o] = "moved"]
      BY <1>1, <1>4 DEF Inv, LiveIffReferenced, Referenced
    <2>5. Abs!Take(o, h)
      BY <2>1, <2>3, <2>4, <1>1 DEF Abs!Take
    <2> QED BY <1>1, <2>5 DEF Abs!Next
  <1> QED BY <1>3, <1>4

LEMMA DecrementRefines ==
  ASSUME Inv, NEW h \in Handles, Drop(h) \/ DecrementStrongCount(h)
  PROVE  Abs!Next
  <1>1. Owns(h) /\ ~Owns(h)' /\ UNCHANGED fate
    BY DEF Drop, DecrementStrongCount, Decrement, Inv, TypeOK, Owns
  <1>2. \A g \in Handles \ {h} : (Owns(g)' <=> Owns(g)) /\ object'[g] = object[g]
    BY DEF Drop, DecrementStrongCount, Decrement, Inv, TypeOK, Owns
  <1> QED BY <1>1, <1>2, Releases

LEMMA DropRestRefines ==
  ASSUME Inv, NEW h \in Handles, DropEntry(h) \/ DropValue(h), NextIdIsFree'
  PROVE  Abs!Next \/ UNCHANGED (Abs!arcVars)
  <1> USE DEF DropEntry, DropValue, poolVars, Vanish
  <1>1. /\ object[h] \in Objects /\ (Usable \/ poison = "unwrap_race")
        /\ pc[h] \in {"dropping", "freeing"} /\ UNCHANGED value /\ Settle(fate)
    BY DEF Inv, TypeOK, HandleOK, NextIdIsFree, Usable, Poisons
  <1>2. \A p \in Objects \ {object[h]} : Referenced(p) => ReferencedNext(p)
    BY DEF Inv, TypeOK, Referenced, ReferencedNext, HoldsArc
  <1>3. \A g \in Handles : (Owns(g)' <=> Owns(g)) /\ (Owns(g) => object'[g] = object[g])
    BY <1>1 DEF Inv, TypeOK, Owns
  <1> QED BY <1>1, <1>2, <1>3, Destroys

LEMMA StepRefines ==
  ASSUME Inv, [Next]_vars, NextIdIsFree'
  PROVE  Abs!Next \/ UNCHANGED (Abs!arcVars)
  <1>1. CASE UNCHANGED vars
    BY <1>1, OwnersSame DEF vars, Owns, Abs!arcVars
  <1>2. ASSUME Next PROVE Abs!Next \/ UNCHANGED (Abs!arcVars)
    <2>1. PICK h \in Handles :
            \/ \E o \in Objects : New(h, o)
            \/ \E g \in Handles : Clone(g, h) \/ IncrementStrongCount(g, h)
            \/ IntoRaw(h) \/ FromRaw(h) \/ TryUnwrapOk(h) \/ IntoInnerFails(h)
            \/ UnwrapPoisoned(h) \/ Drop(h) \/ DecrementStrongCount(h)
            \/ DropEntry(h) \/ DropValue(h)
      BY <1>2 DEF Next
    <2>2. CASE \E o \in Objects : New(h, o)
      BY <2>2, NewRefines
    <2>3. CASE \E g \in Handles : Clone(g, h) \/ IncrementStrongCount(g, h)
      BY <2>3, ShareRefines DEF Clone, IncrementStrongCount
    <2>4. CASE IntoInnerFails(h) \/ UnwrapPoisoned(h)
      <3>1. \A g \in Handles : (Owns(g)' <=> Owns(g)) /\ (Owns(g) => object'[g] = object[g])
        BY <2>4 DEF IntoInnerFails, UnwrapPoisoned, handleVars, Inv, TypeOK, Owns
      <3>2. UNCHANGED fate
        BY <2>4 DEF IntoInnerFails, UnwrapPoisoned
      <3> QED BY <3>1, <3>2, OwnersSame DEF Abs!arcVars
    <2> QED BY <2>1, <2>2, <2>3, <2>4, IntoRawRefines, FromRawRefines, TryUnwrapOkRefines,
               DecrementRefines, DropRestRefines
  <1> QED BY <1>1, <1>2

(* The counted pool with its unlocked drops implements the trait, for as long as
   the generator does not meet an id that is in use. *)
THEOREM Refinement == Spec => ImplementsBaseArc
  <1>1. Init => Abs!Init
    BY DEF Init, Abs!Init, AbstractOwners, Owns
  <1>2. Inv /\ [Next]_vars => [NextIdIsFree' => Abs!Next]_(Abs!arcVars)
    BY StepRefines
  <1> QED BY <1>1, <1>2, Invariance, PTL DEF Spec, ImplementsBaseArc

-----------------------------------------------------------------------------
(* Ids that are never reused                                                 *)

\* What the generator gives out as long as it has not wrapped: ids in their
\* order, one for each object that was ever wrapped.
Born == {o \in Objects : fate[o] # "unborn"}
MintInv ==
  /\ NextIdIsFree
  /\ Cardinality(Born) < MaxId =>
       /\ next_id = Cardinality(Born) + 1
       /\ \A i \in Ids : InPool(i) => i < next_id

(* No step but New brings an object to life, moves the generator, fills an    *)
(* entry or finds an id in use.                                               *)
LEMMA OnlyNewMints ==
  ASSUME Inv, [Next]_vars, \A h \in Handles, o \in Objects : ~New(h, o)
  PROVE  /\ Born' = Born /\ next_id' = next_id
         /\ \A i \in Ids : InPool(i)' => InPool(i)
         /\ NextIdIsFree => NextIdIsFree'
  <1> SUFFICES /\ \A o \in Objects : fate'[o] = "unborn" <=> fate[o] = "unborn"
               /\ next_id' = next_id
               /\ \A i \in Ids : value'[i] # NoObj => value[i] # NoObj
               /\ NextIdIsFree => NextIdIsFree'
    BY DEF Born, InPool
  <1> USE DEF NextIdIsFree
  <1>1. ASSUME Settle(fate), NEW o \in Objects PROVE fate'[o] = "unborn" <=> fate[o] = "unborn"
    BY <1>1 DEF Settle
  <1>2. ASSUME NEW h \in Handles, NEW g \in Handles,
               Clone(g, h) \/ IncrementStrongCount(g, h) \/ IntoRaw(h) \/ FromRaw(h)
                 \/ IntoInnerFails(h) \/ UnwrapPoisoned(h) \/ DropEntry(h) \/ DropValue(h)
        PROVE  /\ (UNCHANGED fate \/ Settle(fate)) /\ next_id' = next_id /\ value' = value
               /\ NextIdIsFree => NextIdIsFree'
    BY <1>2 DEF Clone, IncrementStrongCount, ShareWith, IntoRaw, FromRaw, IntoInnerFails,
                UnwrapPoisoned, DropEntry, DropValue, poolVars, Vanish
  <1>3. ASSUME NEW h \in Handles, Drop(h) \/ DecrementStrongCount(h)
        PROVE  /\ UNCHANGED <<fate, next_id>> /\ (NextIdIsFree => NextIdIsFree')
               /\ \A i \in Ids : value'[i] # NoObj => value[i] # NoObj
    BY <1>3 DEF Drop, DecrementStrongCount, Decrement, DecrementRaw, Inv, TypeOK
  <1>4. ASSUME NEW h \in Handles, TryUnwrapOk(h)
        PROVE  /\ \A o \in Objects : fate'[o] = "unborn" <=> fate[o] = "unborn"
               /\ next_id' = next_id /\ (NextIdIsFree => NextIdIsFree')
               /\ \A i \in Ids : value'[i] # NoObj => value[i] # NoObj
    <2>1. object[h] \in Objects /\ fate[object[h]] = "live"
      BY <1>4 DEF TryUnwrapOk, Inv, HandleOK, LiveIffReferenced, Referenced, HoldsArc
    <2>2. UNCHANGED fate \/ fate' = [fate EXCEPT ![object[h]] = "moved"]
      BY <1>4 DEF TryUnwrapOk
    <2>3. \A o \in Objects : fate'[o] = "unborn" <=> fate[o] = "unborn"
      BY <2>1, <2>2 DEF Inv, TypeOK
    <2> QED BY <1>4, <2>3 DEF TryUnwrapOk, DecrementRaw, Inv, TypeOK
  <1>5. CASE UNCHANGED vars
    BY <1>5 DEF vars
  <1> QED BY <1>1, <1>2, <1>3, <1>4, <1>5 DEF Next

(* In a pool that never wraps more than MAX_ID objects, `assert!(old_value.   *)
(* is_none())` in MoiArc::new holds: ids are given out once, in their order.  *)
THEOREM IdsSuffice ==
  IsFiniteSet(Objects) /\ Cardinality(Objects) <= MaxId => (Spec => []MintInv)
  <1> SUFFICES ASSUME IsFiniteSet(Objects), Cardinality(Objects) <= MaxId PROVE Spec => []MintInv
    OBVIOUS
  <1>0. /\ IsFiniteSet(Born) /\ Cardinality(Born) \in Nat
        /\ Cardinality(Objects) \in Nat /\ MaxId \in Nat \ {0}
        /\ \A o \in Objects \ Born : Cardinality(Born) < MaxId
    <2>1. Born \subseteq Objects /\ MaxId \in Nat \ {0}
      BY MaxIdPositive DEF Born
    <2>2. /\ IsFiniteSet(Born) /\ Cardinality(Born) \in Nat /\ Cardinality(Objects) \in Nat
          /\ Cardinality(Born) <= Cardinality(Objects)
          /\ Cardinality(Born) = Cardinality(Objects) => Born = Objects
      BY <2>1, FS_Subset, FS_CardinalityType
    <2> QED BY <2>1, <2>2
  <1>1. Init => MintInv
    <2> SUFFICES ASSUME Init PROVE MintInv
      OBVIOUS
    <2>1. Born = {}
      BY DEF Init, Born
    <2> QED BY <2>1, FS_EmptySet DEF Init, MintInv, NextIdIsFree, MinId, InPool
  <1>2. Inv /\ MintInv /\ [Next]_vars => MintInv'
    <2> SUFFICES ASSUME Inv, MintInv, [Next]_vars PROVE MintInv'
      OBVIOUS
    <2>1. CASE \A h \in Handles, o \in Objects : ~New(h, o)
      BY <2>1, OnlyNewMints DEF MintInv
    <2>2. ASSUME NEW h \in Handles, NEW o \in Objects, New(h, o) PROVE MintInv'
      <3>1. fate[o] = "unborn" /\ o \notin Born
        BY <2>2 DEF New, Born
      <3>2. /\ next_id = Cardinality(Born) + 1 /\ next_id \in Ids /\ ~InPool(next_id)
            /\ Cardinality(Born) < MaxId
        BY <1>0, <3>1 DEF MintInv, Inv, TypeOK
      <3>3. Born' = Born \cup {o}
        BY <2>2, <3>1 DEF New, Settle, Born, Inv, TypeOK
      <3>4. Cardinality(Born') = Cardinality(Born) + 1
        BY <1>0, <3>1, <3>3, FS_AddElement
      <3>5. NextIdIsFree'
        BY <2>2, <3>2 DEF New, MintInv, NextIdIsFree
      <3>6. \A i \in Ids : InPool(i)' => InPool(i) \/ i = next_id
        BY <2>2 DEF New, InPool, Inv, TypeOK
      <3>7. next_id' = NextId(next_id)
        BY <2>2 DEF New
      <3>8. ASSUME Cardinality(Born') < MaxId
            PROVE  next_id' = Cardinality(Born') + 1 /\ \A i \in Ids : InPool(i)' => i < next_id'
        <4>1. next_id' = next_id + 1 /\ next_id' = Cardinality(Born') + 1
          BY <1>0, <3>2, <3>4, <3>7, <3>8 DEF NextId
        <4>2. \A i \in Ids : InPool(i) => i < next_id
          BY <3>2 DEF MintInv
        <4> QED BY <1>0, <3>2, <3>6, <4>1, <4>2 DEF Ids, MinId
      <3> QED BY <3>5, <3>8 DEF MintInv
    <2> QED BY <2>1, <2>2
  <1> QED BY <1>1, <1>2, Invariance, PTL DEF Spec

(* Such a pool implements the trait BaseArc without any reservation.          *)
THEOREM RefinementWithoutReuse ==
  IsFiniteSet(Objects) /\ Cardinality(Objects) <= MaxId => (Spec => Abs!Spec)
  <1> SUFFICES ASSUME IsFiniteSet(Objects), Cardinality(Objects) <= MaxId PROVE Spec => Abs!Spec
    OBVIOUS
  <1>1. MintInv' /\ [NextIdIsFree' => Abs!Next]_(Abs!arcVars) => [Abs!Next]_(Abs!arcVars)
    BY DEF MintInv
  <1>2. Spec => []MintInv
    BY IdsSuffice
  <1> QED BY <1>1, <1>2, Refinement, PTL DEF ImplementsBaseArc, Abs!Spec
-----------------------------------------------------------------------------
(* The one thing that can go wrong in try_unwrap                           *)

\* An object has one entry at most, and none while its last one is being dropped.
OneEntry ==
  /\ \A i, j \in Ids : InPool(i) /\ value[i] = value[j] => i = j
  /\ \A h \in Handles, i \in Ids : removed[h] => value[i] # object[h]

\* What can go wrong in try_unwrap: h is the last owner, and yet g has an Arc,
\* between its Drop::drop and the drop of its field.
CaughtInDrop(h, g) ==
  /\ pc[h] = "arc" /\ OwnersOf(object_id[h]) = {h}
  /\ pc[g] = "dropping" /\ ~removed[g] /\ object[g] = object[h]

(* An entry is made for an object that has no Arc yet, and a handle gets the *)
(* entry out of the pool when the pool has no other of the object.           *)
LEMMA OneEntryKept == ASSUME Inv, OneEntry, [Next]_vars PROVE OneEntry'
  <1> USE DEF Inv, TypeOK
  <1>0. /\ \A i, j \in Ids : value[i] # NoObj /\ value[i] = value[j] => i = j
        /\ \A h \in Handles, i \in Ids : removed[h] => value[i] # object[h]
        /\ NoObj \notin Objects
    BY NoObjFresh DEF OneEntry, InPool
  <1> SUFFICES /\ \A i, j \in Ids : value'[i] # NoObj /\ value'[i] = value'[j] => i = j
               /\ \A h \in Handles, i \in Ids : removed'[h] => value'[i] # object'[h]
    BY DEF OneEntry, InPool
  <1>1. ASSUME NEW h \in Handles, NEW o \in Objects, New(h, o)
        PROVE  /\ \A i, j \in Ids : value'[i] # NoObj /\ value'[i] = value'[j] => i = j
               /\ \A g \in Handles, i \in Ids : removed'[g] => value'[i] # object'[g]
    <2>1. /\ value' = [value EXCEPT ![next_id] = o] /\ removed' = removed
          /\ pc[h] = "free" /\ fate[o] = "unborn"
      BY <1>1 DEF New, handleVars
    <2>2. ~Referenced(o) /\ ~removed[h]
      BY <2>1 DEF LiveIffReferenced, HandleOK
    <2>3. \A g \in Handles : g # h => object'[g] = object[g]
      BY <1>1 DEF New, handleVars
    <2>4. \A i \in Ids : value'[i] = (IF i = next_id THEN o ELSE value[i]) /\ value[i] # o
      BY <2>1, <2>2 DEF Referenced
    <2>5. \A g \in Handles : removed'[g] => g # h /\ removed[g] /\ object'[g] = object[g] /\ object[g] # o
      BY <2>1, <2>2, <2>3 DEF Referenced
    <2> QED BY <1>0, <2>4, <2>5
  <1>2. ASSUME value' = value,
               \A g \in Handles : removed'[g] => removed[g] /\ object'[g] = object[g]
        PROVE  /\ \A i, j \in Ids : value'[i] # NoObj /\ value'[i] = value'[j] => i = j
               /\ \A g \in Handles, i \in Ids : removed'[g] => value'[i] # object'[g]
    BY <1>0, <1>2
  <1>3. ASSUME NEW g \in Handles, NEW h \in Handles,
               Clone(g, h) \/ IncrementStrongCount(g, h) \/ IntoRaw(h) \/ FromRaw(h)
        PROVE  /\ value' = value
               /\ \A x \in Handles : removed'[x] => removed[x] /\ object'[x] = object[x]
    BY <1>3 DEF Clone, IncrementStrongCount, ShareWith, IntoRaw, FromRaw, Vanish, poolVars, HandleOK
  <1>4. ASSUME NEW h \in Handles,
               IntoInnerFails(h) \/ UnwrapPoisoned(h) \/ DropEntry(h) \/ DropValue(h)
        PROVE  /\ value' = value
               /\ \A x \in Handles : removed'[x] => removed[x] /\ object'[x] = object[x]
    BY <1>4 DEF IntoInnerFails, UnwrapPoisoned, DropEntry, DropValue, Vanish, poolVars, handleVars
  <1>5. ASSUME NEW h \in Handles, TryUnwrapOk(h)
        PROVE  /\ \A i, j \in Ids : value'[i] # NoObj /\ value'[i] = value'[j] => i = j
               /\ \A g \in Handles, i \in Ids : removed'[g] => value'[i] # object'[g]
    <2>1. /\ \A i \in Ids : value'[i] \in {value[i], NoObj}
          /\ pc[h] = "arc" /\ removed' = removed
          /\ \A g \in Handles : g # h => object'[g] = object[g]
      BY <1>5 DEF TryUnwrapOk, DecrementRaw, Vanish
    <2>2. \A g \in Handles : removed[g] => g # h /\ object[g] \in Objects
      BY <2>1 DEF HandleOK
    <2> QED BY <1>0, <2>1, <2>2
  <1>6. ASSUME NEW h \in Handles, Drop(h) \/ DecrementStrongCount(h)
        PROVE  /\ \A i, j \in Ids : value'[i] # NoObj /\ value'[i] = value'[j] => i = j
               /\ \A g \in Handles, i \in Ids : removed'[g] => value'[i] # object'[g]
    <2>1. object' = object /\ Owns(h)
      BY <1>6 DEF Drop, DecrementStrongCount, Decrement, Owns
    <2>2. CASE ~Usable
      <3>1. value' = value /\ removed' = removed
        BY <1>6, <2>2 DEF Drop, DecrementStrongCount, Decrement
      <3> QED BY <1>0, <2>1, <3>1
    <2>3. CASE Usable
      <3> DEFINE n == object_id[h]
      <3>1. /\ value' = [value EXCEPT ![n] = IF Took(n) THEN NoObj ELSE @]
            /\ removed' = [removed EXCEPT ![h] = Took(n)]
        BY <1>6, <2>3 DEF Drop, DecrementStrongCount, Decrement, DecrementRaw
      <3>2. \A i \in Ids : value'[i] = IF i = n /\ Took(n) THEN NoObj ELSE value[i]
        BY <3>1
      <3>3. value[n] = object[h] /\ object[h] \in Objects /\ n \in Ids
        BY <2>1, <2>3 DEF IdNamesItsObject, HandleOK, Owns
      <3>4. \A g \in Handles : removed[g] => object[g] \in Objects
        BY DEF HandleOK
      <3>5. \A g \in Handles : removed'[g] => IF g = h THEN Took(n) ELSE removed[g]
        BY <3>1
      <3> HIDE DEF n
      <3> QED BY <1>0, <2>1, <3>2, <3>3, <3>4, <3>5
    <2> QED BY <2>2, <2>3
  <1>7. CASE UNCHANGED vars
    BY <1>0, <1>7 DEF vars
  <1> QED BY <1>1, <1>2, <1>3, <1>4, <1>5, <1>6, <1>7 DEF Next

(* The comment in try_unwrap, "Ensure lock is held during all operations to  *)
(* avoid racing conditions", misses one thing only: the last owner's unwrap  *)
(* fails just when another handle of the object has been through Drop::drop  *)
(* and still has its `value` field.                                          *)
THEOREM UnwrapFailsInDropOnly ==
  Spec => [][LastOwnerUnwraps /\ ~LastOwnerUnwraps' =>
               \E h, g \in Handles : CaughtInDrop(h, g)]_vars
  <1>1. Init => OneEntry
    BY DEF Init, OneEntry, InPool
  <1>2. Inv /\ OneEntry /\ [Next]_vars => OneEntry'
    BY OneEntryKept
  <1>3. Inv /\ OneEntry /\ [Next]_vars =>
          [LastOwnerUnwraps /\ ~LastOwnerUnwraps' => \E h, g \in Handles : CaughtInDrop(h, g)]_vars
    <2> SUFFICES ASSUME Inv, OneEntry, Next, LastOwnerUnwraps, ~LastOwnerUnwraps'
                 PROVE  \E h, g \in Handles : CaughtInDrop(h, g)
      OBVIOUS
    <2>1. PICK h \in Handles : TryUnwrapOk(h)
      <3>1. ASSUME NEW h \in Handles, NEW o \in Objects, New(h, o) PROVE LastOwnerUnwraps'
        BY <3>1 DEF New, LastOwnerUnwraps
      <3>2. ASSUME NEW h \in Handles, NEW g \in Handles,
                   Clone(g, h) \/ IncrementStrongCount(g, h) \/ IntoRaw(h) \/ FromRaw(h)
                     \/ IntoInnerFails(h) \/ UnwrapPoisoned(h) \/ DropEntry(h) \/ DropValue(h)
                     \/ Drop(h) \/ DecrementStrongCount(h)
            PROVE  LastOwnerUnwraps'
        BY <3>2 DEF Clone, IncrementStrongCount, ShareWith, IntoRaw, FromRaw, IntoInnerFails,
                    UnwrapPoisoned, DropEntry, DropValue, Drop, DecrementStrongCount, Decrement,
                    poolVars, LastOwnerUnwraps
      <3> QED BY <3>1, <3>2 DEF Next
    <2> DEFINE n == object_id[h]
               o == object[h]
    <2>2. /\ Usable /\ pc[h] = "arc" /\ Took(n) /\ ReferencedNext(o)
          /\ DecrementRaw(n) /\ Vanish(h) /\ removed' = removed
      BY <2>1 DEF TryUnwrapOk, LastOwnerUnwraps
    <2>3. n \in Ids /\ o \in Objects /\ value[n] = o /\ o # NoObj /\ Owns(h)
      BY <2>2, NoObjFresh DEF Inv, TypeOK, HandleOK, IdNamesItsObject, Owns
    <2>4. OwnersOf(n) = {h}
      BY <2>2, <2>3, SoleOwner
    <2>5. \A i \in Ids : value'[i] # o
      <3>1. value' = [value EXCEPT ![n] = NoObj]
        BY <2>2 DEF DecrementRaw
      <3> QED BY <2>3, <3>1 DEF Inv, TypeOK, OneEntry, InPool
    <2>6. PICK g \in Handles : object'[g] = o /\ (removed'[g] \/ HoldsArc(g)')
      BY <2>2, <2>5 DEF ReferencedNext
    <2>7. g # h
      <3>1. object'[h] = NoObj
        BY <2>2 DEF Vanish, Inv, TypeOK
      <3> QED BY <2>3, <2>6, <3>1
    <2>8. object[g] = o /\ pc'[g] = pc[g]
      BY <2>2, <2>6, <2>7 DEF Vanish, Inv, TypeOK
    <2>9. ~removed[g]
      BY <2>3, <2>8 DEF OneEntry
    <2>10. ~Owns(g)
      <3> SUFFICES ASSUME Owns(g) PROVE FALSE
        OBVIOUS
      <3>1. object_id[g] \in Ids /\ value[object_id[g]] = o
        BY <2>2, <2>8 DEF Inv, TypeOK, IdNamesItsObject
      <3>2. object_id[g] = n
        BY <2>3, <3>1 DEF OneEntry, InPool
      <3> QED BY <2>4, <2>7, <3>2 DEF OwnersOf
    <2>11. pc[g] = "dropping"
      BY <2>2, <2>6, <2>8, <2>9, <2>10 DEF HoldsArc, Owns
    <2> QED BY <2>2, <2>4, <2>8, <2>9, <2>11 DEF CaughtInDrop
  <1> QED BY <1>1, <1>2, <1>3, Invariance, PTL DEF Spec
=============================================================================
