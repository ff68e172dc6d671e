-------------------------- MODULE RustOpaqueProofs ---------------------------
(***************************************************************************)
(* The strong counts of the opaque objects are exact for any objects,      *)
(* handles, RustArcs and calls, and Dart and Rust together implement the   *)
(* trait BaseArc.  Every action is one of four things to the owners: it    *)
(* leaves them alone, one comes, one goes, or one hands over to another.   *)
(***************************************************************************)
EXTENDS RustOpaque, FiniteSetTheorems, SequenceTheorems, TLAPS

Owners == Slots \cup Arcs

\* What a Rust handle, a raw number or a RustArc owns.
Holding(x) == IF x \in Slots THEN obj[x] ELSE fin[x]

\* The part of the invariant that is about the counts.
Counts ==
  /\ strong \in [Objects -> Nat]
  /\ fate \in [Objects -> Fates]
  /\ \A o \in Objects : fate[o] = "live" <=> strong[o] > 0
  /\ CountIsOwners

AbsStep == Abs!Next \/ UNCHANGED (Abs!arcVars)

LEMMA OwnersByHolding ==
  ASSUME NEW o
  PROVE  /\ OwnersOf(o) = {x \in Owners : Holding(x) = o}
         /\ OwnersOf(o)' = {x \in Owners : Holding(x)' = o}
  BY OpaqueAssumption DEF OwnersOf, SlotsOf, ArcsOf, Owners, Holding

LEMMA OwnersFinite ==
  ASSUME NEW o
  PROVE  IsFiniteSet(OwnersOf(o)) /\ Cardinality(OwnersOf(o)) \in Nat
  <1>1. IsFiniteSet(Owners)
    BY OpaqueAssumption, FS_Union DEF Owners
  <1>2. OwnersOf(o) \subseteq Owners
    BY DEF OwnersOf, SlotsOf, ArcsOf, Owners
  <1> QED BY <1>1, <1>2, FS_Subset, FS_CardinalityType

(* An owner finds a positive count, and a count of 1 says it is the only one. *)
LEMMA OwnerCounted ==
  ASSUME Counts, NEW x \in Owners, Holding(x) \in Objects
  PROVE  /\ x \in OwnersOf(Holding(x))
         /\ strong[Holding(x)] \in Nat \ {0}
         /\ fate[Holding(x)] = "live"
         /\ strong[Holding(x)] = 1 <=> OwnersOf(Holding(x)) = {x}
  <1> DEFINE o == Holding(x)
  <1>1. x \in OwnersOf(o)
    BY OwnersByHolding
  <1> HIDE DEF o
  <1>2. o \in Objects /\ strong[o] = Cardinality(OwnersOf(o)) /\ IsFiniteSet(OwnersOf(o))
    BY OwnersFinite DEF Counts, CountIsOwners, o
  <1>3. strong[o] \in Nat \ {0}
    BY <1>1, <1>2, FS_EmptySet DEF Counts
  <1>4. strong[o] = 1 <=> OwnersOf(o) = {x}
    <2>1. Cardinality(OwnersOf(o)) = 1 <=> \E y : OwnersOf(o) = {y}
      BY <1>2, FS_Singleton
    <2> QED BY <1>1, <1>2, <2>1
  <1>5. fate[o] = "live"
    BY <1>2, <1>3 DEF Counts
  <1> QED BY <1>1, <1>3, <1>4, <1>5 DEF o

-----------------------------------------------------------------------------
(* The four things a step does to the owners.                                *)

LEMMA OwnersStay ==
  ASSUME Counts, UNCHANGED <<strong, fate>>, \A x \in Owners : Holding(x)' = Holding(x)
  PROVE  Counts' /\ AbsStep
  <1>1. \A o \in Objects : OwnersOf(o)' = OwnersOf(o)
    BY OwnersByHolding
  <1>2. Counts'
    BY <1>1 DEF Counts, CountIsOwners
  <1>3. AbstractOwners' = AbstractOwners
    BY <1>1 DEF AbstractOwners
  <1> QED BY <1>2, <1>3 DEF AbsStep, Abs!arcVars

LEMMA OwnerComes ==
  ASSUME Counts, NEW x \in Owners, NEW o \in Objects,
         Holding(x) = NoObj, Holding(x)' = o,
         \A y \in Owners \ {x} : Holding(y)' = Holding(y)
  PROVE  /\ OwnersOf(o)' = OwnersOf(o) \cup {x}
         /\ \A p \in Objects \ {o} : OwnersOf(p)' = OwnersOf(p)
         /\ Cardinality(OwnersOf(o)') = Cardinality(OwnersOf(o)) + 1
         /\ Abs!Unused(x)
         /\ AbstractOwners' = [AbstractOwners EXCEPT ![o] = @ \cup {x}]
  <1>0. NoObj \notin Objects
    BY OpaqueAssumption
  <1>1. OwnersOf(o)' = OwnersOf(o) \cup {x} /\ \A p \in Objects \ {o} : OwnersOf(p)' = OwnersOf(p)
    BY <1>0, OwnersByHolding
  <1>2. \A p \in Objects : x \notin OwnersOf(p)
    BY <1>0, OwnersByHolding
  <1>3. Cardinality(OwnersOf(o)') = Cardinality(OwnersOf(o)) + 1
    BY <1>1, <1>2, OwnersFinite, FS_AddElement
  <1>4. Abs!Unused(x)
    BY <1>2 DEF Abs!Unused, AbstractOwners
  <1>5. AbstractOwners' = [AbstractOwners EXCEPT ![o] = @ \cup {x}]
    BY <1>1 DEF AbstractOwners
  <1> QED BY <1>1, <1>3, <1>4, <1>5

(* RustOpaqueBase::new *)
LEMMA OwnerIsBorn ==
  ASSUME Counts, NEW x \in Owners, NEW o \in Objects, fate[o] = "unborn",
         Holding(x) = NoObj, Holding(x)' = o,
         \A y \in Owners \ {x} : Holding(y)' = Holding(y),
         strong' = [strong EXCEPT ![o] = 1], fate' = [fate EXCEPT ![o] = "live"]
  PROVE  Counts' /\ AbsStep
  <1>1. strong[o] = 0 /\ Cardinality(OwnersOf(o)) = 0
    BY DEF Counts, CountIsOwners
  <1>2. OwnersOf(o) = {}
    BY <1>1, OwnersFinite, FS_EmptySet
  <1>3. /\ OwnersOf(o)' = {x}
        /\ \A p \in Objects \ {o} : OwnersOf(p)' = OwnersOf(p)
        /\ Cardinality(OwnersOf(o)') = 1
        /\ Abs!Unused(x)
        /\ AbstractOwners' = [AbstractOwners EXCEPT ![o] = {x}]
    BY <1>1, <1>2, OwnerComes DEF AbstractOwners
  <1>4. CountIsOwners'
    BY <1>3 DEF Counts, CountIsOwners
  <1>5. Counts'
    BY <1>4 DEF Counts, Fates
  <1>6. Abs!New(o, x)
    BY <1>3 DEF Abs!New
  <1> QED BY <1>5, <1>6 DEF AbsStep, Abs!Next, Owners

(* Clone, increment_strong_count *)
LEMMA OwnerShares ==
  ASSUME Counts, NEW g \in Owners, NEW x \in Owners, NEW o \in Objects, Holding(g) = o,
         Holding(x) = NoObj, Holding(x)' = o,
         \A y \in Owners \ {x} : Holding(y)' = Holding(y),
         Increment(o)
  PROVE  Counts' /\ AbsStep
  <1>1. g \in OwnersOf(o) /\ fate[o] = "live" /\ strong[o] \in Nat \ {0}
    BY OwnerCounted
  <1>2. /\ \A p \in Objects \ {o} : OwnersOf(p)' = OwnersOf(p)
        /\ Cardinality(OwnersOf(o)') = Cardinality(OwnersOf(o)) + 1
        /\ Abs!Unused(x)
        /\ AbstractOwners' = [AbstractOwners EXCEPT ![o] = @ \cup {x}]
    BY OwnerComes
  <1>3. strong' = [strong EXCEPT ![o] = @ + 1] /\ UNCHANGED fate
    BY DEF Increment
  <1>4. CountIsOwners'
    BY <1>2, <1>3 DEF Counts, CountIsOwners
  <1>5. Counts'
    BY <1>1, <1>3, <1>4 DEF Counts
  <1>6. Abs!Share(o, g, x)
    BY <1>1, <1>2, <1>3 DEF Abs!Share, AbstractOwners
  <1> QED BY <1>3, <1>5, <1>6 DEF AbsStep, Abs!Next, Owners

(* into_raw on one side, from_raw on the other *)
LEMMA OwnerHandsOver ==
  ASSUME Counts, NEW g \in Owners, NEW x \in Owners, g # x, NEW o \in Objects, Holding(g) = o,
         Holding(x) = NoObj, Holding(x)' = o, Holding(g)' = NoObj,
         \A y \in Owners \ {g, x} : Holding(y)' = Holding(y),
         UNCHANGED <<strong, fate>>
  PROVE  Counts' /\ AbsStep
  <1>0. NoObj \notin Objects
    BY OpaqueAssumption
  <1>1. g \in OwnersOf(o)
    BY OwnersByHolding
  <1>2. /\ OwnersOf(o)' = (OwnersOf(o) \ {g}) \cup {x}
        /\ \A p \in Objects \ {o} : OwnersOf(p)' = OwnersOf(p)
        /\ \A p \in Objects : x \notin OwnersOf(p)
    BY <1>0, OwnersByHolding
  <1>3. Cardinality(OwnersOf(o)') = Cardinality(OwnersOf(o))
    <2> DEFINE R == OwnersOf(o) \ {g}
    <2>1. IsFiniteSet(R) /\ Cardinality(R) = Cardinality(OwnersOf(o)) - 1
      BY <1>1, OwnersFinite, FS_RemoveElement
    <2>2. x \notin R
      BY <1>2
    <2> HIDE DEF R
    <2>3. Cardinality(R \cup {x}) = Cardinality(R) + 1
      BY <2>1, <2>2, FS_AddElement
    <2> QED BY <1>2, <2>1, <2>3, OwnersFinite DEF R
  <1>4. CountIsOwners'
    BY <1>2, <1>3 DEF Counts, CountIsOwners
  <1>5. Counts'
    BY <1>4 DEF Counts
  <1>6. Abs!Unused(x) /\ AbstractOwners' = [AbstractOwners EXCEPT ![o] = (@ \ {g}) \cup {x}]
    BY <1>2 DEF Abs!Unused, AbstractOwners
  <1>7. Abs!Transfer(o, g, x)
    BY <1>1, <1>6 DEF Abs!Transfer, AbstractOwners
  <1> QED BY <1>5, <1>7 DEF AbsStep, Abs!Next, Owners

(* Drop, decrement_strong_count, into_inner *)
LEMMA OwnerGoes ==
  ASSUME Counts, NEW x \in Owners, NEW o \in Objects, Holding(x) = o, Holding(x)' = NoObj,
         \A y \in Owners \ {x} : Holding(y)' = Holding(y),
         Decrement(o) \/ IntoInner(o)
  PROVE  Counts' /\ AbsStep
  <1>0. NoObj \notin Objects
    BY OpaqueAssumption
  <1>1. /\ x \in OwnersOf(o) /\ fate[o] = "live" /\ strong[o] \in Nat \ {0}
        /\ strong[o] = 1 <=> OwnersOf(o) = {x}
    BY OwnerCounted
  <1>2. /\ OwnersOf(o)' = OwnersOf(o) \ {x}
        /\ \A p \in Objects \ {o} : OwnersOf(p)' = OwnersOf(p)
    BY <1>0, OwnersByHolding
  <1>3. PICK end \in {"dropped", "moved"} :
          /\ strong' = [strong EXCEPT ![o] = @ - 1]
          /\ fate' = [fate EXCEPT ![o] = IF strong[o] = 1 THEN end ELSE @]
    BY DEF Decrement, IntoInner
  <1>4. Cardinality(OwnersOf(o)') = Cardinality(OwnersOf(o)) - 1
    BY <1>1, <1>2, OwnersFinite, FS_RemoveElement
  <1>5. CountIsOwners'
    <2> SUFFICES ASSUME NEW p \in Objects PROVE strong'[p] = Cardinality(OwnersOf(p)')
      BY DEF CountIsOwners
    <2>1. CASE p = o
      BY <1>3, <1>4, <2>1 DEF Counts, CountIsOwners
    <2>2. CASE p # o
      BY <1>2, <1>3, <2>2 DEF Counts, CountIsOwners
    <2> QED BY <2>1, <2>2
  <1>6. Counts'
    <2>1. strong' \in [Objects -> Nat] /\ fate' \in [Objects -> Fates]
      BY <1>1, <1>3 DEF Counts, Fates
    <2>2. ASSUME NEW p \in Objects PROVE fate'[p] = "live" <=> strong'[p] > 0
      <3>1. CASE p = o
        BY <1>1, <1>3, <3>1 DEF Counts
      <3>2. CASE p # o
        BY <1>3, <3>2 DEF Counts
      <3> QED BY <3>1, <3>2
    <2> QED BY <1>5, <2>1, <2>2 DEF Counts
  <1>7. AbstractOwners' = [AbstractOwners EXCEPT ![o] = @ \ {x}] /\ AbstractOwners[o] = OwnersOf(o)
    BY <1>1, <1>2 DEF AbstractOwners
  <1>8. CASE strong[o] = 1 /\ end = "moved"
    <2>1. Abs!Take(o, x)
      BY <1>1, <1>3, <1>7, <1>8 DEF Abs!Take
    <2> QED BY <1>1, <1>6, <2>1 DEF AbsStep, Abs!Next, Owners
  <1>9. CASE ~(strong[o] = 1 /\ end = "moved")
    <2>1. fate' = fate \/ (strong[o] = 1 /\ fate' = [fate EXCEPT ![o] = "dropped"])
      BY <1>1, <1>3, <1>9 DEF Counts
    <2>2. Abs!Release(o, x)
      BY <1>1, <1>7, <2>1 DEF Abs!Release
    <2> QED BY <1>1, <1>6, <2>2 DEF AbsStep, Abs!Next, Owners
  <1> QED BY <1>8, <1>9

-----------------------------------------------------------------------------
(* The rest of the invariant: types, places, and what is left of a dead      *)
(* isolate.                                                                  *)

Rest ==
  /\ obj \in [Slots -> Objects \cup {NoObj}]
  /\ place \in [Slots -> Places \cup Ports]
  /\ ptr \in [Arcs -> Objects \cup {NoObj}]
  /\ reach \subseteq Arcs
  /\ wire \in [Calls -> Seq(Slots)]
  /\ phase \in [Calls -> Phases]
  /\ open \subseteq Ports
  /\ alive \in BOOLEAN
  /\ \A h \in Slots : place[h] = "free" <=> obj[h] = NoObj
  /\ ptr = fin
  /\ ~alive => /\ reach = {}
               /\ open = {}
               /\ \A c \in Calls : phase[c] # "encoding"

LEMMA InvParts == Inv <=> Counts /\ Rest /\ WireInv
  BY DEF Inv, TypeOK, OwnerInv, Counts, Rest

LEMMA InvPartsNext == Inv' <=> Counts' /\ Rest' /\ WireInv'
  BY DEF Inv, TypeOK, OwnerInv, Counts, Rest

(* A handle or a raw number changes, and a RustArc is forgotten. *)
LEMMA SlotChanges ==
  ASSUME Rest, NEW h \in Slots, NEW v, NEW w, Fill(h, v, w), UNCHANGED fin
  PROVE  /\ h \in Owners /\ Holding(h) = obj[h] /\ Holding(h)' = v
         /\ \A y \in Owners \ {h} : Holding(y)' = Holding(y)
  BY DEF Rest, Fill, Owners, Holding

LEMMA ArcForgotten ==
  ASSUME Rest, NEW a \in Arcs, Forget(a), UNCHANGED obj
  PROVE  /\ a \in Owners /\ Holding(a) = fin[a] /\ Holding(a)' = NoObj
         /\ \A y \in Owners \ {a} : Holding(y)' = Holding(y)
  BY OpaqueAssumption DEF Rest, Forget, Owners, Holding

(* A step that moves no raw number of an argument. *)
LEMMA WireKept ==
  ASSUME Rest, WireInv, wire' = wire,
         \A h \in Slots : place'[h] = "wire" <=> place[h] = "wire",
         \A c \in Calls : phase[c] # "none" => phase'[c] # "none"
  PROVE  WireInv'
  <1>1. \A c \in Calls : \A n \in DOMAIN wire[c] : wire[c][n] \in Slots
    BY DEF Rest
  <1>2. \A c \in Calls : \A n \in DOMAIN wire'[c] :
          /\ place'[wire'[c][n]] = "wire" /\ phase'[c] # "none"
          /\ \A d \in Calls : \A m \in DOMAIN wire'[d] : wire'[c][n] = wire'[d][m] => c = d /\ n = m
    BY <1>1 DEF WireInv
  <1>3. \A h \in Slots : place'[h] = "wire" => \E c \in Calls : \E n \in DOMAIN wire'[c] : wire'[c][n] = h
    BY DEF WireInv
  <1> QED BY <1>2, <1>3 DEF WireInv

(* A raw number joins the arguments of a call. *)
LEMMA WireGrows ==
  ASSUME Rest, WireInv, NEW c \in Calls, NEW h \in Slots, NEW o, PutOnWire(c, h, o),
         phase[c] = "encoding", UNCHANGED phase
  PROVE  WireInv' /\ wire' \in [Calls -> Seq(Slots)]
  <1> DEFINE w == wire[c]
  <1>1. /\ w \in Seq(Slots) /\ wire'[c] = Append(w, h) /\ \A d \in Calls \ {c} : wire'[d] = wire[d]
        /\ wire' \in [Calls -> Seq(Slots)]
    BY AppendProperties DEF Rest, PutOnWire
  <1>2. /\ DOMAIN wire'[c] = 1 .. Len(w) + 1 /\ DOMAIN w = 1 .. Len(w) /\ Len(w) \in Nat
        /\ wire'[c][Len(w) + 1] = h /\ \A n \in 1 .. Len(w) : wire'[c][n] = w[n]
    BY <1>1, AppendProperties
  <1>3. /\ place[h] = "free" /\ place'[h] = "wire"
        /\ \A g \in Slots \ {h} : place'[g] = place[g]
    BY DEF PutOnWire, Fill, Rest
  <1>4. \A d \in Calls : \A n \in DOMAIN wire[d] : wire[d][n] \in Slots /\ wire[d][n] # h
    BY <1>3 DEF WireInv, Rest
  <1>5. \A d \in Calls : \A n \in DOMAIN wire'[d] :
          \/ n \in DOMAIN wire[d] /\ wire'[d][n] = wire[d][n]
          \/ d = c /\ n = Len(w) + 1 /\ wire'[d][n] = h
    <2>1. \A n \in DOMAIN wire'[c] : n \in DOMAIN w \/ n = Len(w) + 1
      BY <1>2
    <2> QED BY <1>1, <1>2, <2>1
  <1> HIDE DEF w
  <1>6. ASSUME NEW d \in Calls, NEW n \in DOMAIN wire'[d]
        PROVE  place'[wire'[d][n]] = "wire" /\ phase'[d] # "none"
    BY <1>3, <1>4, <1>5 DEF WireInv
  <1>7. ASSUME NEW d \in Calls, NEW n \in DOMAIN wire'[d], NEW e \in Calls, NEW m \in DOMAIN wire'[e],
               wire'[d][n] = wire'[e][m]
        PROVE  d = e /\ n = m
    BY <1>4, <1>5, <1>7 DEF WireInv
  <1>8. ASSUME NEW g \in Slots, place'[g] = "wire"
        PROVE  \E d \in Calls : \E n \in DOMAIN wire'[d] : wire'[d][n] = g
    <2>1. CASE g = h
      <3>1. Len(w) + 1 \in DOMAIN wire'[c] /\ wire'[c][Len(w) + 1] = h
        BY <1>2
      <3> QED BY <2>1, <3>1
    <2>2. CASE g # h
      <3>1. PICK d \in Calls : \E n \in DOMAIN wire[d] : wire[d][n] = g
        BY <1>3, <1>8, <2>2 DEF WireInv
      <3>2. PICK n \in DOMAIN wire[d] : wire[d][n] = g
        BY <3>1
      <3>3. n \in DOMAIN wire'[d] /\ wire'[d][n] = g
        <4>1. CASE d = c
          BY <1>2, <3>2, <4>1 DEF w
        <4>2. CASE d # c
          BY <1>1, <3>2, <4>2
        <4> QED BY <4>1, <4>2
      <3> QED BY <3>3
    <2> QED BY <2>1, <2>2
  <1> QED BY <1>1, <1>6, <1>7, <1>8 DEF WireInv

(* The first argument of a call is decoded. *)
LEMMA WireShrinks ==
  ASSUME Rest, WireInv, NEW c \in Calls, wire[c] # <<>>,
         wire' = [wire EXCEPT ![c] = Tail(@)],
         place'[Head(wire[c])] # "wire",
         \A g \in Slots \ {Head(wire[c])} : place'[g] = place[g],
         \A d \in Calls : phase[d] # "none" => phase'[d] # "none"
  PROVE  WireInv' /\ wire' \in [Calls -> Seq(Slots)] /\ Head(wire[c]) \in Slots
         /\ place[Head(wire[c])] = "wire"
  <1> DEFINE w == wire[c]
             h == Head(w)
  <1>1. /\ w \in Seq(Slots) /\ wire'[c] = Tail(w) /\ \A d \in Calls \ {c} : wire'[d] = wire[d]
    BY DEF Rest
  <1>2. /\ Tail(w) \in Seq(Slots) /\ h = w[1] /\ 1 \in DOMAIN w /\ h \in Slots
        /\ DOMAIN w = 1 .. Len(w) /\ Len(w) \in Nat
        /\ DOMAIN Tail(w) = 1 .. Len(w) - 1
        /\ \A n \in DOMAIN Tail(w) : n \in Nat /\ n + 1 # 1 /\ n + 1 \in DOMAIN w /\ Tail(w)[n] = w[n + 1]
    BY <1>1
  <1>3. place[h] = "wire"
    BY <1>2 DEF WireInv
  <1>4. wire' \in [Calls -> Seq(Slots)]
    BY <1>2 DEF Rest
  <1>5. \A d \in Calls : \A n \in DOMAIN wire[d] :
          wire[d][n] \in Slots /\ (wire[d][n] = h => d = c /\ n = 1)
    BY <1>2 DEF WireInv, Rest
  <1>6. ASSUME NEW d \in Calls, NEW n \in DOMAIN wire'[d]
        PROVE  \E k \in DOMAIN wire[d] : /\ wire'[d][n] = wire[d][k] /\ wire[d][k] # h
                                         /\ k = (IF d = c THEN n + 1 ELSE n)
    <2>1. CASE d = c
      <3>1. n \in DOMAIN Tail(w)
        BY <1>1, <2>1
      <3>2. n + 1 \in DOMAIN w /\ n + 1 # 1 /\ Tail(w)[n] = w[n + 1]
        BY <1>2, <3>1
      <3>3. wire'[d] = Tail(w)
        BY <1>1, <2>1
      <3>4. w[n + 1] # h
        BY <1>5, <3>2
      <3>5. n + 1 \in DOMAIN wire[d] /\ wire'[d][n] = wire[d][n + 1] /\ wire[d][n + 1] # h
        BY <2>1, <3>2, <3>3, <3>4
      <3> QED BY <2>1, <3>5
    <2>2. CASE d # c
      <3>1. n \in DOMAIN wire[d] /\ wire'[d][n] = wire[d][n]
        BY <1>1, <2>2
      <3>2. wire[d][n] # h
        BY <1>5, <2>2, <3>1
      <3> QED BY <2>2, <3>1, <3>2
    <2> QED BY <2>1, <2>2
  <1>n. \A d \in Calls : \A n \in DOMAIN wire'[d] : n \in Nat
    BY <1>4
  <1>7. ASSUME NEW d \in Calls, NEW n \in DOMAIN wire'[d]
        PROVE  place'[wire'[d][n]] = "wire" /\ phase'[d] # "none"
    BY <1>5, <1>6 DEF WireInv
  <1>8. ASSUME NEW d \in Calls, NEW n \in DOMAIN wire'[d], NEW e \in Calls, NEW m \in DOMAIN wire'[e],
               wire'[d][n] = wire'[e][m]
        PROVE  d = e /\ n = m
    <2>1. PICK k \in DOMAIN wire[d] : wire'[d][n] = wire[d][k] /\ k = (IF d = c THEN n + 1 ELSE n)
      BY <1>6
    <2>2. PICK l \in DOMAIN wire[e] : wire'[e][m] = wire[e][l] /\ l = (IF e = c THEN m + 1 ELSE m)
      BY <1>6
    <2>3. d = e /\ k = l
      BY <1>8, <2>1, <2>2 DEF WireInv
    <2> QED BY <1>n, <2>1, <2>2, <2>3
  <1>9. ASSUME NEW g \in Slots, place'[g] = "wire"
        PROVE  \E d \in Calls : \E n \in DOMAIN wire'[d] : wire'[d][n] = g
    <2>1. g # h /\ place[g] = "wire"
      BY <1>9
    <2>2. PICK d \in Calls : \E n \in DOMAIN wire[d] : wire[d][n] = g
      BY <2>1 DEF WireInv
    <2>3. PICK n \in DOMAIN wire[d] : wire[d][n] = g
      BY <2>2
    <2>4. CASE d # c
      BY <1>1, <2>3, <2>4
    <2>5. CASE d = c
      <3>1. n \in DOMAIN w /\ n # 1
        BY <1>2, <2>1, <2>3, <2>5
      <3>2. n - 1 \in DOMAIN Tail(w) /\ Tail(w)[n - 1] = g
        BY <1>2, <2>3, <2>5, <3>1
      <3> QED BY <1>1, <2>5, <3>2
    <2> QED BY <2>4, <2>5
  <1> QED BY <1>2, <1>3, <1>4, <1>7, <1>8, <1>9 DEF WireInv

-----------------------------------------------------------------------------
(* Every action preserves the invariant and is a step of BaseArc.            *)

LEMMA NewStep ==
  ASSUME Inv, NEW o \in Objects, NEW h \in Slots, New(o, h)
  PROVE  Inv' /\ AbsStep
  <1>0. Counts /\ Rest /\ WireInv
    BY InvParts
  <1>1. Fill(h, o, "rust") /\ place[h] = "free" /\ UNCHANGED <<arcVars, callVars, isolateVars>>
    BY DEF New
  <1>2. /\ h \in Owners /\ Holding(h) = NoObj /\ Holding(h)' = o
        /\ \A y \in Owners \ {h} : Holding(y)' = Holding(y)
    BY <1>0, <1>1, SlotChanges DEF arcVars, Rest
  <1>3. Counts' /\ AbsStep
    BY <1>0, <1>2, OwnerIsBorn DEF New
  <1>4. Rest'
    BY <1>0, <1>1, OpaqueAssumption DEF Rest, Fill, Places, arcVars, callVars, isolateVars
  <1>5. WireInv'
    BY <1>0, <1>1, WireKept DEF Rest, Fill, callVars
  <1> QED BY <1>3, <1>4, <1>5, InvPartsNext

LEMMA CloneStep ==
  ASSUME Inv, NEW g \in Slots, NEW h \in Slots, Clone(g, h)
  PROVE  Inv' /\ AbsStep
  <1>0. Counts /\ Rest /\ WireInv
    BY InvParts
  <1>1. PICK o \in Objects : o = obj[g]
    BY <1>0 DEF Clone, Rest
  <1>2. /\ Increment(o) /\ Fill(h, o, "rust") /\ place[h] = "free"
        /\ UNCHANGED <<arcVars, callVars, isolateVars>>
    BY <1>1 DEF Clone
  <1>3. /\ h \in Owners /\ Holding(h) = NoObj /\ Holding(h)' = o
        /\ \A y \in Owners \ {h} : Holding(y)' = Holding(y)
    BY <1>0, <1>2, SlotChanges DEF arcVars, Rest
  <1>4. g \in Owners /\ Holding(g) = o
    BY <1>1 DEF Owners, Holding
  <1>5. Counts' /\ AbsStep
    BY <1>0, <1>2, <1>3, <1>4, OwnerShares
  <1>6. Rest'
    BY <1>0, <1>2, OpaqueAssumption DEF Rest, Fill, Places, arcVars, callVars, isolateVars
  <1>7. WireInv'
    BY <1>0, <1>2, WireKept DEF Rest, Fill, callVars
  <1> QED BY <1>5, <1>6, <1>7, InvPartsNext

LEMMA DropStep ==
  ASSUME Inv, NEW h \in Slots, Drop(h) \/ UnwrapHandle(h)
  PROVE  Inv' /\ AbsStep
  <1>0. Counts /\ Rest /\ WireInv
    BY InvParts
  <1>1. PICK o \in Objects : o = obj[h]
    BY <1>0 DEF Drop, UnwrapHandle, Rest
  <1>2. /\ Decrement(o) \/ IntoInner(o)
        /\ Fill(h, NoObj, "free") /\ place[h] = "rust"
        /\ UNCHANGED <<arcVars, callVars, isolateVars>>
    BY <1>1 DEF Drop, UnwrapHandle, Empty
  <1>3. /\ h \in Owners /\ Holding(h) = o /\ Holding(h)' = NoObj
        /\ \A y \in Owners \ {h} : Holding(y)' = Holding(y)
    BY <1>0, <1>1, <1>2, SlotChanges DEF arcVars
  <1>4. Counts' /\ AbsStep
    BY <1>0, <1>2, <1>3, OwnerGoes
  <1>5. Rest'
    BY <1>0, <1>2 DEF Rest, Fill, Places, arcVars, callVars, isolateVars
  <1>6. WireInv'
    BY <1>0, <1>2, WireKept DEF Rest, Fill, callVars
  <1> QED BY <1>4, <1>5, <1>6, InvPartsNext

(* Encode, or a message that Dart fails to decode: the owner stays, elsewhere. *)
LEMMA SentStep ==
  ASSUME Inv, NEW h \in Slots,
         DecodeThrows(h) \/ \E p \in Ports \cup {"reply"} : Encode(h, p)
  PROVE  Inv' /\ AbsStep
  <1>0. Counts /\ Rest /\ WireInv
    BY InvParts
  <1>1. PICK p \in Ports \cup {"reply", "undecoded"} :
          /\ Fill(h, obj[h], p) /\ place[h] \in Ports \cup {"reply", "rust"}
          /\ UNCHANGED <<strong, fate, arcVars, callVars, isolateVars>>
    BY <1>0 DEF Encode, DecodeThrows, Receives, Rest
  <1>p. p \in Places \cup Ports /\ p \notin {"wire", "free"} /\ place[h] \notin {"wire", "free"}
    BY <1>1, OpaqueAssumption DEF Places
  <1>2. \A x \in Owners : Holding(x)' = Holding(x)
    BY <1>0, <1>1 DEF Rest, Fill, Holding, Owners, arcVars
  <1>3. Counts' /\ AbsStep
    BY <1>0, <1>1, <1>2, OwnersStay
  <1>4. Rest'
    BY <1>0, <1>1, <1>p DEF Rest, Fill, arcVars, callVars, isolateVars
  <1>5. WireInv'
    BY <1>0, <1>1, <1>p, WireKept DEF Rest, Fill, callVars
  <1> QED BY <1>3, <1>4, <1>5, InvPartsNext

LEMMA DecodeReplyStep ==
  ASSUME Inv, NEW h \in Slots, NEW a \in Arcs, DecodeReply(h, a)
  PROVE  Inv' /\ AbsStep
  <1>0. Counts /\ Rest /\ WireInv
    BY InvParts
  <1>1. PICK o \in Objects : o = obj[h]
    BY <1>0, OpaqueAssumption DEF DecodeReply, Receives, Rest, Places
  <1>2. /\ alive /\ place[h] \in Ports \cup {"reply"} /\ fin[a] = NoObj
        /\ ptr' = [ptr EXCEPT ![a] = o] /\ fin' = [fin EXCEPT ![a] = o]
        /\ reach' = reach \cup {a} /\ Fill(h, NoObj, "free")
        /\ UNCHANGED <<strong, fate, callVars, isolateVars>>
    BY <1>0, <1>1 DEF DecodeReply, Empty, Receives, Rest
  <1>p. place[h] \notin {"wire", "free"}
    BY <1>2, OpaqueAssumption DEF Places
  <1>3. /\ h \in Owners /\ a \in Owners /\ h # a
        /\ Holding(h) = o /\ Holding(a) = NoObj /\ Holding(a)' = o /\ Holding(h)' = NoObj
        /\ \A y \in Owners \ {h, a} : Holding(y)' = Holding(y)
    BY <1>0, <1>1, <1>2, OpaqueAssumption DEF Rest, Fill, Owners, Holding
  <1>4. Counts' /\ AbsStep
    BY <1>0, <1>2, <1>3, OwnerHandsOver
  <1>5. Rest'
    BY <1>0, <1>2, <1>p DEF Rest, Fill, Places, callVars, isolateVars
  <1>6. WireInv'
    BY <1>0, <1>2, <1>p, WireKept DEF Rest, Fill, callVars
  <1> QED BY <1>4, <1>5, <1>6, InvPartsNext

(* dispose and the finalizer release the same token. *)
LEMMA ReleaseArcStep ==
  ASSUME Inv, NEW a \in Arcs, Dispose(a) \/ Finalize(a)
  PROVE  Inv' /\ AbsStep
  <1>0. Counts /\ Rest /\ WireInv
    BY InvParts
  <1>1. PICK o \in Objects : o = fin[a] /\ o = ptr[a]
    BY <1>0 DEF Dispose, Finalize, Rest
  <1>2. /\ Decrement(o) /\ Forget(a)
        /\ UNCHANGED <<obj, place, reach, callVars, isolateVars>>
    BY <1>1 DEF Dispose, Finalize
  <1>3. /\ a \in Owners /\ Holding(a) = o /\ Holding(a)' = NoObj
        /\ \A y \in Owners \ {a} : Holding(y)' = Holding(y)
    BY <1>0, <1>1, <1>2, ArcForgotten
  <1>4. Counts' /\ AbsStep
    BY <1>0, <1>2, <1>3, OwnerGoes
  <1>5. Rest'
    BY <1>0, <1>2 DEF Rest, Forget, callVars, isolateVars
  <1>6. WireInv'
    BY <1>0, <1>2, WireKept DEF callVars
  <1> QED BY <1>4, <1>5, <1>6, InvPartsNext

LEMMA EncodeMoveStep ==
  ASSUME Inv, NEW c \in Calls, NEW a \in Arcs, NEW h \in Slots, EncodeMove(c, a, h)
  PROVE  Inv' /\ AbsStep
  <1>0. Counts /\ Rest /\ WireInv
    BY InvParts
  <1>1. PICK o \in Objects : o = fin[a] /\ o = ptr[a]
    BY <1>0 DEF EncodeMove, Rest
  <1>2. /\ phase[c] = "encoding" /\ PutOnWire(c, h, o) /\ Forget(a)
        /\ UNCHANGED <<strong, fate, reach, phase, isolateVars>>
    BY <1>1 DEF EncodeMove
  <1>3. place[h] = "free" /\ Fill(h, o, "wire")
    BY <1>2 DEF PutOnWire
  <1>4. /\ h \in Owners /\ a \in Owners /\ h # a
        /\ Holding(a) = o /\ Holding(h) = NoObj /\ Holding(h)' = o /\ Holding(a)' = NoObj
        /\ \A y \in Owners \ {a, h} : Holding(y)' = Holding(y)
    BY <1>0, <1>1, <1>2, <1>3, OpaqueAssumption DEF Rest, Fill, Forget, Owners, Holding
  <1>5. Counts' /\ AbsStep
    BY <1>0, <1>2, <1>4, OwnerHandsOver
  <1>6. WireInv' /\ wire' \in [Calls -> Seq(Slots)]
    BY <1>0, <1>2, WireGrows
  <1>7. Rest'
    BY <1>0, <1>2, <1>3, <1>6, OpaqueAssumption DEF Rest, Fill, Forget, Places, isolateVars
  <1> QED BY <1>5, <1>6, <1>7, InvPartsNext

LEMMA EncodeCloneStep ==
  ASSUME Inv, NEW c \in Calls, NEW a \in Arcs, NEW h \in Slots, EncodeClone(c, a, h)
  PROVE  Inv' /\ AbsStep
  <1>0. Counts /\ Rest /\ WireInv
    BY InvParts
  <1>1. PICK o \in Objects : o = fin[a] /\ o = ptr[a]
    BY <1>0 DEF EncodeClone, Rest
  <1>2. /\ phase[c] = "encoding" /\ PutOnWire(c, h, o) /\ Increment(o)
        /\ UNCHANGED <<arcVars, phase, isolateVars>>
    BY <1>1 DEF EncodeClone
  <1>3. place[h] = "free" /\ Fill(h, o, "wire")
    BY <1>2 DEF PutOnWire
  <1>4. /\ h \in Owners /\ Holding(h) = NoObj /\ Holding(h)' = o
        /\ \A y \in Owners \ {h} : Holding(y)' = Holding(y)
    BY <1>0, <1>2, <1>3, SlotChanges DEF arcVars, Rest
  <1>5. a \in Owners /\ Holding(a) = o
    BY <1>1, OpaqueAssumption DEF Owners, Holding
  <1>6. Counts' /\ AbsStep
    BY <1>0, <1>2, <1>4, <1>5, OwnerShares
  <1>7. WireInv' /\ wire' \in [Calls -> Seq(Slots)]
    BY <1>0, <1>2, WireGrows
  <1>8. Rest'
    BY <1>0, <1>2, <1>3, <1>7, OpaqueAssumption DEF Rest, Fill, arcVars, Places, isolateVars
  <1> QED BY <1>6, <1>7, <1>8, InvPartsNext

(* Steps that only move a message on, lose a reference, close a port or end    *)
(* the isolate.                                                                *)
MovesOn(c) == BeginCall(c) \/ Send(c) \/ DeliverOutput(c) \/ PollOutput(c) \/ IgnoreOutput(c)

LEMMA QuietStep ==
  ASSUME Inv,
         \/ \E a \in Arcs : Lose(a) \/ \E c \in Calls : EncodeThrows(c, a)
         \/ \E c \in Calls : MovesOn(c)
         \/ \E p \in Ports : ClosePort(p)
         \/ Exit
         \/ UNCHANGED vars
  PROVE  Inv' /\ AbsStep
  <1>0. Counts /\ Rest /\ WireInv
    BY InvParts
  <1>1. UNCHANGED <<strong, fate, obj, place, ptr, fin, wire>>
    BY DEF Lose, EncodeThrows, MovesOn, BeginCall, Send, DeliverOutput, PollOutput, IgnoreOutput,
           ClosePort, Exit, vars, arcVars, callVars
  <1>2. Counts' /\ AbsStep
    <2>1. \A x \in Owners : Holding(x)' = Holding(x)
      BY <1>1 DEF Holding
    <2> QED BY <1>0, <1>1, <2>1, OwnersStay
  <1>3. Rest' /\ \A c \in Calls : phase[c] # "none" => phase'[c] # "none"
    <2>1. CASE Exit
      BY <1>0, <2>1 DEF Rest, Exit, Phases
    <2>2. CASE \E a \in Arcs : Lose(a) \/ \E c \in Calls : EncodeThrows(c, a)
      <3>1. /\ reach' \subseteq reach /\ UNCHANGED isolateVars
            /\ phase' = phase \/ \E c \in Calls : phase' = [phase EXCEPT ![c] = "threw"]
        BY <2>2 DEF Lose, EncodeThrows, callVars, arcVars
      <3> QED BY <1>0, <1>1, <3>1 DEF Rest, Phases, isolateVars
    <2>3. CASE \E c \in Calls : MovesOn(c)
      <3>1. PICK c \in Calls : MovesOn(c)
        BY <2>3
      <3>2. /\ phase' = [phase EXCEPT ![c] = phase'[c]]
            /\ phase'[c] \in {"encoding", "sent", "output", "polled", "ignored"}
            /\ phase'[c] = "encoding" => alive
            /\ UNCHANGED <<reach, isolateVars>>
        BY <1>0, <3>1 DEF Rest, MovesOn, BeginCall, Send, DeliverOutput, PollOutput, IgnoreOutput,
                          Idle, arcVars
      <3> QED BY <1>0, <1>1, <3>2 DEF Rest, Phases, isolateVars
    <2>4. CASE \E p \in Ports : ClosePort(p)
      BY <1>0, <2>4 DEF Rest, ClosePort, callVars, arcVars
    <2>5. CASE UNCHANGED vars
      BY <1>0, <2>5 DEF Rest, vars
    <2> QED BY <2>1, <2>2, <2>3, <2>4, <2>5
  <1>4. WireInv'
    BY <1>0, <1>1, <1>3, WireKept
  <1> QED BY <1>2, <1>3, <1>4, InvPartsNext

LEMMA DecodeStep ==
  ASSUME Inv, NEW c \in Calls, Decode(c)
  PROVE  Inv' /\ AbsStep
  <1>0. Counts /\ Rest /\ WireInv
    BY InvParts
  <1>1. PICK h \in Slots : h = Head(wire[c])
    BY <1>0 DEF Decode, Decoding, Rest
  <1>2. /\ wire[c] # <<>> /\ wire' = [wire EXCEPT ![c] = Tail(@)] /\ Fill(h, obj[h], "rust")
        /\ UNCHANGED <<strong, fate, arcVars, phase, isolateVars>>
    BY <1>1 DEF Decode, Decoding
  <1>3. WireInv' /\ wire' \in [Calls -> Seq(Slots)] /\ place[h] = "wire"
    <2>1. place'[h] = "rust" /\ \A g \in Slots \ {h} : place'[g] = place[g]
      BY <1>0, <1>2 DEF Fill, Rest
    <2> QED BY <1>0, <1>1, <1>2, <2>1, WireShrinks
  <1>4. \A x \in Owners : Holding(x)' = Holding(x)
    BY <1>0, <1>2 DEF Rest, Fill, Holding, Owners, arcVars
  <1>5. Counts' /\ AbsStep
    BY <1>0, <1>2, <1>4, OwnersStay
  <1>6. Rest'
    BY <1>0, <1>2, <1>3 DEF Rest, Fill, Places, arcVars, isolateVars
  <1> QED BY <1>3, <1>5, <1>6, InvPartsNext

LEMMA DecodeOwnedStep ==
  ASSUME Inv, NEW c \in Calls, DecodeOwned(c)
  PROVE  Inv' /\ AbsStep
  <1>0. Counts /\ Rest /\ WireInv
    BY InvParts
  <1>1. PICK h \in Slots : h = Head(wire[c])
    BY <1>0 DEF DecodeOwned, Decoding, Rest
  <1>2. /\ wire[c] # <<>> /\ wire' = [wire EXCEPT ![c] = Tail(@)] /\ Fill(h, NoObj, "free")
        /\ IntoInner(obj[h]) /\ UNCHANGED <<arcVars, isolateVars>>
        /\ phase[c] \in {"sent", "polled"} /\ phase' = [phase EXCEPT ![c] = IF strong[obj[h]] = 1 THEN @ ELSE "panicked"]
    BY <1>1 DEF DecodeOwned, Decoding, Empty
  <1>3. WireInv' /\ wire' \in [Calls -> Seq(Slots)] /\ place[h] = "wire"
    <2>1. place'[h] = "free" /\ \A g \in Slots \ {h} : place'[g] = place[g]
      BY <1>0, <1>2 DEF Fill, Rest
    <2>2. \A d \in Calls : phase[d] # "none" => phase'[d] # "none"
      BY <1>0, <1>2 DEF Rest
    <2> QED BY <1>0, <1>1, <1>2, <2>1, <2>2, WireShrinks
  <1>4. PICK o \in Objects : o = obj[h]
    BY <1>0, <1>3 DEF Rest
  <1>5. /\ h \in Owners /\ Holding(h) = o /\ Holding(h)' = NoObj
        /\ \A y \in Owners \ {h} : Holding(y)' = Holding(y)
    BY <1>0, <1>2, <1>4, SlotChanges DEF arcVars
  <1>6. Counts' /\ AbsStep
    BY <1>0, <1>2, <1>4, <1>5, OwnerGoes
  <1>7. Rest'
    BY <1>0, <1>2, <1>3 DEF Rest, Fill, Places, Phases, arcVars, isolateVars
  <1> QED BY <1>3, <1>6, <1>7, InvPartsNext

LEMMA Steps == Inv /\ [Next]_vars => Inv' /\ AbsStep
  <1> SUFFICES ASSUME Inv, [Next]_vars PROVE Inv' /\ AbsStep
    OBVIOUS
  <1>1. ASSUME NEW h \in Slots,
               \/ Drop(h) \/ UnwrapHandle(h) \/ DecodeThrows(h)
               \/ \E p \in Ports \cup {"reply"} : Encode(h, p)
               \/ \E o \in Objects : New(o, h)
               \/ \E g \in Slots : Clone(g, h)
        PROVE  Inv' /\ AbsStep
    BY <1>1, DropStep, SentStep, NewStep, CloneStep
  <1>2. ASSUME NEW h \in Slots, NEW a \in Arcs,
               DecodeReply(h, a) \/ \E c \in Calls : EncodeMove(c, a, h) \/ EncodeClone(c, a, h)
        PROVE  Inv' /\ AbsStep
    BY <1>2, DecodeReplyStep, EncodeMoveStep, EncodeCloneStep
  <1>3. ASSUME NEW a \in Arcs, Dispose(a) \/ Finalize(a)
        PROVE  Inv' /\ AbsStep
    BY <1>3, ReleaseArcStep
  <1>4. ASSUME NEW c \in Calls, Decode(c) \/ DecodeOwned(c)
        PROVE  Inv' /\ AbsStep
    BY <1>4, DecodeStep, DecodeOwnedStep
  <1> QED BY <1>1, <1>2, <1>3, <1>4, QuietStep DEF Next, MovesOn

LEMMA Initially == Init => Inv /\ Abs!Init
  <1> SUFFICES ASSUME Init PROVE Inv /\ Abs!Init
    OBVIOUS
  <1>1. \A o \in Objects : OwnersOf(o) = {}
    BY OpaqueAssumption DEF Init, OwnersOf, SlotsOf, ArcsOf
  <1>2. Counts
    <2>1. CountIsOwners
      BY <1>1, FS_EmptySet DEF Init, CountIsOwners
    <2> QED BY <2>1 DEF Init, Counts, Fates
  <1>3. Rest
    BY EmptySeq DEF Init, Rest, Places, Phases
  <1>4. WireInv
    BY DEF Init, WireInv
  <1>5. Abs!Init
    BY <1>1 DEF Init, Abs!Init, AbstractOwners
  <1> QED BY <1>2, <1>3, <1>4, <1>5, InvParts

-----------------------------------------------------------------------------

(* The invariant of the opaque objects: exact counts, and every raw number of *)
(* an argument in one message.                                                *)
THEOREM Invariance == Spec => []Inv
  BY Initially, Steps, PTL DEF Spec

(* The strong count is the number of handles, raw numbers and attached        *)
(* finalizers, whichever side counts them and wherever a call fails.          *)
THEOREM CountExact == Spec => []CountIsOwners
  <1>1. Inv => CountIsOwners
    BY DEF Inv
  <1> QED BY <1>1, Invariance, PTL

(* Nobody, neither Rust code nor a RustArc that is not disposed, gets at an   *)
(* object that was destroyed.                                                 *)
THEOREM Live == Spec => []OwnedIsLive
  <1>1. Inv => OwnedIsLive
    <2> SUFFICES ASSUME Inv PROVE OwnedIsLive
      OBVIOUS
    <2>0. Counts /\ Rest
      BY InvParts
    <2>1. ASSUME NEW h \in Slots, obj[h] # NoObj PROVE fate[obj[h]] = "live"
      <3>1. h \in Owners /\ Holding(h) = obj[h] /\ obj[h] \in Objects
        BY <2>0, <2>1 DEF Owners, Holding, Rest
      <3> QED BY <2>0, <3>1, OwnerCounted
    <2>2. ASSUME NEW a \in Arcs, ptr[a] # NoObj PROVE fate[ptr[a]] = "live" /\ fin[a] = ptr[a]
      <3>1. a \in Owners /\ Holding(a) = ptr[a] /\ ptr[a] \in Objects
        BY <2>0, <2>2, OpaqueAssumption DEF Owners, Holding, Rest
      <3> QED BY <2>0, <3>1, OwnerCounted DEF Rest
    <2> QED BY <2>1, <2>2 DEF OwnedIsLive
  <1> QED BY <1>1, Invariance, PTL

(* An object leaks only with a message: one that was sent to a port that is   *)
(* closed by now, with or without its isolate, one that Dart failed to decode, *)
(* the arguments of a failed call, or an output that failed or that nobody     *)
(* awaits.                                                                     *)
THEOREM NoOtherLeak == Spec => []LeakOnlyByFailure
  <1>1. Inv => LeakOnlyByFailure
    <2> SUFFICES ASSUME Inv, NEW o \in Objects, fate[o] = "live"
                 PROVE  \/ \E h \in SlotsOf(o) : Lost(h)
                        \/ \E h \in SlotsOf(o) :
                             place[h] = "rust" \/ Receives(place[h]) \/ OnWire(h, Pending)
                        \/ ArcsOf(o) # {}
      BY DEF LeakOnlyByFailure
    <2>0. Counts /\ Rest /\ WireInv
      BY InvParts
    <2>1. OwnersOf(o) # {}
      BY <2>0, FS_EmptySet DEF Counts, CountIsOwners
    <2>2. CASE ArcsOf(o) # {}
      BY <2>2
    <2>3. CASE SlotsOf(o) # {}
      <3>1. PICK h \in SlotsOf(o) : TRUE
        BY <2>3
      <3>2. h \in Slots /\ place[h] \in {"rust", "undecoded", "wire", "reply"} \cup Ports
        BY <2>0, <3>1, OpaqueAssumption DEF SlotsOf, Rest, Places
      <3>3. CASE place[h] = "wire"
        <4>1. PICK c \in Calls : \E n \in DOMAIN wire[c] : wire[c][n] = h
          BY <2>0, <3>2, <3>3 DEF WireInv
        <4>2. phase[c] \in Pending \cup {"threw", "panicked", "ignored"}
          BY <2>0, <4>1 DEF WireInv, Rest, Phases, Pending
        <4>3. OnWire(h, Pending) \/ OnWire(h, {"threw", "panicked", "ignored"})
          BY <4>1, <4>2 DEF OnWire
        <4> QED BY <3>1, <4>3 DEF Lost
      <3>4. CASE place[h] = "undecoded"
        BY <3>1, <3>4 DEF Lost
      <3>5. CASE place[h] \in Ports \cup {"reply"}
        BY <3>1, <3>5 DEF Lost
      <3>6. CASE place[h] = "rust"
        BY <3>1, <3>6
      <3> QED BY <3>2, <3>3, <3>4, <3>5, <3>6
    <2> QED BY <2>1, <2>2, <2>3 DEF OwnersOf
  <1> QED BY <1>1, Invariance, PTL

(* Dart and Rust together implement BaseArc: an object lives while somebody   *)
(* owns it, ends once, and is moved out only to its sole owner.               *)
THEOREM Refinement == Spec => ImplementsBaseArc
  <1>1. Inv /\ [Next]_vars => [Abs!Next]_(Abs!arcVars)
    BY Steps DEF AbsStep
  <1> QED BY <1>1, Initially, Invariance, PTL DEF Spec, ImplementsBaseArc, Abs!Spec
=============================================================================
