--------------------------- MODULE LockableProofs ----------------------------
(***************************************************************************)
(* The ordered locking of Lockable, for any number of calls, objects and   *)
(* arguments: borrows are exclusive, requests follow the order, calls that *)
(* borrow distinct objects never deadlock, nothing but a circle stops the  *)
(* calls, and together the locks implement AtomicBorrows.                  *)
(***************************************************************************)
EXTENDS Lockable, WellFoundedInduction, TLAPS

(* The arguments of a call are well typed. *)
LEMMA ArgType ==
  ASSUME NEW a \in ArgLists, NEW i \in DOMAIN a
  PROVE  i \in Index /\ a[i].object_order \in Objects /\ a[i].mutable \in BOOLEAN
  <1>1. PICK n \in Index : a \in [1 .. n -> Info]
    BY DEF ArgLists
  <1>2. i \in 1 .. n
    BY <1>1
  <1>3. i \in Index
    BY <1>2, MaxArgsPositive DEF Index
  <1>4. a[i] \in Info
    BY <1>1, <1>2
  <1> QED BY <1>3, <1>4 DEF Info

LEMMA ArgDomain ==
  ASSUME NEW a \in ArgLists \cup {<<>>}
  PROVE  DOMAIN a \subseteq Index
  <1>1. CASE a \in ArgLists
    BY <1>1, ArgType
  <1>2. CASE a = <<>>
    BY <1>2
  <1> QED BY <1>1, <1>2

(* Sequences as queues. *)
LEMMA AppendFacts ==
  ASSUME NEW T, NEW s \in Seq(T), NEW e \in T
  PROVE  /\ Append(s, e) \in Seq(T)
         /\ DOMAIN s = 1 .. Len(s)
         /\ Len(s) \in Nat
         /\ DOMAIN Append(s, e) = 1 .. Len(s) + 1
         /\ \A k \in DOMAIN s : Append(s, e)[k] = s[k]
         /\ Append(s, e)[Len(s) + 1] = e
  OBVIOUS

LEMMA TailFacts ==
  ASSUME NEW T, NEW s \in Seq(T), s # <<>>
  PROVE  /\ Tail(s) \in Seq(T)
         /\ DOMAIN s = 1 .. Len(s)
         /\ Len(s) \in Nat \ {0}
         /\ Head(s) = s[1]
         /\ 1 \in DOMAIN s
         /\ DOMAIN Tail(s) = 1 .. Len(s) - 1
         /\ \A k \in DOMAIN Tail(s) : k + 1 \in DOMAIN s /\ Tail(s)[k] = s[k + 1]
         /\ \A k \in DOMAIN s : k # 1 => k - 1 \in DOMAIN Tail(s) /\ Tail(s)[k - 1] = s[k]
  OBVIOUS

(* A set of naturals has a least element. *)
LEMMA LeastNatural ==
  ASSUME NEW T \in SUBSET Nat, T # {}
  PROVE  \E m \in T : \A n \in T : m <= n
  <1> DEFINE R == OpToRel(<, Nat)
  <1>1. IsWellFoundedOn(R, Nat)
    BY NatLessThanWellFounded
  <1>2. PICK m \in T : \A n \in T : <<n, m>> \notin R
    <2> HIDE DEF R
    <2> QED BY <1>1, WFMin
  <1>3. \A n \in T : ~(n < m)
    BY <1>2 DEF OpToRel
  <1> QED BY <1>3

(* What the invariant says of one call, one guard, one queue entry. *)
LEMMA GuardType ==
  ASSUME Inv, NEW g \in guards
  PROVE  /\ g = <<g[1], g[2]>> /\ g[1] \in Calls /\ g[2] \in Index
         /\ phase[g[1]] # "idle"
         /\ g[2] \in DOMAIN args[g[1]] /\ g[2] \notin todo[g[1]]
         /\ \A j \in todo[g[1]] : Object(g[1], g[2]) <= Object(g[1], j)
  BY DEF Inv, TypeOK, GuardsOK

LEMMA BusyArgs ==
  ASSUME Inv, NEW c \in Calls, phase[c] # "idle", NEW i \in DOMAIN args[c]
  PROVE  i \in Index /\ Object(c, i) \in Objects /\ Object(c, i) \in Nat /\ Mutable(c, i) \in BOOLEAN
  <1>1. args[c] \in ArgLists
    BY InputsAreArgLists DEF Inv, CallsOK
  <1>2. i \in Index /\ Object(c, i) \in Objects /\ Mutable(c, i) \in BOOLEAN
    BY <1>1, ArgType DEF Object, Mutable
  <1>3. Object(c, i) \in Nat
    <2>1. Object(c, i) \in 0 .. MaxOrder
      BY <1>2, ObjectsAreOrders, Zenon
    <2> QED BY <2>1, ObjectsAreOrders
  <1> QED BY <1>2, <1>3, Zenon

LEMMA EntryType ==
  ASSUME Inv, NEW o \in Objects, NEW k \in DOMAIN queue[o]
  PROVE  LET e == queue[o][k]
         IN  /\ e = <<e[1], e[2]>> /\ e[1] \in Calls /\ e[2] \in Index
             /\ phase[e[1]] = "wait" /\ want[e[1]] = e[2] /\ Object(e[1], e[2]) = o
  <1>1. queue[o] \in Seq(Calls \X Index)
    BY DEF Inv, TypeOK
  <1>2. queue[o][k] \in Calls \X Index
    BY <1>1
  <1> QED BY <1>2 DEF Inv, QueuesOK, EntriesOK

LEMMA WantType ==
  ASSUME Inv, NEW c \in Calls, phase[c] = "wait"
  PROVE  /\ want[c] \in todo[c] /\ want[c] \in DOMAIN args[c] /\ want[c] \in Index
         /\ Object(c, want[c]) \in Objects /\ Object(c, want[c]) \in Nat
         /\ \E k \in DOMAIN queue[Object(c, want[c])] :
              queue[Object(c, want[c])][k] = <<c, want[c]>>
  <1>1. want[c] \in todo[c] /\ want[c] \in DOMAIN args[c]
    BY DEF Inv, CallsOK, DecodeNext
  <1>2. Queued(c, want[c])
    BY DEF Inv, QueuesOK, WaitersQueued
  <1> QED BY <1>1, <1>2, BusyArgs DEF Queued

(* A step that changes no queue and no waiting call keeps the queues right. *)
LEMMA QueuesKept ==
  ASSUME Inv, UNCHANGED queue,
         \A d \in Calls : phase'[d] = "wait" <=> phase[d] = "wait",
         \A d \in Calls : phase[d] = "wait" => want'[d] = want[d] /\ args'[d] = args[d]
  PROVE  QueuesOK'
  <1>1. \A d \in Calls : phase[d] = "wait" => \A i : Object(d, i)' = Object(d, i)
    BY DEF Object
  <1>2. EntriesOK'
    BY <1>1, EntryType DEF EntriesOK
  <1>3. EntriesOnce'
    BY DEF Inv, QueuesOK, EntriesOnce
  <1>4. WaitersQueued'
    <2> SUFFICES ASSUME NEW d \in Calls, phase'[d] = "wait" PROVE Queued(d, want[d])'
      BY DEF WaitersQueued
    <2>1. phase[d] = "wait" /\ want'[d] = want[d] /\ Object(d, want[d])' = Object(d, want[d])
      BY <1>1 DEF Object
    <2>2. Queued(d, want[d])
      BY <2>1 DEF Inv, QueuesOK, WaitersQueued
    <2> QED BY <2>1, <2>2 DEF Queued
  <1> QED BY <1>2, <1>3, <1>4 DEF QueuesOK

LEMMA InitInv == Init => Inv
  <1> SUFFICES ASSUME Init PROVE Inv
    OBVIOUS
  <1>1. TypeOK
    BY DEF Init, TypeOK, Phases
  <1>2. CallsOK
    BY DEF Init, CallsOK
  <1>3. GuardsOK
    BY DEF Init, GuardsOK
  <1>4. QueuesOK
    BY DEF Init, QueuesOK, EntriesOK, EntriesOnce, WaitersQueued
  <1> QED BY <1>1, <1>2, <1>3, <1>4 DEF Inv

-----------------------------------------------------------------------------

LEMMA CallInv ==
  ASSUME Inv, NEW c \in Calls, NEW a \in Inputs, Call(c, a)
  PROVE  Inv'
  <1> USE DEF Call
  <1>0. a \in ArgLists /\ DOMAIN a \subseteq Index
    BY InputsAreArgLists, ArgDomain
  <1>1. TypeOK'
    BY <1>0 DEF Inv, TypeOK, Phases
  <1>2. \A d \in Calls : d # c => /\ phase'[d] = phase[d] /\ args'[d] = args[d]
                                 /\ todo'[d] = todo[d] /\ want'[d] = want[d]
    BY DEF Inv, TypeOK
  <1>3. phase'[c] = "decode" /\ args'[c] = a /\ todo'[c] = DOMAIN a
    BY DEF Inv, TypeOK
  <1>4. CallsOK'
    BY <1>0, <1>2, <1>3 DEF Inv, CallsOK, DecodeNext, Object
  <1>5. \A g \in guards : g[1] \in Calls /\ g[1] # c
    BY GuardType
  <1>6. GuardsOK'
    <2>1. \A g \in guards : /\ phase'[g[1]] = phase[g[1]] /\ todo'[g[1]] = todo[g[1]]
                            /\ args'[g[1]] = args[g[1]]
      BY <1>2, <1>5
    <2>2. ASSUME NEW g \in guards
          PROVE  /\ phase'[g[1]] \notin {"idle"} /\ g[2] \in DOMAIN args'[g[1]] \ todo'[g[1]]
                 /\ \A j \in todo'[g[1]] : Object(g[1], g[2])' <= Object(g[1], j)'
      BY <2>1 DEF Inv, GuardsOK, Object
    <2>3. ASSUME NEW g \in guards, NEW h \in guards, g # h,
                 Object(g[1], g[2])' = Object(h[1], h[2])'
          PROVE  ~Mutable(g[1], g[2])' /\ ~Mutable(h[1], h[2])'
      <3>1. args'[g[1]] = args[g[1]] /\ args'[h[1]] = args[h[1]]
        BY <2>1
      <3>2. Object(g[1], g[2]) = Object(h[1], h[2])
        BY <2>3, <3>1 DEF Object
      <3>3. ~Mutable(g[1], g[2]) /\ ~Mutable(h[1], h[2])
        BY <2>3, <3>2 DEF Inv, GuardsOK
      <3> QED BY <3>1, <3>3 DEF Mutable
    <2> QED BY <2>2, <2>3 DEF GuardsOK
  <1>8. QueuesOK'
    BY <1>2, <1>3, QueuesKept
  <1> QED BY <1>1, <1>4, <1>6, <1>8 DEF Inv

(* A guard for the next argument in order, that fits the guards that are out. *)
LEMMA NewGuardOK ==
  ASSUME Inv, NEW c \in Calls, phase[c] \in {"decode", "wait"},
         NEW i \in DecodeNext(c), Compatible(Object(c, i), Mutable(c, i)),
         guards' = guards \cup {<<c, i>>},
         todo' = [todo EXCEPT ![c] = @ \ {i}],
         phase'[c] = "decode", \A d \in Calls : d # c => phase'[d] = phase[d],
         UNCHANGED args
  PROVE  /\ guards' \subseteq Calls \X Index
         /\ todo' \in [Calls -> SUBSET Index]
         /\ GuardsOK'
  <1>1. i \in todo[c] /\ i \in DOMAIN args[c] /\ i \in Index
    BY BusyArgs DEF DecodeNext, Inv, CallsOK
  <1>2. guards' \subseteq Calls \X Index /\ todo' \in [Calls -> SUBSET Index]
    BY <1>1 DEF Inv, TypeOK
  <1>3. todo'[c] = todo[c] \ {i} /\ \A d \in Calls : d # c => todo'[d] = todo[d]
    BY DEF Inv, TypeOK
  <1>4. ASSUME NEW g \in guards'
        PROVE  /\ phase'[g[1]] \notin {"idle"} /\ g[2] \in DOMAIN args[g[1]] \ todo'[g[1]]
               /\ \A j \in todo'[g[1]] : Object(g[1], g[2]) <= Object(g[1], j)
    <2>1. CASE g = <<c, i>>
      BY <1>1, <1>3, <2>1 DEF DecodeNext
    <2>2. CASE g \in guards
      BY <1>3, <2>2, GuardType
    <2> QED BY <2>1, <2>2
  <1>5. ASSUME NEW g \in guards', NEW h \in guards', g # h,
               Object(g[1], g[2]) = Object(h[1], h[2])
        PROVE  ~Mutable(g[1], g[2]) /\ ~Mutable(h[1], h[2])
    <2>1. \A x \in guards : Object(x[1], x[2]) = Object(c, i) =>
                            ~Mutable(c, i) /\ ~Mutable(x[1], x[2])
      BY DEF Compatible, GuardsOf
    <2>2. CASE g \in guards /\ h \in guards
      BY <2>2, <1>5 DEF Inv, GuardsOK
    <2>3. CASE g = <<c, i>> \/ h = <<c, i>>
      BY <2>1, <2>3, <1>5
    <2> QED BY <2>2, <2>3
  <1>6. GuardsOK'
    BY <1>4, <1>5 DEF GuardsOK, Object, Mutable
  <1> QED BY <1>2, <1>6

LEMMA AcquireInv ==
  ASSUME Inv, NEW c \in Calls, Acquire(c)
  PROVE  Inv'
  <1> PICK i \in DecodeNext(c) :
        /\ queue[Object(c, i)] = <<>> /\ Compatible(Object(c, i), Mutable(c, i))
        /\ guards' = guards \cup {<<c, i>>}
        /\ todo' = [todo EXCEPT ![c] = @ \ {i}]
    BY DEF Acquire
  <1> phase[c] = "decode" /\ UNCHANGED <<phase, args, want, queue>>
    BY DEF Acquire
  <1>1. /\ guards' \subseteq Calls \X Index
        /\ todo' \in [Calls -> SUBSET Index]
        /\ GuardsOK'
    BY NewGuardOK
  <1>2. TypeOK'
    BY <1>1 DEF Inv, TypeOK
  <1>3. CallsOK'
    BY DEF Inv, TypeOK, CallsOK, DecodeNext, Object
  <1>4. QueuesOK'
    BY QueuesKept
  <1> QED BY <1>1, <1>2, <1>3, <1>4 DEF Inv

LEMMA EnqueueInv ==
  ASSUME Inv, NEW c \in Calls, Enqueue(c)
  PROVE  Inv'
  <1> PICK i \in DecodeNext(c) :
        /\ queue' = [queue EXCEPT ![Object(c, i)] = Append(@, <<c, i>>)]
        /\ want' = [want EXCEPT ![c] = i]
    BY DEF Enqueue
  <1> /\ phase[c] = "decode" /\ phase' = [phase EXCEPT ![c] = "wait"]
      /\ UNCHANGED <<args, todo, guards>>
    BY DEF Enqueue
  <1> DEFINE o == Object(c, i)
  <1>0. i \in todo[c] /\ i \in DOMAIN args[c]
    BY DEF DecodeNext, Inv, CallsOK
  <1>1. i \in Index /\ o \in Objects
    BY <1>0, BusyArgs
  <1>2. /\ Append(queue[o], <<c, i>>) \in Seq(Calls \X Index)
        /\ DOMAIN queue[o] = 1 .. Len(queue[o])
        /\ Len(queue[o]) \in Nat
        /\ DOMAIN Append(queue[o], <<c, i>>) = 1 .. Len(queue[o]) + 1
        /\ \A k \in DOMAIN queue[o] : Append(queue[o], <<c, i>>)[k] = queue[o][k]
        /\ Append(queue[o], <<c, i>>)[Len(queue[o]) + 1] = <<c, i>>
    <2>1. queue[o] \in Seq(Calls \X Index) /\ <<c, i>> \in Calls \X Index
      BY <1>1 DEF Inv, TypeOK
    <2> QED BY <2>1, AppendFacts
  <1>3. TypeOK'
    BY <1>1, <1>2 DEF Inv, TypeOK, Phases
  <1>4. /\ phase'[c] = "wait" /\ want'[c] = i
        /\ \A d \in Calls : d # c => phase'[d] = phase[d] /\ want'[d] = want[d]
    BY DEF Inv, TypeOK
  <1>5. CallsOK'
    BY <1>4 DEF Inv, CallsOK, DecodeNext, Object
  <1>6. GuardsOK'
    BY <1>4, GuardType DEF Inv, GuardsOK, Object, Mutable
  <1>7. \A p \in Objects : \A k \in DOMAIN queue[p] :
          LET e == queue[p][k]
          IN  /\ e = <<e[1], e[2]>> /\ e[1] \in Calls /\ e[1] # c
              /\ phase[e[1]] = "wait" /\ want[e[1]] = e[2] /\ Object(e[1], e[2]) = p
    BY EntryType
  <1>8. /\ queue'[o] = Append(queue[o], <<c, i>>)
        /\ \A p \in Objects : p # o => queue'[p] = queue[p]
    BY <1>1 DEF Inv, TypeOK
  <1>9. QueuesOK'
    <2>1. ASSUME NEW p \in Objects, NEW k \in DOMAIN queue'[p]
          PROVE  LET e == queue'[p][k]
                 IN phase'[e[1]] = "wait" /\ want'[e[1]] = e[2] /\ Object(e[1], e[2]) = p
      <3>1. CASE p = o /\ k = Len(queue[o]) + 1
        BY <3>1, <1>2, <1>4, <1>8
      <3>2. CASE k \in DOMAIN queue[p]
        <4>1. queue'[p][k] = queue[p][k]
          BY <3>2, <1>2, <1>8
        <4> QED BY <3>2, <4>1, <1>4, <1>7
      <3> QED BY <3>1, <3>2, <2>1, <1>2, <1>8
    <2>2. ASSUME NEW p \in Objects, NEW j \in DOMAIN queue'[p], NEW k \in DOMAIN queue'[p],
                 queue'[p][j] = queue'[p][k]
          PROVE  j = k
      <3>1. CASE p # o
        BY <3>1, <2>2, <1>8 DEF Inv, QueuesOK, EntriesOnce
      <3>2. CASE p = o
        <4>1. \A n \in DOMAIN queue[o] : queue'[o][n] = queue[o][n] /\ queue'[o][n] # <<c, i>>
          BY <1>1, <1>2, <1>7, <1>8
        <4>2. queue'[o][Len(queue[o]) + 1] = <<c, i>>
          BY <1>2, <1>8
        <4>3. j \in DOMAIN queue[o] \/ j = Len(queue[o]) + 1
          BY <3>2, <1>2, <1>8
        <4>4. k \in DOMAIN queue[o] \/ k = Len(queue[o]) + 1
          BY <3>2, <1>2, <1>8
        <4> QED BY <3>2, <2>2, <4>1, <4>2, <4>3, <4>4, <1>1 DEF Inv, QueuesOK, EntriesOnce
      <3> QED BY <3>1, <3>2
    <2>3. ASSUME NEW d \in Calls, phase'[d] = "wait"
          PROVE  \E k \in DOMAIN queue'[Object(d, want'[d])] :
                   queue'[Object(d, want'[d])][k] = <<d, want'[d]>>
      <3>1. CASE d = c
        <4>1. want'[d] = i /\ Object(d, want'[d]) = o
          BY <3>1, <1>4
        <4>2. Len(queue[o]) + 1 \in DOMAIN queue'[o] /\ queue'[o][Len(queue[o]) + 1] = <<c, i>>
          BY <1>2, <1>8
        <4> QED BY <3>1, <4>1, <4>2
      <3>2. CASE d # c
        <4>1. phase[d] = "wait" /\ want'[d] = want[d]
          BY <3>2, <2>3, <1>4
        <4>2. PICK p \in Objects : p = Object(d, want[d])
          BY <4>1, WantType
        <4>3. PICK k \in DOMAIN queue[p] : queue[p][k] = <<d, want[d]>>
          BY <4>1, <4>2, WantType
        <4>4. k \in DOMAIN queue'[p] /\ queue'[p][k] = queue[p][k]
          BY <4>2, <4>3, <1>2, <1>8
        <4> QED BY <4>1, <4>2, <4>3, <4>4
      <3> QED BY <3>1, <3>2
    <2>4. \A d, n : Object(d, n)' = Object(d, n)
      BY DEF Object
    <2>5. EntriesOK'
      BY <2>1, <2>4 DEF EntriesOK
    <2>6. EntriesOnce'
      BY <2>2 DEF EntriesOnce
    <2>7. WaitersQueued'
      BY <2>3, <2>4 DEF WaitersQueued, Queued
    <2> QED BY <2>5, <2>6, <2>7 DEF QueuesOK
  <1> QED BY <1>3, <1>5, <1>6, <1>9 DEF Inv

LEMMA GrantInv ==
  ASSUME Inv, NEW o \in Objects, Grant(o)
  PROVE  Inv'
  <1> DEFINE c == Head(queue[o])[1]
             i == Head(queue[o])[2]
  <1>0. /\ queue[o] # <<>>
        /\ Compatible(o, Mutable(c, i))
        /\ guards' = guards \cup {<<c, i>>}
        /\ todo' = [todo EXCEPT ![c] = @ \ {i}]
        /\ want' = [want EXCEPT ![c] = 0]
        /\ phase' = [phase EXCEPT ![c] = "decode"]
        /\ queue' = [queue EXCEPT ![o] = Tail(@)]
        /\ UNCHANGED args
    BY DEF Grant, Grantable
  <1>1. /\ Tail(queue[o]) \in Seq(Calls \X Index)
        /\ DOMAIN queue[o] = 1 .. Len(queue[o])
        /\ Len(queue[o]) \in Nat \ {0}
        /\ Head(queue[o]) = queue[o][1]
        /\ 1 \in DOMAIN queue[o]
        /\ DOMAIN Tail(queue[o]) = 1 .. Len(queue[o]) - 1
        /\ \A k \in DOMAIN Tail(queue[o]) :
             k + 1 \in DOMAIN queue[o] /\ Tail(queue[o])[k] = queue[o][k + 1]
        /\ \A k \in DOMAIN queue[o] :
             k # 1 => k - 1 \in DOMAIN Tail(queue[o]) /\ Tail(queue[o])[k - 1] = queue[o][k]
    <2>1. queue[o] \in Seq(Calls \X Index)
      BY DEF Inv, TypeOK
    <2> QED BY <2>1, <1>0, TailFacts
  <1>2. /\ queue[o][1] = <<c, i>> /\ c \in Calls /\ i \in Index
        /\ phase[c] = "wait" /\ want[c] = i /\ Object(c, i) = o
    BY <1>1, EntryType
  <1>3. i \in DecodeNext(c)
    BY <1>2 DEF Inv, CallsOK
  <1>4. /\ phase'[c] = "decode" /\ want'[c] = 0 /\ todo'[c] = todo[c] \ {i}
        /\ \A d \in Calls : d # c => /\ phase'[d] = phase[d] /\ want'[d] = want[d]
                                    /\ todo'[d] = todo[d]
    BY <1>0, <1>2 DEF Inv, TypeOK
  <1>5. /\ guards' \subseteq Calls \X Index
        /\ todo' \in [Calls -> SUBSET Index]
        /\ GuardsOK'
    <2> HIDE DEF c, i
    <2> QED BY <1>0, <1>2, <1>3, <1>4, NewGuardOK
  <1>6. TypeOK'
    BY <1>0, <1>1, <1>2, <1>5 DEF Inv, TypeOK, Phases
  <1>7. CallsOK'
    <2> HIDE DEF c, i
    <2> QED BY <1>0, <1>2, <1>4 DEF Inv, CallsOK, DecodeNext, Object
  <1>8. /\ queue'[o] = Tail(queue[o])
        /\ \A p \in Objects : p # o => queue'[p] = queue[p]
    BY <1>0 DEF Inv, TypeOK
  <1>9. QueuesOK'
    <2> HIDE DEF c, i
    <2>0. \A p \in Objects : \A k \in DOMAIN queue[p] :
            /\ queue[p][k][1] \in Calls
            /\ queue[p][k][1] = c => p = o /\ k = 1
      <3> SUFFICES ASSUME NEW p \in Objects, NEW k \in DOMAIN queue[p], queue[p][k][1] = c
                   PROVE  p = o /\ k = 1
        BY EntryType
      <3>1. queue[p][k] = <<c, i>> /\ p = o
        BY <1>2, EntryType
      <3>2. queue[o][k] = queue[o][1] /\ k \in DOMAIN queue[o]
        BY <3>1, <1>2
      <3> QED BY <3>1, <3>2, <1>1 DEF Inv, QueuesOK, EntriesOnce
    <2>1. ASSUME NEW p \in Objects, NEW k \in DOMAIN queue'[p]
          PROVE  LET e == queue'[p][k]
                 IN phase'[e[1]] = "wait" /\ want'[e[1]] = e[2] /\ Object(e[1], e[2]) = p
      <3>1. PICK n \in DOMAIN queue[p] : queue'[p][k] = queue[p][n] /\ (p = o => n # 1)
        <4>1. CASE p = o
          <5>1. k \in DOMAIN Tail(queue[o])
            BY <2>1, <4>1, <1>8
          <5>2. /\ k + 1 \in DOMAIN queue[o] /\ k + 1 # 1
                /\ queue'[p][k] = queue[o][k + 1]
            BY <4>1, <5>1, <1>1, <1>8
          <5> QED BY <4>1, <5>2
        <4>2. CASE p # o
          BY <2>1, <4>2, <1>8
        <4> QED BY <4>1, <4>2
      <3>2. queue[p][n][1] # c /\ queue[p][n][1] \in Calls
        BY <3>1, <2>0
      <3> QED BY <3>1, <3>2, <1>4, EntryType
    <2>2. ASSUME NEW p \in Objects, NEW j \in DOMAIN queue'[p], NEW k \in DOMAIN queue'[p],
                 queue'[p][j] = queue'[p][k]
          PROVE  j = k
      <3>1. CASE p # o
        BY <3>1, <2>2, <1>8 DEF Inv, QueuesOK, EntriesOnce
      <3>2. CASE p = o
        <4>1. j \in DOMAIN Tail(queue[o]) /\ k \in DOMAIN Tail(queue[o])
          BY <3>2, <1>8
        <4>2. queue[o][j + 1] = queue[o][k + 1] /\ j + 1 \in DOMAIN queue[o] /\ k + 1 \in DOMAIN queue[o]
          BY <3>2, <2>2, <4>1, <1>1, <1>8
        <4>3. j + 1 = k + 1
          BY <4>2 DEF Inv, QueuesOK, EntriesOnce
        <4> QED BY <4>1, <4>3, <1>1
      <3> QED BY <3>1, <3>2
    <2>3. ASSUME NEW d \in Calls, phase'[d] = "wait"
          PROVE  \E k \in DOMAIN queue'[Object(d, want'[d])] :
                   queue'[Object(d, want'[d])][k] = <<d, want'[d]>>
      <3>1. d # c /\ phase[d] = "wait" /\ want'[d] = want[d]
        BY <2>3, <1>4
      <3>2. PICK k \in DOMAIN queue[Object(d, want[d])] :
                   queue[Object(d, want[d])][k] = <<d, want[d]>>
        BY <3>1, WantType
      <3>3. Object(d, want[d]) \in Objects
        BY <3>1, WantType
      <3>4. CASE Object(d, want[d]) # o
        BY <3>1, <3>2, <3>3, <3>4, <1>8
      <3>5. CASE Object(d, want[d]) = o
        <4>1. k # 1
          BY <3>1, <3>2, <3>5, <1>2
        <4>2. k - 1 \in DOMAIN queue'[o] /\ queue'[o][k - 1] = <<d, want[d]>>
          BY <3>2, <3>5, <4>1, <1>1, <1>8
        <4> QED BY <3>1, <3>5, <4>2
      <3> QED BY <3>4, <3>5
    <2>4. \A d, n : Object(d, n)' = Object(d, n)
      BY <1>0 DEF Object
    <2>5. EntriesOK'
      BY <2>1, <2>4 DEF EntriesOK
    <2>6. EntriesOnce'
      BY <2>2 DEF EntriesOnce
    <2>7. WaitersQueued'
      BY <2>3, <2>4 DEF WaitersQueued, Queued
    <2> QED BY <2>5, <2>6, <2>7 DEF QueuesOK
  <1> QED BY <1>5, <1>6, <1>7, <1>9 DEF Inv

LEMMA BodyInv ==
  ASSUME Inv, NEW c \in Calls, Body(c)
  PROVE  Inv'
  <1> USE DEF Body
  <1>1. TypeOK'
    BY DEF Inv, TypeOK, Phases
  <1>2. CallsOK'
    BY DEF Inv, TypeOK, CallsOK, DecodeNext, Object
  <1>3. GuardsOK'
    BY GuardType DEF Inv, TypeOK, GuardsOK, Object, Mutable
  <1>4. QueuesOK'
    BY QueuesKept DEF Inv, TypeOK
  <1> QED BY <1>1, <1>2, <1>3, <1>4 DEF Inv

LEMMA ReturnInv ==
  ASSUME Inv, NEW c \in Calls, Return(c)
  PROVE  Inv'
  <1> USE DEF Return
  <1>1. TypeOK'
    BY DEF Inv, TypeOK, Phases
  <1>2. CallsOK'
    BY DEF Inv, TypeOK, CallsOK, DecodeNext, Object
  <1>3. GuardsOK'
    BY GuardType DEF Inv, TypeOK, GuardsOK, Object, Mutable
  <1>4. QueuesOK'
    BY QueuesKept DEF Inv, TypeOK
  <1> QED BY <1>1, <1>2, <1>3, <1>4 DEF Inv

LEMMA DropGuardInv ==
  ASSUME Inv, NEW c \in Calls, DropGuard(c)
  PROVE  Inv'
  <1> PICK i \in LastGuard(c) : guards' = guards \ {<<c, i>>}
    BY DEF DropGuard
  <1> phase[c] = "drop" /\ UNCHANGED <<phase, args, todo, want, queue>>
    BY DEF DropGuard
  <1>1. TypeOK'
    BY DEF Inv, TypeOK
  <1>2. CallsOK'
    BY DEF Inv, CallsOK, DecodeNext, Object
  <1>3. GuardsOK'
    BY DEF Inv, GuardsOK, Object, Mutable
  <1>4. QueuesOK'
    BY QueuesKept
  <1> QED BY <1>1, <1>2, <1>3, <1>4 DEF Inv

LEMMA NoGuardLeft ==
  ASSUME Inv, NEW c \in Calls, LastGuard(c) = {}
  PROVE  \A g \in guards : g[1] # c
  <1> SUFFICES ASSUME NEW g \in guards, g[1] = c PROVE FALSE
    OBVIOUS
  <1> DEFINE T == {n \in Nat : \E j \in Index : <<c, j>> \in guards /\ n = MaxArgs - j}
  <1>1. g[2] \in Index /\ <<c, g[2]>> \in guards
    BY GuardType
  <1>2. MaxArgs - g[2] \in T
    BY <1>1, MaxArgsPositive DEF Index
  <1>3. PICK m \in T : \A n \in T : m <= n
    BY <1>2, LeastNatural
  <1>4. PICK j \in Index : <<c, j>> \in guards /\ m = MaxArgs - j
    BY <1>3
  <1>5. ASSUME NEW k \in Index, <<c, k>> \in guards PROVE k <= j
    <2>1. MaxArgs - k \in T
      BY <1>5, MaxArgsPositive DEF Index
    <2> QED BY <2>1, <1>3, <1>4, MaxArgsPositive DEF Index
  <1> QED BY <1>4, <1>5 DEF LastGuard

LEMMA DoneInv ==
  ASSUME Inv, NEW c \in Calls, Done(c)
  PROVE  Inv'
  <1> USE DEF Done
  <1>0. \A g \in guards : g[1] # c
    BY NoGuardLeft
  <1>1. TypeOK'
    BY DEF Inv, TypeOK, Phases
  <1>2. CallsOK'
    BY DEF Inv, TypeOK, CallsOK, DecodeNext, Object
  <1>3. GuardsOK'
    BY <1>0, GuardType DEF Inv, TypeOK, GuardsOK, Object, Mutable
  <1>4. QueuesOK'
    BY QueuesKept DEF Inv, TypeOK
  <1> QED BY <1>1, <1>2, <1>3, <1>4 DEF Inv

LEMMA NextInv == Inv /\ [Next]_vars => Inv'
  <1> SUFFICES ASSUME Inv, [Next]_vars PROVE Inv'
    OBVIOUS
  <1>1. CASE UNCHANGED vars
    <2> USE <1>1 DEF vars
    <2>1. TypeOK' /\ CallsOK' /\ GuardsOK'
      BY DEF Inv, TypeOK, CallsOK, GuardsOK, DecodeNext, Object, Mutable
    <2>2. QueuesOK'
      BY QueuesKept
    <2> QED BY <2>1, <2>2 DEF Inv
  <1>2. CASE Next
    BY <1>2, CallInv, AcquireInv, EnqueueInv, GrantInv, BodyInv, ReturnInv, DropGuardInv, DoneInv
       DEF Next, Step
  <1> QED BY <1>1, <1>2

-----------------------------------------------------------------------------

(* Every reachable state satisfies the invariant. *)
THEOREM Invariance == Spec => []Inv
  BY InitInv, NextInv, PTL DEF Spec

(* Requests follow the order of the objects. *)
THEOREM LockHierarchy == Spec => []OrderedWaiting
  <1>1. Inv => OrderedWaiting
    BY GuardType DEF Inv, CallsOK, DecodeNext, OrderedWaiting
  <1> QED BY <1>1, Invariance, PTL

(* A function runs with all its borrows, and mutable ones are exclusive. *)
THEOREM ExclusiveBorrows == Spec => []BodyHasExclusiveBorrows
  <1>1. Inv => BodyHasExclusiveBorrows
    <2> SUFFICES ASSUME Inv, NEW c \in Calls, phase[c] = "body", NEW i \in DOMAIN args[c]
                 PROVE  /\ <<c, i>> \in guards
                        /\ Mutable(c, i) => GuardsOf(Object(c, i)) = {<<c, i>>}
      BY DEF BodyHasExclusiveBorrows
    <2>1. <<c, i>> \in guards
      BY DEF Inv, CallsOK
    <2>2. ASSUME Mutable(c, i) PROVE GuardsOf(Object(c, i)) = {<<c, i>>}
      BY <2>1, <2>2 DEF Inv, GuardsOK, GuardsOf
    <2> QED BY <2>1, <2>2
  <1> QED BY <1>1, Invariance, PTL

(* The borrow check rules out that a call waits for its own guard. *)
THEOREM SelfBlockFree == Spec => []NoSelfBlock
  <1>1. Inv => NoSelfBlock
    <2> SUFFICES ASSUME Inv, NEW c \in Calls, phase[c] = "wait", BlockedBy(c, c)
                 PROVE  FALSE
      BY DEF NoSelfBlock
    <2> DEFINE w == want[c]
               o == Object(c, w)
    <2>0. w \in todo[c] /\ w \in DOMAIN args[c] /\ o \in Objects /\ NoImmediateInvalidBorrow(args[c])
      BY BusyArgs DEF Inv, CallsOK, DecodeNext
    <2>1. CASE \E g \in GuardsOf(o) : g[1] = c /\ (Mutable(c, w) \/ Mutable(g[1], g[2]))
      <3>1. PICK g \in guards : g[1] = c /\ Object(c, g[2]) = o /\ (Mutable(c, w) \/ Mutable(c, g[2]))
        BY <2>1 DEF GuardsOf
      <3>2. g[2] \in DOMAIN args[c] /\ g[2] # w
        BY <3>1, <2>0, GuardType
      <3> QED BY <3>1, <3>2, <2>0 DEF NoImmediateInvalidBorrow, Object, Mutable
    <2>2. CASE \E j, k \in DOMAIN queue[o] :
                 j < k /\ queue[o][j] = <<c, w>> /\ queue[o][k] = <<c, w>>
      <3>1. PICK j, k \in DOMAIN queue[o] :
                   j < k /\ queue[o][j] = <<c, w>> /\ queue[o][k] = <<c, w>>
        BY <2>2
      <3>2. j = k
        BY <3>1, <2>0 DEF Inv, QueuesOK, EntriesOnce
      <3>3. j \in Nat
        BY <2>0, <3>1 DEF Inv, TypeOK
      <3> QED BY <3>1, <3>2, <3>3
    <2> QED BY <2>1, <2>2 DEF BlockedBy
  <1> QED BY <1>1, Invariance, PTL

(* Calls that borrow distinct objects do not deadlock.  Of a set of waiting
   calls take one that wants the youngest object and is first in its queue: who
   blocks it would have to want an even younger object. *)
THEOREM DeadlockFree == Spec => []DeadlockNeedsAliasing
  <1>1. Inv => DeadlockNeedsAliasing
    <2> SUFFICES ASSUME Inv, NEW S \in SUBSET {c \in Waiting : Distinct(args[c])}, S # {}
                 PROVE  \E c \in S : \A d \in S : ~BlockedBy(c, d)
      BY DEF DeadlockNeedsAliasing, NoCircle
    <2> DEFINE W(c) == Object(c, want[c])
    <2>0. \A c \in S : /\ c \in Calls /\ phase[c] = "wait"
                       /\ want[c] \in todo[c] /\ want[c] \in DOMAIN args[c]
                       /\ W(c) \in Objects /\ W(c) \in 0 .. MaxOrder
                       /\ Distinct(args[c])
      BY BusyArgs, ObjectsAreOrders DEF Inv, CallsOK, DecodeNext, Waiting
    <2>1. PICK o \in Objects : (\E c \in S : W(c) = o) /\ \A c \in S : W(c) <= o
      <3> DEFINE T == {n \in Nat : \E c \in S : n = MaxOrder - W(c)}
      <3>1. \A c \in S : MaxOrder - W(c) \in T
        BY <2>0, ObjectsAreOrders
      <3>2. PICK m \in T : \A n \in T : m <= n
        <4>1. T # {} /\ T \in SUBSET Nat
          BY <3>1
        <4> HIDE DEF T
        <4> QED BY <4>1, LeastNatural
      <3>3. PICK c \in S : m = MaxOrder - W(c)
        BY <3>2
      <3>4. \A d \in S : W(d) <= W(c)
        BY <3>1, <3>2, <3>3, <2>0, ObjectsAreOrders
      <3> QED BY <3>3, <3>4, <2>0
    <2>2. DOMAIN queue[o] \subseteq Nat
      BY DEF Inv, TypeOK
    <2>3. PICK c \in S, k \in DOMAIN queue[o] :
            /\ W(c) = o /\ queue[o][k] = <<c, want[c]>>
            /\ \A d \in S, j \in DOMAIN queue[o] : queue[o][j] = <<d, want[d]>> => k <= j
      <3> DEFINE T == {n \in DOMAIN queue[o] : \E d \in S : queue[o][n] = <<d, want[d]>>}
      <3>1. PICK b \in S : W(b) = o
        BY <2>1
      <3>2. PICK n \in DOMAIN queue[o] : queue[o][n] = <<b, want[b]>>
        BY <3>1, <2>0, WantType
      <3>3. PICK k \in T : \A j \in T : k <= j
        <4>1. T # {} /\ T \in SUBSET Nat
          BY <3>2, <2>2
        <4> HIDE DEF T
        <4> QED BY <4>1, LeastNatural
      <3>4. PICK c \in S : queue[o][k] = <<c, want[c]>>
        BY <3>3
      <3>5. W(c) = o
        BY <3>3, <3>4, EntryType
      <3> QED BY <3>3, <3>4, <3>5
    <2>4. ASSUME NEW d \in S, BlockedBy(c, d) PROVE FALSE
      <3>1. CASE \E g \in GuardsOf(o) : g[1] = d
        <4>1. PICK g \in guards : g[1] = d /\ Object(d, g[2]) = o
          BY <3>1 DEF GuardsOf
        <4>2. g[2] \in DOMAIN args[d] /\ g[2] # want[d] /\ Object(d, g[2]) <= W(d)
          BY <4>1, <2>0, GuardType
        <4>3. W(d) # o
          BY <4>1, <4>2, <2>0 DEF Distinct, Object
        <4> QED BY <4>1, <4>2, <4>3, <2>0, <2>1, ObjectsAreOrders
      <3>2. CASE \E j, n \in DOMAIN queue[o] :
                   j < n /\ queue[o][j] = <<d, want[d]>> /\ queue[o][n] = <<c, want[c]>>
        <4>1. PICK j, n \in DOMAIN queue[o] :
                     j < n /\ queue[o][j] = <<d, want[d]>> /\ queue[o][n] = <<c, want[c]>>
          BY <3>2
        <4>2. n = k
          BY <4>1, <2>3 DEF Inv, QueuesOK, EntriesOnce
        <4> QED BY <4>1, <4>2, <2>2, <2>3
      <3> QED BY <2>3, <2>4, <3>1, <3>2 DEF BlockedBy
    <2> QED BY <2>4
  <1> QED BY <1>1, Invariance, PTL

(* Where no call names an object twice, the locking is free of deadlock. *)
THEOREM AliasFree == (\A a \in Inputs : Distinct(a)) => (Spec => []NoDeadlock)
  <1> SUFFICES ASSUME \A a \in Inputs : Distinct(a) PROVE Spec => []NoDeadlock
    OBVIOUS
  <1>1. Inv => {c \in Waiting : Distinct(args[c])} = Waiting
    BY DEF Inv, CallsOK, Waiting
  <1>2. Inv /\ DeadlockNeedsAliasing => NoDeadlock
    BY <1>1 DEF DeadlockNeedsAliasing, NoDeadlock
  <1> QED BY <1>2, Invariance, DeadlockFree, PTL
(* Of the arguments that are left there is one to decode next. *)
LEMMA DecodeNextExists ==
  ASSUME Inv, NEW c \in Calls, todo[c] # {} PROVE DecodeNext(c) # {}
  <1> DEFINE T == {Object(c, j) : j \in todo[c]}
  <1>1. \A j \in todo[c] : Object(c, j) \in Nat
    BY BusyArgs, ObjectsAreOrders DEF Inv, CallsOK
  <1>2. PICK m \in T : \A n \in T : m <= n
    <2>1. T # {} /\ T \in SUBSET Nat
      BY <1>1
    <2> HIDE DEF T
    <2> QED BY <2>1, LeastNatural
  <1> QED BY <1>2 DEF DecodeNext

(* BlockedBy names everybody a waiting call waits for: when it blocks nobody
   else, it is first in its queue and the lock can give it its guard. *)
LEMMA UnblockedIsGrantable ==
  ASSUME Inv, NEW c \in Waiting, \A d \in Calls : ~BlockedBy(c, d)
  PROVE  Grantable(Object(c, want[c])) /\ Object(c, want[c]) \in Objects
  <1> DEFINE o == Object(c, want[c])
  <1>1. c \in Calls /\ phase[c] = "wait" /\ o \in Objects /\ Queued(c, want[c])
    BY BusyArgs DEF Inv, CallsOK, DecodeNext, Waiting, QueuesOK, WaitersQueued
  <1>2. PICK k \in DOMAIN queue[o] : queue[o][k] = <<c, want[c]>>
    BY <1>1 DEF Queued
  <1>3. queue[o] \in Seq(Calls \X Index) /\ queue[o] # <<>>
    BY <1>1, <1>2 DEF Inv, TypeOK
  <1>4. 1 \in DOMAIN queue[o] /\ Head(queue[o]) = queue[o][1] /\ k \in Nat /\ k >= 1
    BY <1>2, <1>3
  <1>5. k = 1
    <2> SUFFICES ASSUME 1 < k PROVE FALSE
      BY <1>4
    <2>1. PICK d \in Calls : queue[o][1] = <<d, want[d]>>
      BY <1>1, <1>4, EntryType
    <2> QED BY <2>1, <1>2, <1>4 DEF BlockedBy
  <1>6. Compatible(o, Mutable(c, want[c]))
    BY GuardType DEF Compatible, BlockedBy, GuardsOf
  <1> QED BY <1>1, <1>2, <1>3, <1>4, <1>5, <1>6 DEF Grantable

(* Without a circle of waiting calls the locks do not come to a stop: of the
   waiting calls take one that none of them blocks; if nobody else is busy it
   has its guard for the taking. *)
THEOREM OnlyCirclesStop == Spec => []NotStuck
  <1>1. Inv => NotStuck
    <2> SUFFICES ASSUME Inv, NoDeadlock, NEW b \in Calls, phase[b] # "idle",
                        \A c \in Calls : ~CanGo(c)
                 PROVE  \E o \in Objects : Grantable(o)
      BY DEF NotStuck
    <2>1. ASSUME NEW d \in Calls, phase[d] # "idle" PROVE d \in Waiting
      <3>1. phase[d] \in Phases /\ ~CanGo(d)
        BY DEF Inv, TypeOK
      <3>2. phase[d] # "decode"
        BY <3>1, DecodeNextExists DEF CanGo
      <3> QED BY <2>1, <3>1, <3>2 DEF CanGo, Phases, Waiting
    <2>2. PICK c \in Waiting : \A d \in Waiting : ~BlockedBy(c, d)
      BY <2>1 DEF NoDeadlock, NoCircle
    <2>3. ASSUME NEW d \in Calls, BlockedBy(c, d) PROVE FALSE
      <3> DEFINE o == Object(c, want[c])
      <3>1. o \in Objects
        BY BusyArgs DEF Inv, CallsOK, DecodeNext, Waiting
      <3>2. CASE \E g \in GuardsOf(o) : g[1] = d
        BY <3>2, <2>1, <2>2, <2>3, GuardType DEF GuardsOf
      <3>3. CASE \E j \in DOMAIN queue[o] : queue[o][j] = <<d, want[d]>>
        BY <3>3, <3>1, <2>1, <2>2, <2>3 DEF Inv, QueuesOK, EntriesOK
      <3> QED BY <2>3, <3>2, <3>3 DEF BlockedBy
    <2> QED BY <2>2, <2>3, UnblockedIsGrantable
  <1> QED BY <1>1, Invariance, PTL

-----------------------------------------------------------------------------
(* The abstract specification                                              *)

(* What a call has with its body: a list of arguments that is not empty. *)
LEMMA InputsNotEmpty == ASSUME NEW a \in Inputs PROVE a # <<>>
  <1>1. PICK n \in Index : a \in [1 .. n -> Info]
    BY InputsAreArgLists DEF ArgLists
  <1>2. 1 \in DOMAIN a
    BY <1>1, MaxArgsPositive DEF Index
  <1> QED BY <1>2

LEMMA BodyEnters ==
  ASSUME Inv, NEW c \in Calls, Body(c)
  PROVE  Abs!Enter(c, args[c]) /\ args[c] \in Inputs
  <1>1. /\ phase[c] = "decode" /\ todo[c] = {} /\ args' = args
        /\ phase' = [phase EXCEPT ![c] = "body"] /\ phase \in [Calls -> Phases]
    BY DEF Body, Inv, TypeOK
  <1>2. args[c] \in Inputs /\ NoImmediateInvalidBorrow(args[c])
    BY <1>1 DEF Inv, CallsOK
  <1>3. \A i \in DOMAIN args[c] : <<c, i>> \in guards
    BY <1>1 DEF Inv, CallsOK
  <1>4. Borrowed[c] = <<>>
    BY <1>1 DEF Borrowed
  <1>5. Borrowed' = [Borrowed EXCEPT ![c] = args[c]]
    BY <1>1 DEF Borrowed
  <1>6. Abs!Coherent(args[c])
    BY <1>2 DEF NoImmediateInvalidBorrow, Abs!Coherent, Abs!Conflict
  <1>7. ASSUME NEW d \in Calls PROVE Abs!Apart(args[c], Borrowed[d])
    <2> SUFFICES ASSUME NEW i \in DOMAIN args[c], NEW j \in DOMAIN Borrowed[d]
                 PROVE  ~Abs!Conflict(args[c][i], Borrowed[d][j])
      BY DEF Abs!Apart
    <2>1. phase[d] = "body" /\ Borrowed[d] = args[d]
      BY DEF Borrowed
    <2>2. <<d, j>> \in guards /\ <<c, i>> \in guards /\ c # d
      BY <1>1, <1>3, <2>1 DEF Inv, CallsOK
    <2>3. Object(c, i) = Object(d, j) => ~Mutable(c, i) /\ ~Mutable(d, j)
      BY <2>2 DEF Inv, GuardsOK
    <2> QED BY <2>1, <2>3 DEF Abs!Conflict, Object, Mutable
  <1> QED BY <1>2, <1>4, <1>5, <1>6, <1>7 DEF Abs!Enter, Abs!Nothing

LEMMA ReturnLeaves ==
  ASSUME Inv, NEW c \in Calls, Return(c) PROVE Abs!Leave(c)
  <1>1. /\ phase[c] = "body" /\ args' = args
        /\ phase' = [phase EXCEPT ![c] = "drop"] /\ phase \in [Calls -> Phases]
    BY DEF Return, Inv, TypeOK
  <1>2. Borrowed[c] # <<>>
    BY <1>1, InputsNotEmpty DEF Borrowed, Inv, CallsOK
  <1>3. Borrowed' = [Borrowed EXCEPT ![c] = <<>>]
    BY <1>1 DEF Borrowed
  <1> QED BY <1>2, <1>3 DEF Abs!Leave, Abs!Nothing

(* A step that neither starts nor ends a body does not show. *)
LEMMA OutsideBodies ==
  ASSUME NEW c \in Calls, phase[c] # "body", phase'[c] # "body",
         \A d \in Calls \ {c} : phase'[d] = phase[d] /\ args'[d] = args[d]
  PROVE  Borrowed' = Borrowed
  <1>1. \A d \in Calls : (IF phase'[d] = "body" THEN args'[d] ELSE <<>>)
                          = (IF phase[d] = "body" THEN args[d] ELSE <<>>)
    OBVIOUS
  <1> QED BY <1>1 DEF Borrowed

LEMMA LockingIsHidden ==
  ASSUME Inv, NEW c \in Calls,
         (\E a \in Inputs : Call(c, a)) \/ Acquire(c) \/ Enqueue(c) \/ DropGuard(c) \/ Done(c)
  PROVE  Borrowed' = Borrowed
  <1> USE DEF Inv, TypeOK
  <1>1. CASE \E a \in Inputs : Call(c, a)
    BY <1>1, OutsideBodies DEF Call
  <1>2. CASE Acquire(c)
    BY <1>2 DEF Acquire, Borrowed
  <1>3. CASE Enqueue(c)
    BY <1>3, OutsideBodies DEF Enqueue
  <1>4. CASE DropGuard(c)
    BY <1>4 DEF DropGuard, Borrowed
  <1>5. CASE Done(c)
    BY <1>5, OutsideBodies DEF Done
  <1> QED BY <1>1, <1>2, <1>3, <1>4, <1>5

LEMMA GrantIsHidden == ASSUME Inv, NEW o \in Objects, Grant(o) PROVE Borrowed' = Borrowed
  <1> DEFINE c == Head(queue[o])[1]
  <1>1. c \in Calls /\ phase[c] = "wait"
    <2>1. queue[o] # <<>> /\ queue[o] \in Seq(Calls \X Index)
      BY DEF Grant, Grantable, Inv, TypeOK
    <2>2. 1 \in DOMAIN queue[o] /\ Head(queue[o]) = queue[o][1] /\ queue[o][1] \in Calls \X Index
      BY <2>1
    <2> QED BY <2>2 DEF Inv, QueuesOK, EntriesOK
  <1>2. phase' = [phase EXCEPT ![c] = "decode"] /\ args' = args
    BY DEF Grant
  <1>3. phase \in [Calls -> Phases]
    BY DEF Inv, TypeOK
  <1> QED BY <1>1, <1>2, <1>3, OutsideBodies

(* The bodies run as if each had taken its borrows in one step: body by body,
   what the guards give is what the abstract specification asks for. *)
THEOREM Refinement == Spec => ImplementsAtomicBorrows
  <1>1. Init => Abs!Init
    BY DEF Init, Abs!Init, Abs!Nothing, Borrowed
  <1>2. Inv /\ [Next]_vars => [Abs!Next]_Borrowed
    <2> SUFFICES ASSUME Inv, [Next]_vars PROVE Abs!Next \/ Borrowed' = Borrowed
      OBVIOUS
    <2>1. ASSUME NEW c \in Calls, Body(c) PROVE Abs!Next
      BY <2>1, BodyEnters DEF Abs!Next
    <2>2. ASSUME NEW c \in Calls, Return(c) PROVE Abs!Next
      BY <2>2, ReturnLeaves DEF Abs!Next
    <2>3. CASE UNCHANGED vars
      BY <2>3 DEF vars, Borrowed
    <2> QED BY <2>1, <2>2, <2>3, LockingIsHidden, GrantIsHidden DEF Next, Step
  <1> QED BY <1>1, <1>2, Invariance, PTL DEF Spec, ImplementsAtomicBorrows, Abs!Spec
=============================================================================
