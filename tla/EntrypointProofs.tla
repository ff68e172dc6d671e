-------------------------- MODULE EntrypointProofs ---------------------------
(***************************************************************************)
(* The life of the bridge for any isolates and any calls of init: the      *)
(* isolate counter is exact, posting is on exactly as long as somebody may *)
(* need it, and an isolate has one bridge, which stays disposed.           *)
(***************************************************************************)
EXTENDS Entrypoint, FiniteSetTheorems, TLAPS

(* What an init, or a callback, leaves of the set of counted isolates.       *)
LEMMA CountedFinite ==
  ASSUME Inv
  PROVE  /\ IsFiniteSet(Counted) /\ Cardinality(Counted) \in Nat
         /\ isolates_num = Cardinality(Counted)
         /\ \A i \in Counted : Counted = {i} <=> isolates_num = 1
         /\ Counted = {} <=> isolates_num = 0
  <1>1. IsFiniteSet(Counted)
    <2>1. Counted \subseteq Isolates
      BY DEF Counted, Inv, TypeOK
    <2> QED BY <2>1, EntrypointAssumption, FS_Subset
  <1>2. Cardinality(Counted) \in Nat /\ isolates_num = Cardinality(Counted)
    BY <1>1, FS_CardinalityType DEF Inv, CounterIsWatchers
  <1>3. \A i \in Counted : Counted = {i} <=> isolates_num = 1
    <2> SUFFICES ASSUME NEW i \in Counted PROVE Counted = {i} <=> isolates_num = 1
      OBVIOUS
    <2>1. isolates_num = 1 <=> \E x : Counted = {x}
      BY <1>1, <1>2, FS_Singleton
    <2> QED BY <2>1
  <1>4. Counted = {} <=> isolates_num = 0
    BY <1>1, <1>2, FS_EmptySet
  <1> QED BY <1>1, <1>2, <1>3, <1>4

(* Steps that count nobody in or out keep the counter and its meaning. *)
LEMMA CountedKept ==
  ASSUME Inv, UNCHANGED <<watched, callback, isolates_num>>
  PROVE  Counted' = Counted /\ CounterIsWatchers'
  BY DEF Inv, Counted, CounterIsWatchers

LEMMA Initially == Init => Inv
  <1> SUFFICES ASSUME Init PROVE Inv
    OBVIOUS
  <1>1. TypeOK
    BY DEF Init, TypeOK
  <1>2. Counted = {}
    BY DEF Init, Counted
  <1>3. CounterIsWatchers
    BY <1>2, FS_EmptySet DEF Init, CounterIsWatchers
  <1>4. LifeInv
    BY EntrypointAssumption DEF Init, LifeInv, InProgress, NoState
  <1>5. PostInv
    BY <1>2 DEF Init, PostInv, Constructing
  <1>6. BridgeInv
    BY DEF Init, BridgeInv, InProgress
  <1> QED BY <1>1, <1>3, <1>4, <1>5, <1>6 DEF Inv

-----------------------------------------------------------------------------
(* Every action preserves the invariant.                                     *)

LEMMA StartInitStep ==
  ASSUME Inv, NEW n \in Inits, StartInit(n)
  PROVE  Inv'
  <1> DEFINE i == IsolateOf[n]
  <1> USE DEF Inv
  <1>1. /\ i \in Isolates /\ i \in alive /\ pc[n] = "new"
        /\ pc'[n] \in {"loading", "threw"} /\ (pc'[n] = "loading" => state[i] = NoState)
        /\ pc' \in [Inits -> {"new", "loading", "constructing", "up", "done", "threw"}]
        /\ \A m \in Inits \ {n} : pc'[m] = pc[m]
        /\ overlapped \subseteq overlapped' /\ overlapped' \subseteq Isolates
        /\ (i \notin overlapped' => \A m \in InitsOf(i) : ~InProgress(m))
        /\ UNCHANGED <<alive, state, port, watched, callback, isolates_num, post, raced>>
    BY EntrypointAssumption DEF StartInit, CanRun, TypeOK
  <1>2. TypeOK'
    BY <1>1 DEF TypeOK
  <1>3. Counted' = Counted /\ CounterIsWatchers'
    BY <1>1, CountedKept
  <1>4. Constructing' = Constructing
    BY <1>1 DEF Constructing
  <1>5. LifeInv'
    BY <1>1 DEF LifeInv, InProgress
  <1>6. PostInv'
    BY <1>1, <1>3, <1>4 DEF PostInv
  <1>7. BridgeInv'
    <2> SUFFICES ASSUME NEW m \in Inits, IsolateOf[m] \notin overlapped'
                 PROVE  /\ InProgress(m)' => /\ state'[IsolateOf[m]] = NoState
                                             /\ \A k \in InitsOf(IsolateOf[m]) : InProgress(k)' => k = m
                        /\ pc'[m] \in {"up", "done"} \/ port'[m] = "open" => state'[IsolateOf[m]] = m
      BY DEF BridgeInv, InitsOf
    <2>1. CASE IsolateOf[m] = i
      BY <1>1, <2>1 DEF BridgeInv, InProgress, InitsOf
    <2>2. CASE IsolateOf[m] # i
      BY <1>1, <2>2 DEF BridgeInv, InProgress, InitsOf
    <2> QED BY <2>1, <2>2
  <1> QED BY <1>2, <1>3, <1>5, <1>6, <1>7

LEMMA LoadStep ==
  ASSUME Inv, NEW n \in Inits, InitThrows(n) \/ ExecuteRustInitializers(n)
  PROVE  Inv'
  <1> USE DEF Inv
  <1>1. /\ pc[n] \in {"loading", "up"} /\ pc'[n] \in {"done", "threw"} /\ (pc'[n] = "done" => pc[n] = "up")
        /\ pc' \in [Inits -> {"new", "loading", "constructing", "up", "done", "threw"}]
        /\ \A m \in Inits \ {n} : pc'[m] = pc[m]
        /\ UNCHANGED <<alive, state, port, watched, callback, isolates_num, post, overlapped, raced>>
    BY DEF InitThrows, ExecuteRustInitializers, TypeOK
  <1>2. TypeOK'
    BY <1>1 DEF TypeOK
  <1>3. Counted' = Counted /\ CounterIsWatchers'
    BY <1>1, CountedKept
  <1>4. Constructing' = Constructing
    BY <1>1 DEF Constructing
  <1>5. LifeInv'
    BY <1>1 DEF LifeInv, InProgress
  <1>6. PostInv'
    BY <1>1, <1>3, <1>4 DEF PostInv
  <1>7. BridgeInv'
    BY <1>1 DEF BridgeInv, InProgress, InitsOf
  <1> QED BY <1>2, <1>3, <1>5, <1>6, <1>7

LEMMA StoreDartPostCObjectStep ==
  ASSUME Inv, NEW n \in Inits, StoreDartPostCObject(n)
  PROVE  Inv'
  <1> USE DEF Inv
  <1>1. /\ pc[n] = "loading" /\ pc'[n] = "constructing" /\ post' = "real"
        /\ pc' \in [Inits -> {"new", "loading", "constructing", "up", "done", "threw"}]
        /\ \A m \in Inits \ {n} : pc'[m] = pc[m]
        /\ raced' \in BOOLEAN
        /\ (~raced' => ~raced /\ \A i \in Isolates : callback[i] # "last")
        /\ UNCHANGED <<alive, state, port, watched, callback, isolates_num, overlapped>>
    BY DEF StoreDartPostCObject, TypeOK
  <1>2. TypeOK'
    BY <1>1 DEF TypeOK
  <1>3. Counted' = Counted /\ CounterIsWatchers'
    BY <1>1, CountedKept
  <1>4. Constructing'
    BY <1>1 DEF Constructing
  <1>5. LifeInv'
    BY <1>1 DEF LifeInv, InProgress
  <1>6. PostInv'
    BY <1>1, <1>3, <1>4 DEF PostInv
  <1>7. BridgeInv'
    BY <1>1 DEF BridgeInv, InProgress, InitsOf
  <1> QED BY <1>2, <1>3, <1>5, <1>6, <1>7

LEMMA InitShutdownWatcherStep ==
  ASSUME Inv, NEW n \in Inits, InitShutdownWatcher(n)
  PROVE  Inv'
  <1> DEFINE i == IsolateOf[n]
  <1> USE DEF Inv
  <1>1. /\ i \in Isolates /\ i \in alive /\ pc[n] = "constructing" /\ pc'[n] = "up"
        /\ pc' \in [Inits -> {"new", "loading", "constructing", "up", "done", "threw"}]
        /\ \A m \in Inits \ {n} : pc'[m] = pc[m]
        /\ state'[i] = n /\ state' \in [Isolates -> Inits \cup {NoState, Mock}]
        /\ \A j \in Isolates \ {i} : state'[j] = state[j]
        /\ watched' = watched \cup {i}
        /\ UNCHANGED <<alive, port, callback, post, overlapped, raced>>
    BY EntrypointAssumption DEF InitShutdownWatcher, TypeOK
  <1>2. callback[i] = "none"
    BY <1>1 DEF LifeInv
  <1>3. Counted' = Counted \cup {i} /\ (i \in watched <=> i \in Counted)
    BY <1>1, <1>2 DEF Counted
  <1>4. CounterIsWatchers' /\ isolates_num' \in Nat
    <2>1. IsFiniteSet(Counted) /\ Cardinality(Counted) \in Nat /\ isolates_num = Cardinality(Counted)
      BY CountedFinite
    <2>2. CASE i \in watched
      BY <1>3, <2>1, <2>2 DEF InitShutdownWatcher, CounterIsWatchers
    <2>3. CASE i \notin watched
      <3>1. Cardinality(Counted') = Cardinality(Counted) + 1
        BY <1>3, <2>1, <2>3, FS_AddElement
      <3> QED BY <2>1, <2>3, <3>1 DEF InitShutdownWatcher, CounterIsWatchers
    <2> QED BY <2>2, <2>3
  <1>5. TypeOK'
    BY <1>1, <1>4 DEF TypeOK
  <1>6. LifeInv'
    BY <1>1, <1>2 DEF LifeInv, InProgress
  <1>7. PostInv'
    <2>1. Constructing
      BY <1>1 DEF Constructing
    <2> QED BY <1>1, <1>3, <2>1 DEF PostInv
  <1>8. BridgeInv'
    <2> SUFFICES ASSUME NEW m \in Inits, IsolateOf[m] \notin overlapped
                 PROVE  /\ InProgress(m)' => /\ state'[IsolateOf[m]] = NoState
                                             /\ \A k \in InitsOf(IsolateOf[m]) : InProgress(k)' => k = m
                        /\ pc'[m] \in {"up", "done"} \/ port'[m] = "open" => state'[IsolateOf[m]] = m
      BY <1>1 DEF BridgeInv, InitsOf
    <2>1. CASE IsolateOf[m] # i
      <3>1. IsolateOf[m] \in Isolates /\ m # n /\ \A k \in InitsOf(IsolateOf[m]) : k # n /\ k \in Inits
        BY <2>1, EntrypointAssumption DEF InitsOf
      <3> QED BY <1>1, <2>1, <3>1 DEF BridgeInv, InProgress
    <2>2. CASE IsolateOf[m] = i
      <3>1. state[i] = NoState /\ \A k \in InitsOf(i) : InProgress(k) => k = n
        BY <1>1, <2>2 DEF BridgeInv, InProgress
      <3>2. ~(pc[m] \in {"up", "done"} \/ port[m] = "open")
        BY <2>2, <3>1, EntrypointAssumption DEF BridgeInv
      <3>3. m # n => ~InProgress(m)
        BY <2>2, <3>1 DEF InitsOf
      <3>4. ~InProgress(m)'
        BY <1>1, <3>3 DEF InProgress
      <3> QED BY <1>1, <2>2, <3>2, <3>4
    <2> QED BY <2>1, <2>2
  <1> QED BY <1>4, <1>5, <1>6, <1>7, <1>8

LEMMA InitMockStep ==
  ASSUME Inv, NEW i \in Isolates, InitMock(i)
  PROVE  Inv'
  <1> USE DEF Inv
  <1>1. /\ state[i] = NoState /\ state'[i] = Mock /\ state' \in [Isolates -> Inits \cup {NoState, Mock}]
        /\ \A j \in Isolates \ {i} : state'[j] = state[j]
        /\ overlapped \subseteq overlapped' /\ overlapped' \subseteq Isolates
        /\ (i \notin overlapped' => \A m \in InitsOf(i) : ~InProgress(m))
        /\ UNCHANGED <<alive, pc, port, watched, callback, isolates_num, post, raced>>
    BY DEF InitMock, TypeOK
  <1>2. TypeOK'
    BY <1>1 DEF TypeOK
  <1>3. Counted' = Counted /\ CounterIsWatchers'
    BY <1>1, CountedKept
  <1>4. LifeInv'
    BY <1>1, EntrypointAssumption DEF LifeInv, InProgress
  <1>5. PostInv'
    BY <1>1, <1>3 DEF PostInv, Constructing
  <1>6. BridgeInv'
    BY <1>1, EntrypointAssumption DEF BridgeInv, InProgress, InitsOf
  <1> QED BY <1>2, <1>3, <1>4, <1>5, <1>6

LEMMA PortStep ==
  ASSUME Inv, \/ \E n \in Inits : OpenPort(n)
              \/ \E i \in Isolates : Dispose(i)
  PROVE  Inv'
  <1> USE DEF Inv
  <1>1. /\ port' \in [Inits -> {"unused", "open", "closed"}]
        /\ \A n \in Inits : port'[n] = "open" => port[n] = "open" \/ state[IsolateOf[n]] = n
        /\ UNCHANGED <<alive, pc, state, watched, callback, isolates_num, post, overlapped, raced>>
    BY DEF OpenPort, Dispose, TypeOK
  <1>2. TypeOK'
    BY <1>1 DEF TypeOK
  <1>3. Counted' = Counted /\ CounterIsWatchers'
    BY <1>1, CountedKept
  <1>4. LifeInv'
    BY <1>1 DEF LifeInv, InProgress
  <1>5. PostInv'
    BY <1>1, <1>3 DEF PostInv, Constructing
  <1>6. BridgeInv'
    BY <1>1 DEF BridgeInv, InProgress, InitsOf
  <1> QED BY <1>2, <1>3, <1>4, <1>5, <1>6

LEMMA ResetStateStep ==
  ASSUME Inv, NEW i \in Isolates, ResetState(i)
  PROVE  Inv'
  <1> USE DEF Inv
  <1>1. /\ state'[i] = NoState /\ state' \in [Isolates -> Inits \cup {NoState, Mock}]
        /\ \A j \in Isolates \ {i} : state'[j] = state[j]
        /\ overlapped' = overlapped \cup {i}
        /\ UNCHANGED <<alive, pc, port, watched, callback, isolates_num, post, raced>>
    BY DEF ResetState, TypeOK
  <1>2. TypeOK'
    BY <1>1 DEF TypeOK
  <1>3. Counted' = Counted /\ CounterIsWatchers'
    BY <1>1, CountedKept
  <1>4. LifeInv'
    BY <1>1, EntrypointAssumption DEF LifeInv, InProgress
  <1>5. PostInv'
    BY <1>1, <1>3 DEF PostInv, Constructing
  <1>6. BridgeInv'
    BY <1>1, EntrypointAssumption DEF BridgeInv, InProgress, InitsOf
  <1> QED BY <1>2, <1>3, <1>4, <1>5, <1>6

LEMMA ExitStep ==
  ASSUME Inv, NEW i \in Isolates, Exit(i)
  PROVE  Inv'
  <1> USE DEF Inv
  <1>1. /\ alive' = alive \ {i}
        /\ pc' \in [Inits -> {"new", "loading", "constructing", "up", "done", "threw"}]
        /\ \A n \in Inits : pc'[n] = IF IsolateOf[n] = i /\ InProgress(n) THEN "threw" ELSE pc[n]
        /\ port' \in [Inits -> {"unused", "open", "closed"}]
        /\ \A n \in Inits : port'[n] = IF IsolateOf[n] = i THEN "closed" ELSE port[n]
        /\ raced' \in BOOLEAN /\ (~raced' => ~raced /\ CanRun(i))
        /\ UNCHANGED <<state, watched, callback, isolates_num, post, overlapped>>
    BY DEF Exit, TypeOK
  <1>2. TypeOK'
    BY <1>1 DEF TypeOK
  <1>3. Counted' = Counted /\ CounterIsWatchers'
    BY <1>1, CountedKept
  <1>4. ~raced' => Constructing' = Constructing
    BY <1>1 DEF Constructing, CanRun, InitsOf
  <1>5. LifeInv'
    BY <1>1 DEF LifeInv, InProgress
  <1>6. PostInv'
    BY <1>1, <1>3, <1>4 DEF PostInv
  <1>7. BridgeInv'
    BY <1>1 DEF BridgeInv, InProgress, InitsOf
  <1> QED BY <1>2, <1>3, <1>5, <1>6, <1>7

LEMMA ShutdownCallbackStep ==
  ASSUME Inv, NEW i \in Isolates, ShutdownCallback(i)
  PROVE  Inv'
  <1> USE DEF Inv
  <1>1. /\ i \in watched \ alive /\ callback[i] = "none"
        /\ callback' \in [Isolates -> {"none", "last", "over"}]
        /\ callback'[i] = IF isolates_num = 1 THEN "last" ELSE "over"
        /\ \A j \in Isolates \ {i} : callback'[j] = callback[j]
        /\ raced' \in BOOLEAN /\ (~raced' => ~raced /\ ~Constructing)
        /\ UNCHANGED <<alive, pc, state, port, watched, post, overlapped>>
    BY DEF ShutdownCallback, TypeOK, Constructing
  <1>2. i \in Counted /\ Counted' = Counted \ {i}
    BY <1>1 DEF Counted, TypeOK
  <1>3. /\ IsFiniteSet(Counted) /\ isolates_num = Cardinality(Counted)
        /\ Counted = {i} <=> isolates_num = 1
    BY <1>2, CountedFinite
  <1>4. Cardinality(Counted') = Cardinality(Counted) - 1 /\ Cardinality(Counted') \in Nat
    <2>1. IsFiniteSet(Counted')
      BY <1>2, <1>3, FS_RemoveElement
    <2> QED BY <1>2, <1>3, <2>1, FS_RemoveElement, FS_CardinalityType
  <1>5. CounterIsWatchers' /\ isolates_num' \in Nat
    BY <1>3, <1>4 DEF ShutdownCallback, CounterIsWatchers
  <1>6. TypeOK'
    BY <1>1, <1>5 DEF TypeOK
  <1>7. LifeInv'
    BY <1>1 DEF LifeInv, InProgress
  <1>8. PostInv'
    <2> SUFFICES ASSUME ~raced'
                 PROVE  /\ (\E j \in Isolates : callback'[j] = "last") => Counted' = {} /\ ~Constructing'
                        /\ Constructing' \/ Counted' # {} => post' = "real"
                        /\ post' = "real" => \/ Constructing' \/ Counted' # {}
                                             \/ \E j \in Isolates : callback'[j] = "last"
      BY DEF PostInv
    <2>1. ~raced /\ ~Constructing /\ ~Constructing'
      BY <1>1 DEF Constructing
    <2>2. post = "real" /\ \A j \in Isolates : callback[j] # "last"
      BY <1>2, <2>1 DEF PostInv
    <2>3. CASE isolates_num = 1
      <3>1. Counted' = {} /\ callback'[i] = "last"
        BY <1>1, <1>2, <1>3, <2>3
      <3> QED BY <2>1, <3>1
    <2>4. CASE isolates_num # 1
      <3>1. Counted' # {} /\ \A j \in Isolates : callback'[j] # "last"
        BY <1>1, <1>2, <1>3, <2>2, <2>4
      <3> QED BY <1>1, <2>1, <2>2, <3>1
    <2> QED BY <2>3, <2>4
  <1>9. BridgeInv'
    BY <1>1 DEF BridgeInv, InProgress, InitsOf
  <1> QED BY <1>5, <1>6, <1>7, <1>8, <1>9

LEMMA StoreDevnullStep ==
  ASSUME Inv, NEW i \in Isolates, StoreDevnull(i)
  PROVE  Inv'
  <1> USE DEF Inv
  <1>1. /\ callback[i] = "last" /\ callback'[i] = "over" /\ post' = "devnull"
        /\ callback' \in [Isolates -> {"none", "last", "over"}]
        /\ \A j \in Isolates \ {i} : callback'[j] = callback[j]
        /\ UNCHANGED <<alive, pc, state, port, watched, isolates_num, overlapped, raced>>
    BY DEF StoreDevnull, TypeOK
  <1>2. TypeOK'
    BY <1>1 DEF TypeOK
  <1>3. Counted' = Counted
    BY <1>1 DEF Counted, TypeOK
  <1>4. CounterIsWatchers'
    BY <1>1, <1>3 DEF CounterIsWatchers
  <1>5. LifeInv'
    BY <1>1 DEF LifeInv, InProgress
  <1>6. PostInv'
    BY <1>1, <1>3 DEF PostInv, Constructing
  <1>7. BridgeInv'
    BY <1>1 DEF BridgeInv, InProgress, InitsOf
  <1> QED BY <1>2, <1>4, <1>5, <1>6, <1>7

LEMMA Preserved == Inv /\ [Next]_vars => Inv'
  <1> SUFFICES ASSUME Inv, [Next]_vars PROVE Inv'
    OBVIOUS
  <1>1. CASE UNCHANGED vars
    BY <1>1 DEF Inv, TypeOK, LifeInv, PostInv, BridgeInv, CounterIsWatchers, Counted,
                Constructing, InProgress, InitsOf, vars
  <1>2. CASE Next
    BY <1>2, StartInitStep, LoadStep, StoreDartPostCObjectStep, InitShutdownWatcherStep,
       InitMockStep, PortStep, ResetStateStep, ExitStep, ShutdownCallbackStep, StoreDevnullStep
       DEF Next
  <1> QED BY <1>1, <1>2

-----------------------------------------------------------------------------

(* The invariant of the bridge's life: who is counted, when posting is on and *)
(* which init an isolate's state comes from.                                  *)
THEOREM Invariance == Spec => []Inv
  BY Initially, Preserved, PTL DEF Spec

(* ISOLATES_NUM is the number of shutdown callbacks still to come, so that    *)
(* exactly the last of them finds itself the last.                            *)
THEOREM Counter == Spec => []CounterIsWatchers
  <1>1. Inv => CounterIsWatchers
    BY DEF Inv
  <1> QED BY <1>1, Invariance, PTL

(* No isolate loses the bridge because another one went away, unless a        *)
(* shutdown callback met a constructor.                                       *)
THEOREM Posting == Spec => []PostingEnabledWhileUp
  <1>1. Inv => PostingEnabledWhileUp
    <2> SUFFICES ASSUME Inv, ~raced, NEW i \in Isolates, Up(i) PROVE post = "real"
      BY DEF PostingEnabledWhileUp
    <2>1. i \in Counted
      BY DEF Inv, LifeInv, Up, Counted
    <2> QED BY <2>1 DEF Inv, PostInv
  <1> QED BY <1>1, Invariance, PTL

(* When all that came up is gone and its callbacks have run, nothing is       *)
(* posted into the VM any more.                                               *)
THEOREM Quiet == Spec => []QuietAfterShutdown
  <1>1. Inv => QuietAfterShutdown
    <2> SUFFICES ASSUME Inv, ~raced, \A n \in Inits : pc[n] # "constructing",
                        \A i \in watched : callback[i] = "over"
                 PROVE  post # "real"
      BY DEF QuietAfterShutdown
    <2>1. Counted = {} /\ ~Constructing
      BY DEF Counted, Constructing
    <2>2. \A i \in Isolates : callback[i] # "last"
      BY DEF Inv, LifeInv
    <2> QED BY <2>1, <2>2 DEF Inv, PostInv
  <1> QED BY <1>1, Invariance, PTL

(* Unless two inits overlap, an isolate has one bridge, and the open handler  *)
(* port is the one that dispose closes.                                       *)
THEOREM OneBridge == Spec => []OneBridgePerIsolate
  <1>1. Inv => OneBridgePerIsolate
    BY DEF Inv, BridgeInv, OneBridgePerIsolate
  <1> QED BY <1>1, Invariance, PTL

(* A disposed bridge stays disposed: no init brings it back and no handler    *)
(* port is opened behind it.                                                  *)
THEOREM Disposed == Spec => DisposedForGood
  <1>1. Inv /\ [Next]_vars =>
          [\A i \in Isolates \ overlapped' :
             state[i] \in Inits /\ port[state[i]] = "closed"
               => state'[i] = state[i] /\ port'[state[i]] = "closed"]_vars
    <2> SUFFICES ASSUME Inv, Next, NEW i \in Isolates \ overlapped',
                        state[i] \in Inits, port[state[i]] = "closed"
                 PROVE  state'[i] = state[i] /\ port'[state[i]] = "closed"
      BY DEF vars
    <2> USE DEF Inv
    <2>1. ASSUME NEW n \in Inits, InitShutdownWatcher(n)
          PROVE  state'[i] = state[i] /\ port'[state[i]] = "closed"
      <3>1. IsolateOf[n] # i
        <4>1. i \notin overlapped /\ pc[n] = "constructing"
          BY <2>1 DEF InitShutdownWatcher
        <4>2. IsolateOf[n] = i => state[i] = NoState
          BY <4>1 DEF BridgeInv, InProgress
        <4> QED BY <4>2, EntrypointAssumption
      <3> QED BY <2>1, <3>1 DEF InitShutdownWatcher, TypeOK
    <2>2. ASSUME NEW n \in Inits,
                 StartInit(n) \/ InitThrows(n) \/ StoreDartPostCObject(n) \/ ExecuteRustInitializers(n)
          PROVE  state'[i] = state[i] /\ port'[state[i]] = "closed"
      BY <2>2 DEF StartInit, InitThrows, StoreDartPostCObject, ExecuteRustInitializers
    <2>3. ASSUME NEW n \in Inits, OpenPort(n)
          PROVE  state'[i] = state[i] /\ port'[state[i]] = "closed"
      BY <2>3 DEF OpenPort, TypeOK
    <2>4. ASSUME NEW j \in Isolates, InitMock(j) \/ ResetState(j)
          PROVE  state'[i] = state[i] /\ port'[state[i]] = "closed"
      BY <2>4, EntrypointAssumption DEF InitMock, ResetState, TypeOK
    <2>5. ASSUME NEW j \in Isolates, Dispose(j) \/ Exit(j)
          PROVE  state'[i] = state[i] /\ port'[state[i]] = "closed"
      BY <2>5 DEF Dispose, Exit, TypeOK
    <2>6. ASSUME NEW j \in Isolates, ShutdownCallback(j) \/ StoreDevnull(j)
          PROVE  state'[i] = state[i] /\ port'[state[i]] = "closed"
      BY <2>6 DEF ShutdownCallback, StoreDevnull
    <2> QED BY <2>1, <2>2, <2>3, <2>4, <2>5, <2>6 DEF Next
  <1> QED BY <1>1, Invariance, PTL DEF Spec, DisposedForGood
=============================================================================
